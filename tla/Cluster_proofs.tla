--------------------------- MODULE Cluster_proofs ---------------------------
(***************************************************************************)
(* What the actors that go over a whole cluster promise: the scanners that *)
(* read its collections, quiesce() and dbcheck() that visit its members.   *)
(***************************************************************************)
EXTENDS Quiesce, CollectionScanner, Numbers_proofs, FiniteSetTheorems

-----------------------------------------------------------------------------
(* quiesce() and dbcheck().                                                *)

\* The lock is with whoever is between taking it and letting it go.
LockHeld ==
  /\ owner \in Callers \cup {NoCaller}
  /\ where \in [Callers -> {"idle", "wait", "unlock", "discover", "run", "return", "dead"}]
  /\ \A c \in Callers : where[c] \in {"unlock", "discover", "run"} <=> owner = c

\* Who waits and has seen no run end waits for one that is under way, and
\* whoever has taken the lock after a wait, or has done a run, has seen one end.
AwaitsRun ==
  /\ ended \in [Callers -> BOOLEAN]
  /\ \A c \in Callers :
       /\ where[c] \in {"unlock", "return"} => ended[c]
       /\ where[c] = "wait" /\ ~ended[c] => owner # NoCaller /\ where[owner] \in {"discover", "run"}

QuiesceInv == LockHeld /\ AwaitsRun

\* Taking the lock, waiting for it and letting it go.
LEMMA LockSteps ==
  ASSUME QuiesceInv, NEW c \in Callers,
         TryLock(c) \/ LockToWait(c) \/ Unlock(c) \/ Return(c) \/ Discover(c)
  PROVE  QuiesceInv'
<1> USE CallersAssumption DEF QuiesceInv, LockHeld, AwaitsRun
<1>1. CASE TryLock(c)
  BY <1>1 DEF TryLock
<1>2. CASE LockToWait(c)
  BY <1>2 DEF LockToWait
<1>3. CASE Unlock(c)
  BY <1>3 DEF Unlock
<1>4. CASE Return(c)
  BY <1>4 DEF Return
<1>5. CASE Discover(c)
  BY <1>5 DEF Discover
<1> QED
  BY <1>1, <1>2, <1>3, <1>4, <1>5

\* The end of a run, stored or thrown, wakes everybody.
LEMMA RunEnds ==
  ASSUME QuiesceInv, Store \/ RunThrows
  PROVE  QuiesceInv'
<1> USE CallersAssumption DEF QuiesceInv, LockHeld, AwaitsRun
<1>1. CASE Store
  BY <1>1 DEF Store, Runner
<1>2. CASE RunThrows
  BY <1>2 DEF RunThrows
<1> QED
  BY <1>1, <1>2

\* Every step keeps both.
LEMMA LockStep == QuiesceInv /\ [QuiesceNext]_quiesceVars => QuiesceInv'
<1> SUFFICES ASSUME QuiesceInv, [QuiesceNext]_quiesceVars PROVE QuiesceInv'
  OBVIOUS
<1>1. CASE \E c \in Callers : TryLock(c) \/ LockToWait(c) \/ Unlock(c) \/ Return(c) \/ Discover(c)
  BY <1>1, LockSteps
<1>2. CASE Store \/ RunThrows
  BY <1>2, RunEnds
<1>3. CASE UNCHANGED <<owner, where, ended>>
  BY <1>3 DEF QuiesceInv, LockHeld, AwaitsRun
<1>4. Hooked \/ NextVisitor \/ (\E check \in checks : FinishCheck(check)) \/ UNCHANGED quiesceVars
        => UNCHANGED <<owner, where, ended>>
  BY DEF Hooked, NextVisitor, FinishCheck, quiesceVars
<1> QED
  BY <1>1, <1>2, <1>3, <1>4 DEF QuiesceNext

\* RunAwaited: no thread comes back from quiesce() or dbcheck() before the run
\* it met, or its own, has ended, whoever else calls meanwhile and whatever
\* request of the run throws.
THEOREM RunsAreAwaited == QuiesceSpec => []RunAwaited
<1>1. QuiesceInit => QuiesceInv
  BY CallersAssumption DEF QuiesceInit, QuiesceInv, LockHeld, AwaitsRun
<1>2. QuiesceInv /\ [QuiesceNext]_quiesceVars => QuiesceInv'
  BY LockStep
<1>3. QuiesceInv => RunAwaited
  BY DEF QuiesceInv, AwaitsRun, RunAwaited
<1> QED
  BY <1>1, <1>2, <1>3, PTL DEF QuiesceSpec

-----------------------------------------------------------------------------
(* The scanners.                                                           *)

ScanFields == {"at", "phase", "todo", "cursor", "docs", "size", "finished", "aborted", "started",
               "clusterTime", "tried", "skipped", "caught", "readAt"}

\* Each thread has one scan, with the fields and the numbers of one.
ScansOK ==
  /\ time \in 0 .. MaxTime
  /\ DOMAIN scan = Scanners
  /\ \A s \in Scanners :
       /\ DOMAIN scan[s] = ScanFields
       /\ scan[s].phase \in Nat \ {0}
       /\ scan[s].caught \in Nat
       /\ scan[s].started \in 0 .. MaxTime
       /\ scan[s].clusterTime \in 0 .. NoTime

\* The scan of a thread that goes on where it was.
Reads(s) ==
  \/ ScanCollection(s) \/ ScanThrows(s) \/ CountCollection(s)
  \/ Find(s) \/ GetMore(s) \/ FindThrows(s) \/ GetMoreThrows(s) \/ ScanAgain(s)

\* The clock is a number, and the bound on it.
LEMMA Clock == MaxTime \in Nat /\ NoTime = MaxTime + 1
  BY ScannerAssumption DEF NoTime

LEMMA ScanStart == ScannerInit => ScansOK
  BY ScannerAssumption DEF ScannerInit, ScansOK, Idle, ScanFields, NoTime

\* A batch, a collection or a failed request changes what is left to read and
\* what was read, nothing else.
GoesOn(s) ==
  /\ UNCHANGED <<schedule, running, time>>
  /\ DOMAIN scan' = Scanners
  /\ \A u \in Scanners \ {s} : scan'[u] = scan[u]
  /\ DOMAIN scan'[s] = ScanFields
  /\ scan'[s].at = scan[s].at
  /\ scan'[s].phase = scan[s].phase
  /\ scan'[s].started = scan[s].started
  /\ scan'[s].clusterTime = scan[s].clusterTime
  /\ scan'[s].readAt = scan[s].readAt
  /\ scan'[s].caught \in {scan[s].caught, scan[s].caught + 1}

LEMMA ReadsGoOn ==
  ASSUME ScansOK, NEW s \in Scanners, Reads(s)
  PROVE  GoesOn(s)
<1>0. DOMAIN scan = Scanners /\ DOMAIN scan[s] = ScanFields /\ scan[s].caught \in Nat
  BY DEF ScansOK
<1> USE <1>0 DEF ScanFields, GoesOn
<1>1. CASE ScanCollection(s)
  BY <1>1 DEF ScanCollection
<1>2. CASE ScanThrows(s)
  BY <1>2 DEF ScanThrows
<1>3. CASE CountCollection(s)
  BY <1>3 DEF CountCollection
<1>4. CASE Find(s)
  BY <1>4 DEF Find, Batch
<1>5. CASE GetMore(s)
  BY <1>5 DEF GetMore, Batch
<1>6. CASE FindThrows(s)
  BY <1>6 DEF FindThrows
<1>7. CASE GetMoreThrows(s)
  BY <1>7 DEF GetMoreThrows
<1>8. CASE ScanAgain(s)
  BY <1>8 DEF ScanAgain
<1> QED
  BY <1>1, <1>2, <1>3, <1>4, <1>5, <1>6, <1>7, <1>8 DEF Reads

LEMMA ReadsKeepScans ==
  ASSUME ScansOK, NEW s \in Scanners, Reads(s)
  PROVE  ScansOK' /\ GoesOn(s)
  BY ReadsGoOn DEF ScansOK, GoesOn

\* The steps that begin a scan, end one, or give up.
Changes(s) ==
  \/ SelectClusterTime(s) \/ SelectClusterTimeThrows(s) \/ BeginScan(s)
  \/ CommitScan(s) \/ ScannerDies(s) \/ EndScan(s)

\* The thread goes on with its next phase, at a time it may have selected.
ToNextPhase(s) ==
  /\ DOMAIN scan' = Scanners
  /\ \A u \in Scanners \ {s} : scan'[u] = scan[u]
  /\ DOMAIN scan'[s] = ScanFields
  /\ scan'[s].at = "idle"
  /\ scan'[s].phase = scan[s].phase + 1
  /\ scan'[s].started = 0 /\ scan'[s].caught = 0

LEMMA NextPhases ==
  ASSUME ScansOK, NEW s \in Scanners
  PROVE  /\ SelectClusterTime(s) => ToNextPhase(s) /\ scan'[s].clusterTime = time
         /\ EndScan(s) => ToNextPhase(s) /\ scan'[s].clusterTime = scan[s].clusterTime
<1> DEFINE next == NextPhase(s)
<1>1. /\ DOMAIN next = ScanFields
      /\ next.at = "idle" /\ next.phase = scan[s].phase + 1
      /\ next.started = 0 /\ next.caught = 0
      /\ next.clusterTime = scan[s].clusterTime
  BY DEF NextPhase, Idle, ScanFields
<1>2. DOMAIN scan = Scanners
  BY DEF ScansOK
<1>3. ASSUME SelectClusterTime(s)
      PROVE  ToNextPhase(s) /\ scan'[s].clusterTime = time
  <2>1. scan' = [scan EXCEPT ![s] = [next EXCEPT !.clusterTime = time]]
    BY <1>3 DEF SelectClusterTime
  <2> HIDE DEF next
  <2> QED
    BY <1>1, <1>2, <2>1 DEF ToNextPhase, ScanFields
<1>4. ASSUME EndScan(s)
      PROVE  ToNextPhase(s) /\ scan'[s].clusterTime = scan[s].clusterTime
  <2>1. scan' = [scan EXCEPT ![s] = next]
    BY <1>4 DEF EndScan
  <2> HIDE DEF next
  <2> QED
    BY <1>1, <1>2, <2>1 DEF ToNextPhase
<1> QED
  BY <1>3, <1>4

LEMMA ChangesKeepScans ==
  ASSUME ScansOK, NEW s \in Scanners, Changes(s)
  PROVE  ScansOK'
<1> USE Clock DEF ScansOK
<1>1. CASE SelectClusterTime(s)
  <2>1. ToNextPhase(s) /\ scan'[s].clusterTime = time /\ time' = time
    BY <1>1, NextPhases DEF SelectClusterTime
  <2> QED
    BY <2>1 DEF ToNextPhase
<1>2. CASE SelectClusterTimeThrows(s)
  BY <1>2 DEF SelectClusterTimeThrows, ScanFields
<1>3. CASE BeginScan(s)
  BY <1>3 DEF BeginScan, ScanFields
<1>4. CASE CommitScan(s)
  BY <1>4 DEF CommitScan, ScanFields
<1>5. CASE ScannerDies(s)
  BY <1>5 DEF ScannerDies, ScanFields
<1>6. CASE EndScan(s)
  <2>1. ToNextPhase(s) /\ scan'[s].clusterTime = scan[s].clusterTime /\ time' = time
    BY <1>6, NextPhases DEF EndScan
  <2> QED
    BY <2>1 DEF ToNextPhase
<1> QED
  BY <1>1, <1>2, <1>3, <1>4, <1>5, <1>6 DEF Changes

LEMMA ScansAreOK == ScansOK /\ [ScannerNext]_scannerVars => ScansOK'
<1> SUFFICES ASSUME ScansOK, [ScannerNext]_scannerVars PROVE ScansOK'
  OBVIOUS
<1>1. CASE \E s \in Scanners : Reads(s)
  BY <1>1, ReadsKeepScans
<1>2. CASE \E s \in Scanners : Changes(s)
  BY <1>2, ChangesKeepScans
<1>3. CASE ScannerTick
  BY <1>3, ScannerAssumption DEF ScannerTick, ScansOK
<1>4. CASE UNCHANGED scannerVars
  BY <1>4 DEF scannerVars, ScansOK
<1> QED
  BY <1>1, <1>2, <1>3, <1>4 DEF ScannerNext, Reads, Changes

LEMMA ScannersFinite ==
  /\ IsFiniteSet(Scanners) /\ Cardinality(Scanners) \in Nat
  /\ Scanners = 0 .. Cardinality(Scanners) - 1
<1>1. PICK n \in Nat : n = Cardinality(Scanners)
  BY ScannerAssumption
<1>2. Scanners = 0 .. n - 1
  BY <1>1, ScannerAssumption, Zenon
<1>3. IsFiniteSet(0 .. n - 1)
  BY FS_Interval
<1> QED
  BY <1>1, <1>2, <1>3, Zenon

\* The threads in a scan.
Scanning == {s \in Scanners : InScan(s)}

LEMMA CountStep ==
  ASSUME ScansOK, CountsTheRunning, [ScannerNext]_scannerVars
  PROVE  CountsTheRunning'
<1> USE DEF CountsTheRunning
<1>1. IsFiniteSet(Scanning) /\ Scanning = {s \in Scanners : InScan(s)}
  BY FS_Subset, ScannersFinite DEF Scanning
<1>2. CASE UNCHANGED running /\ \A u \in Scanners : InScan(u)' = InScan(u)
  BY <1>2
<1>3. CASE \E s \in Scanners : Reads(s)
  BY <1>3, <1>2, ReadsKeepScans DEF InScan, GoesOn
<1>4. ASSUME NEW s \in Scanners, SelectClusterTime(s) \/ SelectClusterTimeThrows(s)
      PROVE  CountsTheRunning'
  BY <1>4, <1>2, NextPhases
     DEF ToNextPhase, SelectClusterTime, SelectClusterTimeThrows, InScan, ScansOK, ScanFields
<1>5. ASSUME NEW s \in Scanners, CommitScan(s) \/ ScannerDies(s)
      PROVE  CountsTheRunning'
  <2>1. UNCHANGED running
    BY <1>5 DEF CommitScan, ScannerDies
  <2>2. /\ InScan(s)
        /\ InScan(s)'
        /\ \A u \in Scanners \ {s} : scan'[u] = scan[u]
    BY <1>5 DEF CommitScan, ScannerDies, Scanned, InScan, ScansOK, ScanFields
  <2> QED
    BY <1>2, <2>1, <2>2 DEF InScan
<1>6. ASSUME NEW s \in Scanners, BeginScan(s)
      PROVE  CountsTheRunning'
  <2>1. s \notin Scanning /\ Scanning' = Scanning \cup {s}
    BY <1>6 DEF Scanning, BeginScan, InScan, ScansOK, ScanFields
  <2>2. Cardinality(Scanning') = Cardinality(Scanning) + 1
    BY <1>1, <2>1, FS_AddElement
  <2> QED
    BY <1>6, <2>2 DEF BeginScan, Scanning
<1>7. ASSUME NEW s \in Scanners, EndScan(s)
      PROVE  CountsTheRunning'
  <2>1. s \in Scanning /\ Scanning' = Scanning \ {s}
    BY <1>7, NextPhases DEF ToNextPhase, Scanning, EndScan, Scanned, InScan, ScansOK, ScanFields
  <2>2. Cardinality(Scanning') = Cardinality(Scanning) - 1
    BY <1>1, <2>1, FS_RemoveElement
  <2> QED
    BY <1>7, <2>2 DEF EndScan, Scanning
<1>8. CASE ScannerTick \/ UNCHANGED scannerVars
  BY <1>8, <1>2 DEF ScannerTick, scannerVars, InScan
<1> QED
  BY <1>3, <1>4, <1>5, <1>6, <1>7, <1>8 DEF ScannerNext, Reads

\* CountsTheRunning: RunningActorCounter is the number of the threads in a scan,
\* through every failure; one that an exception has ended stays counted.
THEOREM RunningIsCounted == ScannerSpec => []CountsTheRunning
<1>1. ScannerInit => CountsTheRunning
  <2> SUFFICES ASSUME ScannerInit PROVE {s \in Scanners : InScan(s)} = {} /\ running = 0
    BY FS_EmptySet DEF CountsTheRunning
  <2> QED
    BY DEF ScannerInit, InScan, Idle
<1> QED
  BY <1>1, ScanStart, ScansAreOK, CountStep, PTL DEF ScannerSpec

\* A scan begins in no phase that only selects a time, the phases that do have
\* selected one, and a scan reads at it.
ReadInv ==
  \A s \in Scanners :
    /\ InScan(s) => scan[s].phase \in DOMAIN schedule /\ ~Config(s).selectClusterTimeOnly
    /\ (\E i \in 1 .. scan[s].phase - 1 : schedule[i].selectClusterTimeOnly)
          => scan[s].clusterTime # NoTime
    /\ InScan(s) /\ scan[s].clusterTime # NoTime => scan[s].readAt = scan[s].clusterTime

LEMMA ReadStart == ScannerInit => ReadInv
  BY DEF ScannerInit, ReadInv, InScan, Idle

\* The scans of the others are as they were.
LEMMA OthersRead ==
  ASSUME ReadInv, UNCHANGED schedule, NEW u \in Scanners, scan'[u] = scan[u]
  PROVE  /\ InScan(u)' => scan'[u].phase \in DOMAIN schedule' /\ ~Config(u)'.selectClusterTimeOnly
         /\ (\E i \in 1 .. scan'[u].phase - 1 : schedule'[i].selectClusterTimeOnly)
               => scan'[u].clusterTime # NoTime
         /\ InScan(u)' /\ scan'[u].clusterTime # NoTime => scan'[u].readAt = scan'[u].clusterTime
  BY DEF ReadInv, InScan, Config

LEMMA ReadsKeepReading ==
  ASSUME ScansOK, ReadInv, NEW s \in Scanners, Reads(s)
  PROVE  ReadInv'
<1>1. GoesOn(s)
  BY ReadsGoOn
<1>2. /\ InScan(s)' => scan'[s].phase \in DOMAIN schedule' /\ ~Config(s)'.selectClusterTimeOnly
      /\ (\E i \in 1 .. scan'[s].phase - 1 : schedule'[i].selectClusterTimeOnly)
            => scan'[s].clusterTime # NoTime
      /\ InScan(s)' /\ scan'[s].clusterTime # NoTime => scan'[s].readAt = scan'[s].clusterTime
  BY <1>1 DEF GoesOn, ReadInv, InScan, Config
<1> QED
  BY <1>1, <1>2, OthersRead DEF GoesOn, ReadInv

LEMMA ChangesKeepReading ==
  ASSUME ScansOK, ReadInv, NEW s \in Scanners, Changes(s)
  PROVE  ReadInv'
<1>0. DOMAIN scan = Scanners /\ DOMAIN scan[s] = ScanFields
  BY DEF ScansOK
<1>1. CASE SelectClusterTime(s)
  <2>1. ToNextPhase(s) /\ scan'[s].clusterTime = time /\ UNCHANGED schedule
    BY <1>1, NextPhases DEF SelectClusterTime
  <2>2. time # NoTime
    BY Clock DEF ScansOK
  <2> QED
    BY <2>1, <2>2, OthersRead DEF ToNextPhase, ReadInv, InScan
<1>2. CASE EndScan(s)
  <2>1. ToNextPhase(s) /\ scan'[s].clusterTime = scan[s].clusterTime /\ UNCHANGED schedule
    BY <1>2, NextPhases DEF EndScan
  <2>2. ~Config(s).selectClusterTimeOnly
    BY <1>2 DEF EndScan, Scanned, ReadInv, InScan
  <2>3. ASSUME NEW i \in 1 .. scan'[s].phase - 1, schedule'[i].selectClusterTimeOnly
        PROVE  scan'[s].clusterTime # NoTime
    BY <2>1, <2>2, <2>3 DEF ToNextPhase, ReadInv, Config, ScansOK
  <2> QED
    BY <2>1, <2>3, OthersRead DEF ToNextPhase, ReadInv, InScan
<1>3. CASE SelectClusterTimeThrows(s)
  <2>1. /\ UNCHANGED schedule
        /\ scan'[s].at = "failed"
        /\ scan'[s].phase = scan[s].phase /\ scan'[s].clusterTime = scan[s].clusterTime
        /\ \A u \in Scanners \ {s} : scan'[u] = scan[u]
    BY <1>0, <1>3 DEF SelectClusterTimeThrows, ScanFields
  <2> QED
    BY <2>1, OthersRead DEF ReadInv, InScan
<1>4. CASE BeginScan(s)
  <2>1. /\ UNCHANGED schedule
        /\ scan'[s].at = "scan"
        /\ scan'[s].phase = scan[s].phase /\ scan'[s].clusterTime = scan[s].clusterTime
        /\ scan'[s].readAt = ReadTime(s)
        /\ \A u \in Scanners \ {s} : scan'[u] = scan[u]
    BY <1>0, <1>4 DEF BeginScan, ScanFields
  <2>2. scan[s].phase \in DOMAIN schedule /\ ~Config(s).selectClusterTimeOnly
    BY <1>4 DEF BeginScan
  <2> QED
    BY <2>1, <2>2, OthersRead DEF ReadInv, InScan, ReadTime, Config
<1>5. CASE CommitScan(s) \/ ScannerDies(s)
  <2>1. UNCHANGED schedule /\ InScan(s)
    BY <1>5 DEF CommitScan, ScannerDies, Scanned, InScan
  <2>2. /\ scan'[s].at \in {"end", "dead"}
        /\ scan'[s].phase = scan[s].phase /\ scan'[s].clusterTime = scan[s].clusterTime
        /\ scan'[s].readAt = scan[s].readAt
        /\ \A u \in Scanners \ {s} : scan'[u] = scan[u]
    BY <1>0, <1>5 DEF CommitScan, ScannerDies, ScanFields
  <2> QED
    BY <2>1, <2>2, OthersRead DEF ReadInv, InScan, Config
<1> QED
  BY <1>1, <1>2, <1>3, <1>4, <1>5 DEF Changes

\* ReadsAtSelectedTime: a scan at a point in time reads at the time an earlier
\* phase selected, whatever the phases between and whatever they throw.
THEOREM SelectedTimeIsRead == ScannerSpec => []ReadsAtSelectedTime
<1>1. ScansOK /\ ReadInv /\ [ScannerNext]_scannerVars => ReadInv'
  <2> SUFFICES ASSUME ScansOK, ReadInv, [ScannerNext]_scannerVars PROVE ReadInv'
    OBVIOUS
  <2>1. CASE \E s \in Scanners : Reads(s)
    BY <2>1, ReadsKeepReading
  <2>2. CASE \E s \in Scanners : Changes(s)
    BY <2>2, ChangesKeepReading
  <2>3. CASE ScannerTick \/ UNCHANGED scannerVars
    BY <2>3 DEF ScannerTick, scannerVars, ReadInv, InScan, Config
  <2> QED
    BY <2>1, <2>2, <2>3 DEF ScannerNext, Reads, Changes
<1>2. ReadInv => ReadsAtSelectedTime
  BY DEF ReadInv, ReadsAtSelectedTime
<1> QED
  BY <1>1, <1>2, ScanStart, ScansAreOK, ReadStart, PTL DEF ScannerSpec

-----------------------------------------------------------------------------
(* Sequences, and sequences joined.                                        *)

\* What holds at 0, and one further whenever it holds, holds up to n.
LEMMA Upwards ==
  ASSUME NEW n \in Nat, NEW S, 0 \in S, \A i \in 1..n : i - 1 \in S => i \in S
  PROVE  0..n \subseteq S
<1>1. PICK T : T = {i \in 0..n : i \notin S}
  OBVIOUS
<1>2. CASE T # {}
  <2>0. T \subseteq Nat
    BY <1>1
  <2>1. PICK m \in T : \A k \in T : m <= k
    BY <1>2, <2>0, LeastNumber
  <2>2. m \in 0..n /\ m \notin S /\ m # 0
    BY <1>1, <2>1
  <2>3. m \in 1..n /\ m - 1 \in 0..n
    BY <2>2
  <2>4. m - 1 \notin S
    BY <2>2, <2>3
  <2>5. m - 1 \in T
    BY <1>1, <2>3, <2>4
  <2>6. m <= m - 1
    BY <2>1, <2>5
  <2> QED
    BY <2>2, <2>6
<1> QED
  BY <1>1, <1>2

\* A sequence, of whatever it has.
IsSeq(w) == w \in Seq(Range(w))

LEMMA SeqFacts ==
  ASSUME NEW w, IsSeq(w)
  PROVE  /\ Len(w) \in Nat /\ DOMAIN w = 1..Len(w)
         /\ \A i \in 1..Len(w) : w[i] \in Range(w)
         /\ \A x \in Range(w) : \E i \in 1..Len(w) : x = w[i]
         /\ Len(w) = 0 <=> w = <<>>
         /\ w = <<>> <=> Range(w) = {}
<1>1. PICK T : T = Range(w)
  OBVIOUS
<1>2. w \in Seq(T)
  BY <1>1 DEF IsSeq
<1>3. Len(w) \in Nat /\ DOMAIN w = 1..Len(w) /\ (Len(w) = 0 <=> w = <<>>)
  BY <1>2
<1>4. \A x : x \in Range(w) <=> \E i \in 1..Len(w) : x = w[i]
  BY <1>3 DEF Range
<1>5. w = <<>> <=> Range(w) = {}
  <2>1. Len(w) # 0 => w[1] \in Range(w)
    BY <1>3, <1>4
  <2>2. Len(w) = 0 => Range(w) = {}
    BY <1>3, <1>4
  <2> QED
    BY <1>3, <2>1, <2>2
<1> QED
  BY <1>3, <1>4, <1>5

LEMMA SeqFrom ==
  ASSUME NEW w, NEW n \in Nat, NEW T, w \in [1..n -> T]
  PROVE  IsSeq(w) /\ Len(w) = n
<1>1. DOMAIN w = 1..n
  OBVIOUS
<1>2. \A i \in 1..n : w[i] \in Range(w)
  BY <1>1, Zenon DEF Range
<1>3. w \in [1..n -> Range(w)]
  BY <1>2, Zenon
<1>4. w \in Seq(Range(w))
  BY <1>3
<1>5. Len(w) = n
  BY <1>3
<1> QED
  BY <1>4, <1>5, Zenon DEF IsSeq

LEMMA SeqJoined ==
  ASSUME NEW x, NEW y, IsSeq(x), IsSeq(y)
  PROVE  /\ IsSeq(x \o y)
         /\ Len(x \o y) = Len(x) + Len(y)
         /\ Range(x \o y) = Range(x) \cup Range(y)
         /\ \A i \in 1..Len(x) : (x \o y)[i] = x[i]
         /\ \A i \in 1..Len(y) : (x \o y)[Len(x) + i] = y[i]
<1>1. PICK T : T = Range(x) \cup Range(y)
  OBVIOUS
<1>2. x \in Seq(T) /\ y \in Seq(T) /\ x \o y \in Seq(T)
  BY <1>1 DEF IsSeq
<1>3. /\ Len(x \o y) = Len(x) + Len(y)
      /\ \A i \in 1..Len(x) : (x \o y)[i] = x[i]
      /\ \A i \in 1..Len(y) : (x \o y)[Len(x) + i] = y[i]
  BY <1>2
<1>4. DOMAIN (x \o y) = 1..(Len(x) + Len(y)) /\ Len(x) \in Nat /\ Len(y) \in Nat
  BY <1>2, <1>3
<1>5. Range(x \o y) \subseteq T
  BY <1>2 DEF Range
<1>6. \A i \in 1..Len(x) : x[i] \in Range(x \o y)
  <2> SUFFICES ASSUME NEW i \in 1..Len(x) PROVE x[i] \in Range(x \o y)
    OBVIOUS
  <2>1. i \in DOMAIN (x \o y) /\ (x \o y)[i] = x[i]
    BY <1>3, <1>4
  <2> QED
    BY <2>1 DEF Range
<1>7. \A i \in 1..Len(y) : y[i] \in Range(x \o y)
  <2> SUFFICES ASSUME NEW i \in 1..Len(y) PROVE y[i] \in Range(x \o y)
    OBVIOUS
  <2>1. Len(x) + i \in DOMAIN (x \o y) /\ (x \o y)[Len(x) + i] = y[i]
    BY <1>3, <1>4
  <2> QED
    BY <2>1 DEF Range
<1>8. T \subseteq Range(x \o y)
  BY <1>1, <1>6, <1>7, SeqFacts
<1> QED
  BY <1>1, <1>2, <1>3, <1>5, <1>8 DEF IsSeq

\* The definition of FlattenSeq, as an equation on 1..n.
Joins(g, seqs, n) ==
  g = [i \in 1..n |-> IF i = 1 THEN seqs[i] ELSE g[i - 1] \o seqs[i]]

LEMMA JoinsSolved ==
  ASSUME NEW seqs, NEW n \in Nat
  PROVE  \E g : Joins(g, seqs, n)
<1>1. PICK S : S = {m \in Nat : \E g : Joins(g, seqs, m)}
  OBVIOUS
<1>2. 0 \in S
  <2>1. Joins([i \in 1..0 |-> seqs], seqs, 0)
    BY DEF Joins
  <2> QED
    BY <1>1, <2>1
<1>3. ASSUME NEW m \in 1..n, m - 1 \in S
      PROVE  m \in S
  <2>1. PICK g : Joins(g, seqs, m - 1)
    BY <1>1, <1>3
  <2>2. PICK h : h = [i \in 1..m |-> IF i = m THEN (IF m = 1 THEN seqs[m] ELSE g[m - 1] \o seqs[m]) ELSE g[i]]
    OBVIOUS
  <2>3. \A i \in 1..(m - 1) : h[i] = g[i]
    BY <2>2
  <2>4. ASSUME NEW i \in 1..m
        PROVE  h[i] = IF i = 1 THEN seqs[i] ELSE h[i - 1] \o seqs[i]
    <3>1. CASE i = m
      <4>1. h[m] = (IF m = 1 THEN seqs[m] ELSE g[m - 1] \o seqs[m])
        BY <2>2
      <4>2. m # 1 => h[m - 1] = g[m - 1]
        BY <2>3
      <4> QED
        BY <3>1, <4>1, <4>2
    <3>2. CASE i # m
      <4>1. i \in 1..(m - 1) /\ (i # 1 => i - 1 \in 1..(m - 1))
        BY <3>2
      <4>2. g[i] = IF i = 1 THEN seqs[i] ELSE g[i - 1] \o seqs[i]
        BY <2>1, <4>1 DEF Joins
      <4> QED
        BY <2>3, <4>1, <4>2
    <3> QED
      BY <3>1, <3>2
  <2>5. Joins(h, seqs, m)
    BY <2>2, <2>4 DEF Joins
  <2> QED
    BY <1>1, <2>5
<1>4. 0..n \subseteq S
  BY <1>2, <1>3, Upwards
<1> QED
  BY <1>1, <1>4

\* FlattenSeq is the last of the joined ones.
LEMMA FlattenIs ==
  ASSUME NEW seqs, Len(seqs) \in Nat \ {0}
  PROVE  \E g : /\ \A i \in 1..Len(seqs) : g[i] = IF i = 1 THEN seqs[i] ELSE g[i - 1] \o seqs[i]
                /\ FlattenSeq(seqs) = g[Len(seqs)]
<1> DEFINE G == CHOOSE g : Joins(g, seqs, Len(seqs))
<1>1. Joins(G, seqs, Len(seqs))
  BY JoinsSolved
<1>2. FlattenSeq(seqs) = G[Len(seqs)]
  BY DEF FlattenSeq, Joins
<1>3. PICK g : g = G
  OBVIOUS
<1> QED
  BY <1>1, <1>2, <1>3 DEF Joins

\* Sequences of sequences.
AllSeqs(seqs) == IsSeq(seqs) /\ \A i \in 1..Len(seqs) : IsSeq(seqs[i])

\* What is joined is a sequence, of what the parts have.
LEMMA FlattenHas ==
  ASSUME NEW seqs, AllSeqs(seqs)
  PROVE  /\ IsSeq(FlattenSeq(seqs))
         /\ \A x : x \in Range(FlattenSeq(seqs)) <=> \E i \in 1..Len(seqs) : x \in Range(seqs[i])
<1>1. PICK n \in Nat : n = Len(seqs)
  BY SeqFacts DEF AllSeqs
<1>2. CASE n = 0
  <2>1. FlattenSeq(seqs) = seqs /\ seqs = <<>>
    BY <1>1, <1>2, SeqFacts DEF FlattenSeq, AllSeqs
  <2>2. IsSeq(seqs) /\ Range(seqs) = {}
    BY <2>1, SeqFacts DEF AllSeqs
  <2> QED
    BY <1>1, <1>2, <2>1, <2>2
<1>3. CASE n # 0
  <2>1. PICK g : /\ \A i \in 1..n : g[i] = IF i = 1 THEN seqs[i] ELSE g[i - 1] \o seqs[i]
                 /\ FlattenSeq(seqs) = g[n]
    BY <1>1, <1>3, FlattenIs
  <2>2. PICK S : S = {i \in 0..n : i # 0 =>
                        /\ IsSeq(g[i])
                        /\ \A x : x \in Range(g[i]) <=> \E j \in 1..i : x \in Range(seqs[j])}
    OBVIOUS
  <2>3. ASSUME NEW i \in 1..n, i - 1 \in S
        PROVE  i \in S
    <3>1. IsSeq(seqs[i])
      BY <1>1 DEF AllSeqs
    <3>2. CASE i = 1
      <4>1. g[i] = seqs[i] /\ \A j \in 1..i : j = i
        BY <2>1, <3>2
      <4> QED
        BY <2>2, <3>1, <4>1
    <3>3. CASE i # 1
      <4>1. g[i] = g[i - 1] \o seqs[i]
        BY <2>1, <3>3, Zenon
      <4>0. i - 1 # 0 /\ i - 1 \in 0..n
        BY <3>3
      <4>2. IsSeq(g[i - 1]) /\ \A x : x \in Range(g[i - 1]) <=> \E j \in 1..(i - 1) : x \in Range(seqs[j])
        BY <2>2, <2>3, <4>0, Zenon
      <4>3. IsSeq(g[i]) /\ Range(g[i]) = Range(g[i - 1]) \cup Range(seqs[i])
        BY <3>1, <4>1, <4>2, SeqJoined
      <4>4. 1..i = (1..(i - 1)) \cup {i}
        OBVIOUS
      <4>5. \A x : x \in Range(g[i]) <=> \E j \in 1..i : x \in Range(seqs[j])
        BY <4>2, <4>3, <4>4
      <4> QED
        BY <2>2, <4>3, <4>5
    <3> QED
      BY <3>2, <3>3
  <2>4. 0 \in S
    BY <2>2
  <2>6. 0..n \subseteq S
    BY <2>3, <2>4, Upwards
  <2>5. n \in S
    BY <2>6
  <2> QED
    BY <1>1, <1>3, <2>1, <2>2, <2>5
<1> QED
  BY <1>2, <1>3

\* It ends as the last part.
LEMMA FlattenEnds ==
  ASSUME NEW seqs, AllSeqs(seqs), seqs # <<>>
  PROVE  \/ FlattenSeq(seqs) = seqs[Len(seqs)]
         \/ \E x : IsSeq(x) /\ FlattenSeq(seqs) = x \o seqs[Len(seqs)]
<1>1. PICK n \in Nat : n = Len(seqs) /\ n # 0
  BY SeqFacts DEF AllSeqs
<1>2. PICK front : front = [i \in 1..(n - 1) |-> seqs[i]]
  OBVIOUS
<1>3. PICK g : /\ \A i \in 1..n : g[i] = IF i = 1 THEN seqs[i] ELSE g[i - 1] \o seqs[i]
               /\ FlattenSeq(seqs) = g[n]
  BY <1>1, FlattenIs
<1>4. PICK S : S = {i \in 0..n : i # 0 => IsSeq(g[i])}
  OBVIOUS
<1>5. ASSUME NEW i \in 1..n, i - 1 \in S
      PROVE  i \in S
  BY <1>1, <1>3, <1>4, <1>5, SeqJoined DEF AllSeqs
<1>6. 0 \in S
  BY <1>4
<1>7. 0..n \subseteq S
  BY <1>5, <1>6, Upwards
<1>8. n # 1 => IsSeq(g[n - 1]) /\ g[n] = g[n - 1] \o seqs[n]
  <2>1. n # 1 => n - 1 # 0 /\ n - 1 \in S
    BY <1>1, <1>7
  <2>2. n # 1 => IsSeq(g[n - 1])
    BY <1>4, <2>1, Zenon
  <2>3. n \in 1..n
    BY <1>1
  <2>4. n # 1 => g[n] = g[n - 1] \o seqs[n]
    BY <1>3, <2>3, Zenon
  <2> QED
    BY <2>2, <2>4
<1>9. n = 1 => g[n] = seqs[n]
  BY <1>1, <1>3
<1> QED
  BY <1>1, <1>3, <1>8, <1>9

\* Of parts of one element or none it has the last element of all.
LEMMA FlattenLast ==
  ASSUME NEW seqs, AllSeqs(seqs), NEW m \in 1..Len(seqs), NEW x, seqs[m] = <<x>>,
         \A i \in (m + 1)..Len(seqs) : seqs[i] = <<>>
  PROVE  FlattenSeq(seqs) # <<>> /\ FlattenSeq(seqs)[Len(FlattenSeq(seqs))] = x
<1>1. PICK n \in Nat : n = Len(seqs) /\ n # 0
  BY SeqFacts DEF AllSeqs
<1>2. PICK g : /\ \A i \in 1..n : g[i] = IF i = 1 THEN seqs[i] ELSE g[i - 1] \o seqs[i]
               /\ FlattenSeq(seqs) = g[n]
  BY <1>1, FlattenIs
<1>3. PICK S : S = {i \in 0..n : /\ i # 0 => IsSeq(g[i])
                                 /\ i >= m => g[i] # <<>> /\ g[i][Len(g[i])] = x}
  OBVIOUS
<1>4. IsSeq(<<x>>) /\ Len(<<x>>) = 1 /\ <<x>>[1] = x
  BY DEF IsSeq, Range
<1>5. ASSUME NEW i \in 1..n, i - 1 \in S
      PROVE  i \in S
  <2>0. IsSeq(seqs[i]) /\ m \in 1..n
    BY <1>1 DEF AllSeqs
  <2>1. IsSeq(g[i])
    BY <1>1, <1>2, <1>3, <1>5, SeqJoined DEF AllSeqs
  <2>2. CASE i < m
    <3>1. ~(i >= m) /\ i \in 0..n
      BY <2>0, <2>2
    <3> QED
      BY <1>3, <2>1, <3>1, Zenon
  <2>3. CASE i = m /\ i = 1
    <3>1. g[i] = <<x>> /\ i \in 0..n
      BY <1>2, <2>3
    <3>2. g[i] # <<>> /\ g[i][Len(g[i])] = x
      BY <1>4, <3>1
    <3> QED
      BY <1>3, <2>1, <3>1, <3>2, Zenon
  <2>4. CASE i = m /\ i # 1
    <3>0. i - 1 # 0
      BY <2>4
    <3>1. IsSeq(g[i - 1]) /\ g[i] = g[i - 1] \o <<x>>
      BY <1>2, <1>3, <1>5, <2>4, <3>0, Zenon
    <3>2. Len(g[i]) = Len(g[i - 1]) + 1 /\ g[i][Len(g[i - 1]) + 1] = x
      BY <1>4, <3>1, SeqJoined
    <3>3. Len(g[i - 1]) \in Nat
      BY <3>1, SeqFacts
    <3>4. g[i] # <<>>
      BY <3>2, <3>3
    <3> QED
      BY <1>3, <2>1, <3>2, <3>4
  <2>5. CASE i > m
    <3>1. i - 1 # 0 /\ i - 1 >= m /\ i # 1 /\ i \in (m + 1)..n
      BY <2>0, <2>5
    <3>2. IsSeq(g[i - 1]) /\ g[i] = g[i - 1] \o <<>> /\ g[i - 1] # <<>> /\ g[i - 1][Len(g[i - 1])] = x
      BY <1>1, <1>2, <1>3, <1>5, <3>1
    <3>3. g[i] = g[i - 1]
      BY <3>2 DEF IsSeq
    <3> QED
      BY <1>3, <2>1, <3>2, <3>3
  <2> QED
    BY <2>0, <2>2, <2>3, <2>4, <2>5
<1>6. 0 \in S
  BY <1>1, <1>3
<1>8. 0..n \subseteq S
  BY <1>5, <1>6, Upwards
<1>7. n \in S /\ n >= m
  BY <1>1, <1>8
<1> QED
  BY <1>1, <1>2, <1>3, <1>7

-----------------------------------------------------------------------------
(* The scanners: what they read.                                           *)

\* Sequences of a set, and two that are the same.
LEMMA SeqIn ==
  ASSUME NEW T, NEW v \in Seq(T)
  PROVE  IsSeq(v) /\ Len(v) \in Nat /\ v \in [1..Len(v) -> T] /\ (Len(v) = 0 <=> v = <<>>)
<1>1. Len(v) \in Nat /\ v \in [1..Len(v) -> T] /\ (Len(v) = 0 <=> v = <<>>)
  OBVIOUS
<1> QED
  BY <1>1, SeqFrom

LEMMA SameSeq ==
  ASSUME NEW T, NEW x \in Seq(T), NEW y \in Seq(T), Len(x) = Len(y),
         \A i \in 1..Len(x) : x[i] = y[i]
  PROVE  x = y
<1>1. PICK n \in Nat : n = Len(x)
  OBVIOUS
<1>2. x \in [1..n -> T] /\ y \in [1..n -> T]
  BY <1>1, SeqIn
<1>3. \A i \in 1..n : x[i] = y[i]
  BY <1>1
<1> QED
  BY <1>2, <1>3

\* One more element.
LEMMA Appended ==
  ASSUME NEW w, IsSeq(w), NEW x
  PROVE  /\ IsSeq(Append(w, x))
         /\ Len(Append(w, x)) = Len(w) + 1
         /\ Len(w) \in Nat
         /\ \A i \in 1..Len(w) : Append(w, x)[i] = w[i]
         /\ Append(w, x)[Len(w) + 1] = x
<1>1. PICK T : T = Range(w) \cup {x}
  OBVIOUS
<1>2. w \in Seq(T) /\ x \in T
  BY <1>1 DEF IsSeq
<1>3. PICK v : v = Append(w, x)
  OBVIOUS
<1>4. /\ v \in Seq(T)
      /\ Len(v) = Len(w) + 1
      /\ Len(w) \in Nat
      /\ \A i \in 1..Len(w) : v[i] = w[i]
      /\ v[Len(w) + 1] = x
  BY <1>2, <1>3
<1>5. v \in [1..Len(v) -> T]
  BY <1>4
<1>6. IsSeq(v)
  BY <1>4, <1>5, SeqFrom
<1> QED
  BY <1>3, <1>4, <1>6

LEMMA SubSeqIs ==
  ASSUME NEW T, NEW w \in Seq(T), NEW p \in 1..(Len(w) + 1), NEW v, v = SubSeq(w, p, Len(w))
  PROVE  v \in Seq(T) /\ Len(v) = Len(w) - p + 1 /\ \A i \in 1..Len(v) : v[i] = w[p + i - 1]
  OBVIOUS

\* What is left of a sequence from one place on.
IsRest(w, p, v) ==
  /\ IsSeq(v) /\ Len(v) = Len(w) - p + 1
  /\ \A i \in 1..Len(v) : v[i] = w[p + i - 1]
  /\ v = <<>> <=> p = Len(w) + 1
  /\ v # <<>> => Head(v) = w[p] /\ Tail(v) = SubSeq(w, p + 1, Len(w))
  /\ \A q \in 1..(Len(v) + 1) : SubSeq(v, q, Len(v)) = SubSeq(w, p + q - 1, Len(w))

LEMMA Rest ==
  ASSUME NEW w, IsSeq(w), NEW p \in 1..(Len(w) + 1), NEW v, v = SubSeq(w, p, Len(w))
  PROVE  IsRest(w, p, v)
<1>1. PICK T : T = Range(w)
  OBVIOUS
<1>2. w \in Seq(T) /\ Len(w) \in Nat
  BY <1>1, SeqFacts DEF IsSeq
<1>3. v \in Seq(T) /\ Len(v) = Len(w) - p + 1 /\ \A i \in 1..Len(v) : v[i] = w[p + i - 1]
  BY <1>2, SubSeqIs
<1>4. Len(v) \in Nat /\ (Len(v) = 0 <=> v = <<>>)
  BY <1>3, SeqIn
<1>5. IsSeq(v)
  BY <1>3, SeqIn
<1>6. v = <<>> <=> p = Len(w) + 1
  BY <1>2, <1>3, <1>4
<1>7. ASSUME NEW q \in 1..(Len(v) + 1)
      PROVE  SubSeq(v, q, Len(v)) = SubSeq(w, p + q - 1, Len(w))
  <2>1. PICK x : x = SubSeq(v, q, Len(v))
    OBVIOUS
  <2>2. PICK y : y = SubSeq(w, p + q - 1, Len(w))
    OBVIOUS
  <2>3. p + q - 1 \in 1..(Len(w) + 1)
    BY <1>2, <1>3
  <2>4. x \in Seq(T) /\ Len(x) = Len(v) - q + 1 /\ \A i \in 1..Len(x) : x[i] = v[q + i - 1]
    BY <1>3, <1>4, <2>1, SubSeqIs
  <2>0. PICK m \in Nat : m = p + q - 1
    BY <2>3
  <2>5. y \in Seq(T) /\ Len(y) = Len(w) - m + 1 /\ \A i \in 1..Len(y) : y[i] = w[m + i - 1]
    <3>1. m \in 1..(Len(w) + 1) /\ y = SubSeq(w, m, Len(w))
      BY <2>0, <2>2, <2>3
    <3> QED
      BY <1>2, <3>1, SubSeqIs
  <2>6. Len(x) = Len(y)
    BY <1>2, <1>3, <2>0, <2>4, <2>5
  <2>7. ASSUME NEW i \in 1..Len(x)
        PROVE  x[i] = y[i]
    <3>1. x[i] = v[q + i - 1] /\ q + i - 1 \in 1..Len(v)
      BY <1>4, <2>4
    <3>2. v[q + i - 1] = w[p + (q + i - 1) - 1]
      BY <1>3, <3>1
    <3>3. p + (q + i - 1) - 1 = m + i - 1
      BY <2>0
    <3>4. y[i] = w[m + i - 1]
      BY <2>5, <2>6
    <3> QED
      BY <3>1, <3>2, <3>3, <3>4
  <2>8. x = y
    BY <2>4, <2>5, <2>6, <2>7, SameSeq
  <2> QED
    BY <2>1, <2>2, <2>8
<1>8. v # <<>> => Head(v) = w[p] /\ Tail(v) = SubSeq(w, p + 1, Len(w))
  <2> SUFFICES ASSUME v # <<>> PROVE Head(v) = w[p] /\ Tail(v) = SubSeq(w, p + 1, Len(w))
    OBVIOUS
  <2>1. Len(v) # 0 /\ 1 \in 1..Len(v) /\ 2 \in 1..(Len(v) + 1)
    BY <1>3, <1>4, <1>5, SeqFacts
  <2>2. Head(v) = v[1] /\ v[1] = w[p + 1 - 1] /\ p + 1 - 1 = p
    BY <1>3, <2>1
  <2>3. Tail(v) = SubSeq(v, 2, Len(v))
    BY <1>3, <2>1
  <2>4. SubSeq(v, 2, Len(v)) = SubSeq(w, p + 2 - 1, Len(w)) /\ p + 2 - 1 = p + 1
    BY <1>7, <2>1
  <2> QED
    BY <2>2, <2>3, <2>4
<1> QED
  BY <1>3, <1>5, <1>6, <1>7, <1>8 DEF IsRest

\* A collection that the scan has passed by is one of a database it has left
\* after an earlier one.
Missed(all, i, tried, place, skipped) ==
  /\ all[i][1] \in skipped
  /\ \E k \in 1..Len(tried) : place[k] < i /\ all[place[k]][1] = all[i][1]

\* The collections up to r have been tried, in their order, or passed by.
Trail(all, r, tried, place, skipped) ==
  /\ r \in 0..Len(all)
  /\ IsSeq(tried)
  /\ place \in [1..Len(tried) -> 1..r]
  /\ \A k \in 1..Len(tried) : tried[k] = all[place[k]]
  /\ \A j, k \in 1..Len(tried) : j < k => place[j] < place[k]
  /\ \A i \in 1..r :
        (\A k \in 1..Len(tried) : place[k] # i) => Missed(all, i, tried, place, skipped)

LEMMA TrailStarts ==
  ASSUME NEW all, IsSeq(all), NEW skipped
  PROVE  \E place \in [1..0 -> 1..0] : Trail(all, 0, <<>>, place, skipped)
<1>1. PICK place : place = [i \in 1..0 |-> i]
  OBVIOUS
<1>2. IsSeq(<<>>) /\ Len(<<>>) = 0
  BY DEF IsSeq
<1>3. 0 \in 0..Len(all)
  BY SeqFacts
<1>4. place \in [1..0 -> 1..0]
  BY <1>1
<1>5. Trail(all, 0, <<>>, place, skipped)
  BY <1>2, <1>3, <1>4 DEF Trail
<1> QED
  BY <1>4, <1>5

LEMMA TrailGrows ==
  ASSUME NEW all, IsSeq(all), NEW r, NEW tried, NEW place, NEW skipped, NEW left,
         Trail(all, r, tried, place, skipped), skipped \subseteq left,
         NEW q \in (r + 1)..Len(all),
         \A i \in (r + 2)..q : all[i][1] = all[r + 1][1] /\ all[i][1] \in left
  PROVE  \E longer \in [1..(Len(tried) + 1) -> 1..q] :
            Trail(all, q, Append(tried, all[r + 1]), longer, left)
<1>1. PICK n : n = Len(tried)
  OBVIOUS
<1>2. PICK more : more = Append(tried, all[r + 1])
  OBVIOUS
<1>3. /\ IsSeq(more) /\ Len(more) = n + 1 /\ n \in Nat
      /\ \A i \in 1..n : more[i] = tried[i]
      /\ more[n + 1] = all[r + 1]
  BY <1>1, <1>2, Appended DEF Trail
<1>4. PICK longer : longer = [k \in 1..(n + 1) |-> IF k = n + 1 THEN r + 1 ELSE place[k]]
  OBVIOUS
<1>5. /\ r \in Nat /\ Len(all) \in Nat /\ q \in r + 1 .. Len(all) /\ q \in Nat
      /\ place \in [1..n -> 1..r]
  BY <1>1, SeqFacts DEF Trail
<1>6. longer[n + 1] = r + 1 /\ \A k \in 1..n : longer[k] = place[k] /\ place[k] \in 1..r
  BY <1>3, <1>4, <1>5
<1>7. longer \in [1..(n + 1) -> 1..q]
  BY <1>3, <1>4, <1>5
<1>8. ASSUME NEW k \in 1..(n + 1)
      PROVE  more[k] = all[longer[k]]
  <2>1. CASE k = n + 1
    BY <1>3, <1>6, <2>1
  <2>2. CASE k # n + 1
    <3>1. k \in 1..n
      BY <1>3, <2>2
    <3>2. tried[k] = all[place[k]]
      BY <1>1, <3>1 DEF Trail
    <3> QED
      BY <1>3, <1>6, <3>1, <3>2
  <2> QED
    BY <2>1, <2>2
<1>9. ASSUME NEW j \in 1..(n + 1), NEW k \in 1..(n + 1), j < k
      PROVE  longer[j] < longer[k]
  <2>1. j \in 1..n /\ longer[j] = place[j] /\ place[j] \in 1..r
    BY <1>3, <1>6, <1>9
  <2>2. CASE k = n + 1
    BY <1>5, <1>6, <2>1, <2>2
  <2>3. CASE k # n + 1
    <3>1. k \in 1..n /\ longer[k] = place[k]
      BY <1>3, <1>6, <2>3
    <3> QED
      BY <1>1, <1>9, <2>1, <3>1 DEF Trail
  <2> QED
    BY <2>2, <2>3
<1>10. ASSUME NEW i \in 1..q, \A k \in 1..(n + 1) : longer[k] # i
       PROVE  Missed(all, i, more, longer, left)
  <2>1. i # r + 1
    BY <1>3, <1>6, <1>10
  <2>2. CASE i <= r
    <3>1. \A k \in 1..n : place[k] # i
      BY <1>3, <1>6, <1>10
    <3>2. Missed(all, i, tried, place, skipped)
      BY <1>1, <1>5, <2>2, <3>1 DEF Trail
    <3>3. PICK k \in 1..n : place[k] < i /\ all[place[k]][1] = all[i][1]
      BY <1>1, <3>2 DEF Missed
    <3>4. all[i][1] \in left
      BY <3>2 DEF Missed
    <3>5. k \in 1..(n + 1) /\ longer[k] = place[k]
      BY <1>3, <1>6
    <3> QED
      BY <1>3, <3>3, <3>4, <3>5 DEF Missed
  <2>3. CASE i > r
    <3>1. i \in (r + 2)..q
      BY <1>5, <2>1, <2>3
    <3>2. all[i][1] = all[r + 1][1] /\ all[i][1] \in left
      BY <3>1
    <3>3. longer[n + 1] < i /\ n + 1 \in 1..(n + 1)
      BY <1>3, <1>5, <1>6, <3>1
    <3> QED
      BY <1>3, <1>6, <3>2, <3>3 DEF Missed
  <2> QED
    BY <1>5, <2>2, <2>3
<1>11. Trail(all, q, more, longer, left)
  BY <1>3, <1>5, <1>7, <1>8, <1>9, <1>10 DEF Trail
<1> QED
  BY <1>1, <1>2, <1>7, <1>11

\* What names are put in order to is a sequence as long.
LEMMA OrderKeeps ==
  ASSUME NEW names, IsSeq(names), NEW sortOrder
  PROVE  IsSeq(InOrder(names, sortOrder)) /\ Len(InOrder(names, sortOrder)) = Len(names)
<1>1. PICK n \in Nat : n = Len(names) /\ DOMAIN names = 1..n
  BY SeqFacts
<1>2. PICK up : up = Ascending(names)
  OBVIOUS
<1>3. DOMAIN up = 1..n
  BY <1>1, <1>2 DEF Ascending
<1>4. \A i \in 1..n : up[i] \in Range(up)
  BY <1>3, Zenon DEF Range
<1>5. up \in [1..n -> Range(up)]
  BY <1>1, <1>2, <1>4, Zenon DEF Ascending
<1>6. IsSeq(up) /\ Len(up) = n
  BY <1>5, SeqFrom
<1>7. PICK down : down = Reverse(up)
  OBVIOUS
<1>8. down = [i \in 1..n |-> up[n - i + 1]]
  BY <1>6, <1>7 DEF Reverse
<1>9. \A i \in 1..n : n - i + 1 \in 1..n
  OBVIOUS
<1>10. down \in [1..n -> Range(up)]
  BY <1>4, <1>8, <1>9
<1>11. IsSeq(down) /\ Len(down) = n
  BY <1>10, SeqFrom
<1> QED
  BY <1>1, <1>2, <1>6, <1>7, <1>11 DEF InOrder

\* A phase with the numbers of one.
IsPhase(config) ==
  /\ config.scanDuration \in Nat /\ config.collectionSkip \in Nat /\ config.collectionCount \in Nat
  /\ config.documents \in Nat /\ config.scanSizeBytes \in Nat

LEMMA ChosenIsSeq ==
  ASSUME NEW config, IsPhase(config), NEW s \in Scanners, NEW db \in DOMAIN Databases
  PROVE  IsSeq(Chosen(config, s, db))
<1>1. PICK n \in Nat : n = Cardinality(Scanners) /\ n # 0
  BY ScannerAssumption
<1>2. IsSeq(NamesOf(config, s, db))
  <2>1. CASE config.generate
    <3>1. PICK count \in Nat : count = config.collectionCount
      BY DEF IsPhase
    <3>2. PICK per \in Int : per = count \div n
      BY <1>1
    <3>3. PICK start : start = (s % count) * per
      OBVIOUS
    <3>4. PICK names : names = [i \in 1..per |-> start + i - 1]
      OBVIOUS
    <3>5. NamesOf(config, s, db) = names
      BY <1>1, <2>1, <3>1, <3>2, <3>3, <3>4 DEF NamesOf, distributeCollectionNames
    <3>6. PICK T : T = Range(names)
      OBVIOUS
    <3>7. PICK m \in Nat : 1..m = 1..per
      <4>1. CASE per >= 0
        BY <4>1
      <4>2. CASE per < 0
        BY <4>2, 1..0 = 1..per
      <4> QED
        BY <4>1, <4>2
    <3>8. names \in [1..m -> Range(names)]
      BY <3>4, <3>7, Zenon DEF Range
    <3>9. IsSeq(names)
      BY <3>8, SeqFrom
    <3> QED
      BY <3>5, <3>9
  <2>2. CASE ~config.generate
    <3>1. Databases[db] \in Seq(Nat)
      BY CollectionsAssumption
    <3> QED
      BY <2>2, <3>1, SeqIn DEF NamesOf
  <2> QED
    BY <2>1, <2>2
<1>3. PICK names : names = NamesOf(config, s, db)
  OBVIOUS
<1>4. IsSeq(collectionsFromNameList(config, names))
  <2>1. CASE config.collectionSkip >= Len(names) /\ config.collectionSkip # 0
    <3>1. IsSeq(<<>>)
      BY DEF IsSeq
    <3> QED
      BY <2>1, <3>1 DEF collectionsFromNameList
  <2>2. CASE ~(config.collectionSkip >= Len(names) /\ config.collectionSkip # 0)
    <3>1. PICK ordered : ordered = InOrder(names, config.sortOrder)
      OBVIOUS
    <3>2. IsSeq(ordered) /\ Len(ordered) = Len(names) /\ Len(names) \in Nat
      BY <1>2, <1>3, <3>1, OrderKeeps, SeqFacts
    <3>3. PICK p : p = config.collectionSkip + 1
      OBVIOUS
    <3>4. p \in 1..(Len(ordered) + 1)
      BY <2>2, <3>2, <3>3 DEF IsPhase
    <3>5. PICK rest : rest = SubSeq(ordered, p, Len(ordered))
      OBVIOUS
    <3>6. IsSeq(rest)
      BY <3>2, <3>4, <3>5, Rest DEF IsRest
    <3> QED
      BY <2>2, <3>1, <3>2, <3>3, <3>5, <3>6 DEF collectionsFromNameList
  <2> QED
    BY <2>1, <2>2
<1> QED
  BY <1>2, <1>3, <1>4 DEF Chosen

LEMMA CollectionsAreSeq ==
  ASSUME NEW s \in Scanners, IsPhase(Config(s))
  PROVE  IsSeq(CollectionsOf(s))
<1>1. PICK config : config = Config(s)
  OBVIOUS
<1>2. PICK n \in Nat : DOMAIN Databases = 1..n
  BY CollectionsAssumption
<1>3. PICK parts : parts = [db \in DOMAIN Databases |-> WithDatabase(Chosen(config, s, db), db)]
  OBVIOUS
<1>4. DOMAIN parts = 1..n /\ \A i \in 1..n : parts[i] = WithDatabase(Chosen(config, s, i), i)
  BY <1>2, <1>3
<1>5. parts \in [1..n -> Range(parts)]
  BY <1>2, <1>3, Zenon DEF Range
<1>6. IsSeq(parts) /\ Len(parts) = n
  BY <1>5, SeqFrom
<1>7. ASSUME NEW i \in 1..n
      PROVE  IsSeq(parts[i])
  <2>1. PICK names : names = Chosen(config, s, i)
    OBVIOUS
  <2>2. IsSeq(names)
    BY <1>1, <1>2, <2>1, ChosenIsSeq
  <2>3. PICK m \in Nat : DOMAIN names = 1..m
    BY <2>2, SeqFacts
  <2>4. PICK part : part = [j \in 1..m |-> <<i, names[j]>>]
    OBVIOUS
  <2>5. part \in [1..m -> Range(part)]
    BY <2>4, Zenon DEF Range
  <2>6. IsSeq(part)
    BY <2>5, SeqFrom
  <2>7. parts[i] = part
    BY <1>4, <2>1, <2>3, <2>4 DEF WithDatabase
  <2> QED
    BY <2>6, <2>7
<1>8. AllSeqs(parts)
  BY <1>6, <1>7 DEF AllSeqs
<1>9. IsSeq(FlattenSeq(parts))
  BY <1>8, FlattenHas
<1> QED
  BY <1>1, <1>3, <1>9 DEF CollectionsOf

\* What a scan has left of its list, and what it has tried of it; of a
\* collection whose cursor is open it has tried the head.
Follows(all, todo, cursor, tried, skipped) ==
  \E r \in 0..Len(all) : \E place \in [1..Len(tried) -> 1..r] :
    /\ Trail(all, r, tried, place, skipped)
    /\ cursor # 0 => r # 0
    /\ todo = SubSeq(all, IF cursor = 0 THEN r + 1 ELSE r, Len(all))

LEMMA FollowStart ==
  ASSUME NEW all, IsSeq(all), NEW skipped
  PROVE  Follows(all, all, 0, <<>>, skipped)
<1>1. PICK place \in [1..0 -> 1..0] : Trail(all, 0, <<>>, place, skipped)
  BY TrailStarts
<1>2. 1 \in 1..(Len(all) + 1) /\ 0 \in 0..Len(all)
  BY SeqFacts
<1>3. PICK T : T = Range(all)
  OBVIOUS
<1>4. all \in Seq(T)
  BY <1>3 DEF IsSeq
<1>5. PICK v : v = SubSeq(all, 1, Len(all))
  OBVIOUS
<1>6. v \in Seq(T) /\ Len(v) = Len(all) - 1 + 1 /\ \A i \in 1..Len(v) : v[i] = all[1 + i - 1]
  BY <1>2, <1>4, <1>5, SubSeqIs
<1>7. Len(v) = Len(all) /\ \A i \in 1..Len(v) : v[i] = all[i]
  BY <1>2, <1>4, <1>6
<1>8. v = all
  BY <1>4, <1>6, <1>7, SameSeq
<1>9. Len(<<>>) = 0 /\ 0 + 1 = 1
  OBVIOUS
<1>10. all = SubSeq(all, 0 + 1, Len(all)) /\ place \in [1..Len(<<>>) -> 1..0]
  BY <1>5, <1>8, <1>9
<1>11. \E to \in [1..Len(<<>>) -> 1..0] :
          /\ Trail(all, 0, <<>>, to, skipped)
          /\ 0 # 0 => 0 # 0
          /\ all = SubSeq(all, IF 0 = 0 THEN 0 + 1 ELSE 0, Len(all))
  BY <1>1, <1>10
<1> QED
  BY <1>2, <1>11, Zenon DEF Follows

\* A collection is tried, and others of its database are passed by with it.
LEMMA FollowTry ==
  ASSUME NEW all, IsSeq(all), NEW todo, NEW tried, NEW skipped, NEW left,
         Follows(all, todo, 0, tried, skipped), todo # <<>>, skipped \subseteq left,
         NEW n \in 1..Len(todo),
         \A i \in 2..n : todo[i][1] = todo[1][1] /\ todo[i][1] \in left
  PROVE  /\ Follows(all, SubSeq(todo, n + 1, Len(todo)), 0, Append(tried, Head(todo)), left)
         /\ \A cursor : cursor # 0 /\ n = 1 => Follows(all, todo, cursor, Append(tried, Head(todo)), left)
<1>0. PICK r \in 0..Len(all) : \E place \in [1..Len(tried) -> 1..r] :
         Trail(all, r, tried, place, skipped) /\ todo = SubSeq(all, r + 1, Len(all))
  BY DEF Follows
<1>1. PICK place \in [1..Len(tried) -> 1..r] :
         Trail(all, r, tried, place, skipped) /\ todo = SubSeq(all, r + 1, Len(all))
  BY <1>0
<1>2. PICK l \in Nat : l = Len(all)
  BY SeqFacts
<1>3. PICK p : p = r + 1
  OBVIOUS
<1>4. p \in 1..(Len(all) + 1) /\ r \in Nat
  BY <1>2, <1>3
<1>5. /\ IsSeq(todo) /\ Len(todo) = l - p + 1
      /\ \A i \in 1..Len(todo) : todo[i] = all[p + i - 1]
      /\ Head(todo) = all[p]
      /\ \A q \in 1..(Len(todo) + 1) : SubSeq(todo, q, Len(todo)) = SubSeq(all, p + q - 1, Len(all))
  <2>1. todo = SubSeq(all, p, Len(all))
    BY <1>1, <1>3
  <2>2. IsRest(all, p, todo)
    BY <1>4, <2>1, Rest
  <2> QED
    BY <1>2, <2>2 DEF IsRest
<1>6. PICK q \in Nat : q = r + n
  BY <1>4
<1>7. q \in (r + 1)..Len(all)
  BY <1>2, <1>3, <1>4, <1>5, <1>6
<1>8. ASSUME NEW i \in (r + 2)..q
      PROVE  all[i][1] = all[r + 1][1] /\ all[i][1] \in left
  <2>1. PICK j : j = i - r
    OBVIOUS
  <2>2. j \in 2..n /\ j \in 1..Len(todo) /\ p + j - 1 = i /\ 1 \in 1..Len(todo) /\ p + 1 - 1 = r + 1
    BY <1>2, <1>3, <1>4, <1>5, <1>6, <2>1
  <2>3. todo[j] = all[i] /\ todo[1] = all[r + 1]
    BY <1>5, <2>2
  <2> QED
    BY <2>2, <2>3
<1>9. PICK longer \in [1..(Len(tried) + 1) -> 1..q] :
        Trail(all, q, Append(tried, all[r + 1]), longer, left)
  BY <1>1, <1>7, <1>8, TrailGrows
<1>10. Len(Append(tried, Head(todo))) = Len(tried) + 1 /\ Head(todo) = all[r + 1]
  BY <1>1, <1>3, <1>5, Appended DEF Trail
<1>11. q \in 0..Len(all) /\ q # 0 /\ p + (n + 1) - 1 = q + 1 /\ n + 1 \in 1..(Len(todo) + 1)
  <2>1. PICK m \in Int : m = Len(todo)
    BY <1>5, SeqFacts
  <2>2. m = l - p + 1 /\ n <= m
    BY <1>5, <2>1
  <2>3. q \in 0..l /\ q # 0 /\ p + (n + 1) - 1 = q + 1 /\ n + 1 \in 1..(m + 1)
    BY <1>2, <1>3, <1>4, <1>6, <1>7, <2>2
  <2> QED
    BY <1>2, <2>1, <2>3
<1>12. SubSeq(todo, n + 1, Len(todo)) = SubSeq(all, q + 1, Len(all))
  BY <1>5, <1>11
<1>13. Follows(all, SubSeq(todo, n + 1, Len(todo)), 0, Append(tried, Head(todo)), left)
  BY <1>9, <1>10, <1>11, <1>12 DEF Follows
<1>14. ASSUME NEW cursor, cursor # 0, n = 1
       PROVE  Follows(all, todo, cursor, Append(tried, Head(todo)), left)
  <2>1. todo = SubSeq(all, q, Len(all))
    BY <1>1, <1>6, <1>14
  <2> QED
    BY <1>9, <1>10, <1>11, <1>14, <2>1 DEF Follows
<1> QED
  BY <1>13, <1>14

\* A cursor is closed, or read on.
LEMMA FollowClose ==
  ASSUME NEW all, IsSeq(all), NEW todo, NEW tried, NEW skipped, NEW cursor,
         Follows(all, todo, cursor, tried, skipped), cursor # 0
  PROVE  /\ Follows(all, Tail(todo), 0, tried, skipped)
         /\ \A other : other # 0 => Follows(all, todo, other, tried, skipped)
         /\ todo # <<>>
<1>0. PICK r \in 0..Len(all) : \E place \in [1..Len(tried) -> 1..r] :
         Trail(all, r, tried, place, skipped) /\ todo = SubSeq(all, r, Len(all)) /\ r # 0
  BY DEF Follows
<1>1. PICK place \in [1..Len(tried) -> 1..r] :
         Trail(all, r, tried, place, skipped) /\ todo = SubSeq(all, r, Len(all)) /\ r # 0
  BY <1>0
<1>2. Len(all) \in Nat
  BY SeqFacts
<1>3. r \in 1..(Len(all) + 1) /\ r # Len(all) + 1
  BY <1>1, <1>2
<1>4. todo # <<>> /\ Tail(todo) = SubSeq(all, r + 1, Len(all))
  BY <1>1, <1>2, <1>3, Rest DEF IsRest
<1> QED
  BY <1>1, <1>4 DEF Follows

\* What a scan that is over has tried.
TriedAll(all, tried, skipped, finished) ==
  \E place \in [DOMAIN tried -> DOMAIN all] :
    /\ \A k \in DOMAIN tried : tried[k] = all[place[k]]
    /\ \A j, k \in DOMAIN tried : j < k => place[j] < place[k]
    /\ \A i \in DOMAIN all : (\A k \in DOMAIN tried : place[k] # i) =>
        \/ finished /\ \A k \in DOMAIN tried : place[k] < i
        \/ /\ all[i][1] \in skipped
           /\ \E k \in DOMAIN tried : place[k] < i /\ all[place[k]][1] = all[i][1]

LEMMA FollowDone ==
  ASSUME NEW all, IsSeq(all), NEW todo, NEW tried, NEW skipped, NEW cursor, NEW finished,
         Follows(all, todo, cursor, tried, skipped),
         todo = <<>> \/ finished
  PROVE  TriedAll(all, tried, skipped, finished)
<1>0. PICK r \in 0..Len(all) : \E place \in [1..Len(tried) -> 1..r] :
         /\ Trail(all, r, tried, place, skipped)
         /\ cursor # 0 => r # 0
         /\ todo = SubSeq(all, IF cursor = 0 THEN r + 1 ELSE r, Len(all))
  BY DEF Follows
<1>1. PICK place \in [1..Len(tried) -> 1..r] :
         /\ Trail(all, r, tried, place, skipped)
         /\ cursor # 0 => r # 0
         /\ todo = SubSeq(all, IF cursor = 0 THEN r + 1 ELSE r, Len(all))
  BY <1>0
<1>2. DOMAIN tried = 1..Len(tried) /\ DOMAIN all = 1..Len(all) /\ Len(all) \in Nat /\ Len(tried) \in Nat
  BY <1>1, SeqFacts DEF Trail
<1>8. PICK l \in Nat : l = Len(all) /\ r \in 0..l
  BY <1>2
<1>3. todo = <<>> => r = Len(all)
  <2>1. CASE cursor = 0
    <3>0. PICK p : p = r + 1
      OBVIOUS
    <3>1. todo = SubSeq(all, p, Len(all)) /\ p \in 1..(Len(all) + 1)
      BY <1>1, <1>8, <2>1, <3>0
    <3>9. IsRest(all, p, todo)
      BY <3>1, Rest
    <3>2. todo = <<>> <=> p = Len(all) + 1
      BY <3>9 DEF IsRest
    <3> QED
      BY <1>8, <3>0, <3>2
  <2>2. CASE cursor # 0
    <3>1. todo = SubSeq(all, r, Len(all)) /\ r \in 1..(Len(all) + 1)
      BY <1>1, <1>2, <2>2
    <3>9. IsRest(all, r, todo)
      BY <3>1, Rest
    <3>2. todo = <<>> <=> r = Len(all) + 1
      BY <3>9 DEF IsRest
    <3> QED
      BY <1>8, <3>1, <3>2
  <2> QED
    BY <2>1, <2>2
<1>4. place \in [DOMAIN tried -> DOMAIN all]
  BY <1>1, <1>2
<1>5. ASSUME NEW i \in DOMAIN all, \A k \in DOMAIN tried : place[k] # i
      PROVE  \/ finished /\ \A k \in DOMAIN tried : place[k] < i
             \/ /\ all[i][1] \in skipped
                /\ \E k \in DOMAIN tried : place[k] < i /\ all[place[k]][1] = all[i][1]
  <2>1. CASE i <= r
    <3>1. i \in 1..r /\ \A k \in 1..Len(tried) : place[k] # i
      BY <1>2, <1>5, <2>1
    <3>2. \A x \in 1..r : (\A k \in 1..Len(tried) : place[k] # x) => Missed(all, x, tried, place, skipped)
      BY <1>1 DEF Trail
    <3>3. Missed(all, i, tried, place, skipped)
      BY <3>1, <3>2
    <3> QED
      BY <1>2, <3>3 DEF Missed
  <2>2. CASE i > r
    <3>2. i \in 1..l /\ i > r
      BY <1>2, <1>8, <2>2
    <3>3. r # Len(all)
      BY <1>8, <3>2
    <3>0. todo # <<>>
      BY <1>3, <3>3
    <3>1. finished
      BY <3>0, Zenon
    <3>4. \A k \in DOMAIN tried : place[k] < i
      BY <1>1, <1>2, <1>8, <3>2
    <3> QED
      BY <3>1, <3>4
  <2> QED
    BY <1>1, <1>2, <2>1, <2>2
<1>6. \A k \in DOMAIN tried : tried[k] = all[place[k]]
  BY <1>1, <1>2 DEF Trail
<1>7. \A j, k \in DOMAIN tried : j < k => place[j] < place[k]
  BY <1>1, <1>2 DEF Trail
<1> QED
  BY <1>4, <1>5, <1>6, <1>7 DEF TriedAll

-----------------------------------------------------------------------------
\* The limits of a scan, which one that is not over has not met; the bytes are
\* met by the last document read.
LimitOK(config, read, size, tried, over) ==
  /\ config.documents # 0 => read <= config.documents /\ (~over => read < config.documents)
  /\ config.scanSizeBytes # 0 /\ size >= config.scanSizeBytes =>
       /\ over /\ tried # <<>>
       /\ size - LengthIn(Last(tried)[2]) < config.scanSizeBytes

\* The first document at which a scan stops meets its limit.
LEMMA LimitIsMet ==
  ASSUME NEW config, IsPhase(config), NEW read \in Nat, NEW size \in Nat, NEW before, NEW length \in Nat,
         LimitOK(config, read, size, before, FALSE),
         NEW want \in Nat,
         \A i \in 1..(want - 1) : ~Stops(config, read + i, size + i * length),
         NEW more \in 0..want,
         NEW tried, tried # <<>>, LengthIn(Last(tried)[2]) = length
  PROVE  /\ LimitOK(config, read + more, size + more * length, tried, TRUE)
         /\ more = 0 \/ ~Stops(config, read + more, size + more * length)
               => LimitOK(config, read + more, size + more * length, tried, FALSE)
<1>1. config.documents \in Nat /\ config.scanSizeBytes \in Nat
  BY DEF IsPhase
<1>2. ASSUME config.documents # 0
      PROVE  read + more <= config.documents
  <2> SUFFICES ASSUME read + more > config.documents PROVE FALSE
    BY <1>1
  <2>1. PICK i : i = config.documents - read
    OBVIOUS
  <2>2. i \in 1..(want - 1) /\ read + i = config.documents
    BY <1>1, <1>2, <2>1 DEF LimitOK
  <2>3. Stops(config, read + i, size + i * length)
    BY <1>2, <2>2 DEF Stops
  <2> QED
    BY <2>2, <2>3
<1>3. PICK all \in Nat : all = size + more * length
  OBVIOUS
<1>4. ASSUME config.scanSizeBytes # 0, all >= config.scanSizeBytes
      PROVE  all - length < config.scanSizeBytes /\ more # 0
  <2>1. size < config.scanSizeBytes
    BY <1>1, <1>4 DEF LimitOK
  <2>2. more # 0
    BY <1>1, <1>3, <1>4, <2>1
  <2>3. PICK i \in Nat : i = more - 1
    BY <2>2
  <2>4. i * length \in Nat /\ all = size + (i * length + length)
    <3>1. more * length = i * length + length
      BY <2>3
    <3> QED
      BY <1>3, <3>1
  <2>5. size + i * length < config.scanSizeBytes
    <3>1. CASE i = 0
      BY <2>1, <3>1
    <3>2. CASE i # 0
      <4>1. i \in 1..(want - 1)
        BY <2>3, <3>2
      <4>2. ~Stops(config, read + i, size + i * length)
        BY <4>1
      <4> QED
        BY <1>1, <1>4, <2>4, <4>2 DEF Stops
    <3> QED
      BY <3>1, <3>2
  <2>6. all - length = size + i * length
    BY <2>4
  <2> QED
    BY <2>2, <2>5, <2>6
<1>5. LimitOK(config, read + more, all, tried, TRUE)
  BY <1>1, <1>2, <1>4 DEF LimitOK
<1>6. ASSUME more = 0
      PROVE  LimitOK(config, read + more, all, tried, FALSE)
  <2>1. read + more = read /\ all = size
    BY <1>3, <1>6
  <2> QED
    BY <1>4, <1>6, <2>1 DEF LimitOK
<1>7. ASSUME ~Stops(config, read + more, all)
      PROVE  LimitOK(config, read + more, all, tried, FALSE)
  BY <1>1, <1>2, <1>3, <1>7 DEF LimitOK, Stops
<1> QED
  BY <1>3, <1>5, <1>6, <1>7

\* Wanted is a number of documents, and the scan stops at none of those before.
LEMMA WantedIs ==
  ASSUME NEW s \in Scanners
  PROVE  /\ Wanted(s) \in Nat /\ DocumentsOf(s) \in Nat /\ LengthIn(Collection(s)) \in Nat
         /\ \A i \in 1..(Wanted(s) - 1) : ~StopsWith(s, i)
<1>1. PICK n \in Nat : n = DocumentsOf(s)
  BY CollectionsAssumption DEF DocumentsOf, DocumentsIn
<1>6. LengthIn(Collection(s)) \in Nat
  BY CollectionsAssumption DEF LengthIn
<1>2. PICK ends : ends = {i \in 1 .. n : StopsWith(s, i)}
  OBVIOUS
<1>3. Wanted(s) = IF ends = {} THEN n ELSE Min(ends)
  BY <1>1, <1>2 DEF Wanted
<1>4. CASE ends = {}
  <2>1. \A i \in 1..(n - 1) : i \in 1..n
    BY <1>1
  <2> QED
    BY <1>1, <1>2, <1>3, <1>4, <1>6, <2>1
<1>5. CASE ends # {}
  <2>1. ends \subseteq Nat
    BY <1>2
  <2>2. \E m \in ends : \A k \in ends : m <= k
    BY <1>5, <2>1, LeastNumber
  <2>3. PICK m : m = Min(ends)
    OBVIOUS
  <2>4. m \in ends /\ \A k \in ends : m <= k
    BY <2>2, <2>3 DEF Min
  <2>5. ASSUME NEW i \in 1..(m - 1)
        PROVE  ~StopsWith(s, i)
    <3>1. m \in 1..n
      BY <1>2, <2>4
    <3>2. i \in 1..n /\ ~(m <= i)
      BY <3>1
    <3> QED
      BY <1>2, <2>4, <3>2
  <2> QED
    BY <1>1, <1>3, <1>5, <1>6, <2>1, <2>3, <2>4, <2>5
<1> QED
  BY <1>4, <1>5

\* What is left of the list is a sequence.
LEMMA FollowSeq ==
  ASSUME NEW all, IsSeq(all), NEW todo, NEW tried, NEW skipped,
         Follows(all, todo, 0, tried, skipped)
  PROVE  IsSeq(todo)
<1>0. PICK r \in 0..Len(all) : \E place \in [1..Len(tried) -> 1..r] :
         /\ Trail(all, r, tried, place, skipped)
         /\ 0 # 0 => r # 0
         /\ todo = SubSeq(all, IF 0 = 0 THEN r + 1 ELSE r, Len(all))
  BY DEF Follows
<1>1. Len(all) \in Nat
  BY SeqFacts
<1>2. PICK p : p = r + 1
  OBVIOUS
<1>3. p \in 1..(Len(all) + 1) /\ todo = SubSeq(all, p, Len(all))
  BY <1>0, <1>1, <1>2
<1>4. IsRest(all, p, todo)
  BY <1>3, Rest
<1> QED
  BY <1>4 DEF IsRest

\* The next collection is tried.
LEMMA FollowNext ==
  ASSUME NEW all, IsSeq(all), NEW todo, NEW tried, NEW skipped,
         Follows(all, todo, 0, tried, skipped), todo # <<>>
  PROVE  /\ Follows(all, Tail(todo), 0, Append(tried, Head(todo)), skipped)
         /\ \A cursor : cursor # 0 => Follows(all, todo, cursor, Append(tried, Head(todo)), skipped)
<1>1. IsSeq(todo)
  BY FollowSeq
<1>2. PICK T : T = Range(todo)
  OBVIOUS
<1>3. todo \in Seq(T)
  BY <1>1, <1>2 DEF IsSeq
<1>4. Len(todo) \in Nat /\ Len(todo) # 0
  BY <1>1, SeqFacts
<1>5. 1 \in 1..Len(todo) /\ Tail(todo) = SubSeq(todo, 1 + 1, Len(todo))
  BY <1>3, <1>4
<1>6. \A i \in 2..1 : todo[i][1] = todo[1][1] /\ todo[i][1] \in skipped
  OBVIOUS
<1>7. /\ Follows(all, SubSeq(todo, 1 + 1, Len(todo)), 0, Append(tried, Head(todo)), skipped)
      /\ \A cursor : cursor # 0 /\ 1 = 1 => Follows(all, todo, cursor, Append(tried, Head(todo)), skipped)
  BY <1>5, <1>6, FollowTry
<1> QED
  BY <1>5, <1>7

\* The next collection is tried, and the rest of its database is left.
LEMMA FollowLeave ==
  ASSUME NEW all, IsSeq(all), NEW todo, NEW tried, NEW skipped,
         Follows(all, todo, 0, tried, skipped), todo # <<>>,
         NEW others, others = {i \in DOMAIN todo : todo[i][1] # Head(todo)[1]},
         NEW next, next = IF others = {} THEN Len(todo) + 1 ELSE Min(others)
  PROVE  Follows(all, SubSeq(todo, next, Len(todo)), 0, Append(tried, Head(todo)),
                 skipped \cup {Head(todo)[1]})
<1>1. IsSeq(todo)
  BY FollowSeq
<1>2. PICK T : T = Range(todo)
  OBVIOUS
<1>3. todo \in Seq(T)
  BY <1>1, <1>2 DEF IsSeq
<1>4. PICK l \in Nat : l = Len(todo) /\ l # 0 /\ DOMAIN todo = 1..l
  BY <1>1, SeqFacts
<1>5. Head(todo) = todo[1]
  BY <1>3, <1>4
<1>6. next \in 2..(l + 1) /\ \A i \in 1..(next - 1) : i \notin others
  <2>1. CASE others = {}
    BY <1>4, <2>1
  <2>2. CASE others # {}
    <3>1. others \subseteq 2..l
      <4>1. 1 \notin others
        BY <1>5
      <4> QED
        BY <1>4, <4>1
    <3>2. others \subseteq Nat
      BY <3>1
    <3>3. \E m \in others : \A k \in others : m <= k
      BY <2>2, <3>2, LeastNumber
    <3>4. next \in others /\ \A k \in others : next <= k
      BY <2>2, <3>3 DEF Min
    <3>5. next \in 2..l
      BY <3>1, <3>4
    <3>6. ASSUME NEW i \in 1..(next - 1)
          PROVE  i \notin others
      BY <3>4, <3>5
    <3> QED
      BY <1>4, <3>5, <3>6
  <2> QED
    BY <2>1, <2>2
<1>13. PICK m \in 2..(l + 1) : m = next
  BY <1>6
<1>14. m - 1 \in 1..l /\ m = (m - 1) + 1
  BY <1>4, <1>13
<1>7. PICK n \in 1..l : n = m - 1 /\ m = n + 1
  BY <1>14
<1>8. n \in 1..Len(todo) /\ n + 1 = next
  BY <1>4, <1>13, <1>7, Zenon
<1>9. PICK left : left = skipped \cup {Head(todo)[1]}
  OBVIOUS
<1>10. ASSUME NEW i \in 2..n
       PROVE  todo[i][1] = todo[1][1] /\ todo[i][1] \in left
  <2>0. i \in 1..(m - 1) /\ i \in 1..l
    BY <1>4, <1>7
  <2>1. i \in 1..(next - 1) /\ i \in DOMAIN todo
    BY <1>4, <1>13, <2>0, Zenon
  <2>2. todo[i][1] = Head(todo)[1]
    BY <1>6, <2>1
  <2> QED
    BY <1>5, <1>9, <2>2
<1>11. skipped \subseteq left
  BY <1>9
<1>12. Follows(all, SubSeq(todo, n + 1, Len(todo)), 0, Append(tried, Head(todo)), left)
  BY <1>8, <1>10, <1>11, FollowTry
<1> QED
  BY <1>8, <1>9, <1>12

-----------------------------------------------------------------------------
\* A scan at work: where it stands in its list, and what it has read of its
\* limits.
Stands(config, all, c) ==
  /\ c.docs \in Nat /\ c.size \in Nat /\ c.cursor \in Nat
  /\ c.finished => c.cursor = 0
  /\ c.cursor # 0 => config.scanType = "point-in-time"
  /\ Follows(all, c.todo, c.cursor, c.tried, c.skipped)
  /\ config.scanType \in {"snapshot", "standard"} => LimitOK(config, c.docs, c.size, c.tried, c.finished)

ScanOK(s) ==
  /\ scan[s].at = "idle" =>
       /\ scan[s].docs = 0 /\ scan[s].size = 0 /\ scan[s].cursor = 0
       /\ ~scan[s].finished /\ scan[s].tried = <<>>
  /\ InScan(s) => scan[s].phase \in DOMAIN schedule
  /\ scan[s].at = "scan" => Stands(Config(s), CollectionsOf(s), scan[s])
  /\ InScan(s) /\ scan[s].at # "scan" /\ Config(s).scanType \in {"snapshot", "standard"}
       => LimitOK(Config(s), scan[s].docs, scan[s].size, scan[s].tried, TRUE)

ScanInv == schedule \in Schedules /\ \A s \in Scanners : ScanOK(s)

LEMMA PhaseIs ==
  ASSUME ScanInv, NEW s \in Scanners, scan[s].phase \in DOMAIN schedule
  PROVE  IsPhase(Config(s)) /\ IsSeq(CollectionsOf(s))
<1>1. IsPhase(Config(s))
  BY ScannerAssumption DEF ScanInv, Config, IsPhase
<1> QED
  BY <1>1, CollectionsAreSeq

\* The scans of the others are as they were.
LEMMA OtherScansOK ==
  ASSUME ScanInv, UNCHANGED schedule, NEW u \in Scanners, scan'[u] = scan[u]
  PROVE  ScanOK(u)'
<1>1. ScanOK(u)
  BY DEF ScanInv
<1>2. Config(u)' = Config(u) /\ CollectionsOf(u)' = CollectionsOf(u) /\ InScan(u)' = InScan(u)
  BY DEF Config, CollectionsOf, InScan
<1> QED
  BY <1>1, <1>2 DEF ScanOK

\* A step of a scan that leaves it at work.
LEMMA StandsOn ==
  ASSUME ScansOK, ScanInv, NEW s \in Scanners, GoesOn(s), scan[s].at = "scan",
         Stands(Config(s), CollectionsOf(s), scan'[s])
  PROVE  ScanInv'
<1>1. Config(s)' = Config(s) /\ CollectionsOf(s)' = CollectionsOf(s) /\ InScan(s)' = InScan(s)
  BY DEF Config, CollectionsOf, InScan, GoesOn
<1>2. ScanOK(s)'
  BY <1>1 DEF ScanOK, ScanInv, GoesOn
<1>3. \A u \in Scanners \ {s} : ScanOK(u)'
  BY OtherScansOK DEF GoesOn
<1> QED
  BY <1>2, <1>3 DEF ScanInv, GoesOn

\* One collection more has been tried, and is left behind.
LEMMA StandsTry ==
  ASSUME NEW config, NEW all, NEW was, NEW now, IsSeq(all), Stands(config, all, was),
         was.todo # <<>>, was.cursor = 0,
         now.docs \in Nat, now.size \in Nat, now.cursor = 0, now.skipped = was.skipped,
         now.todo = Tail(was.todo), now.tried = Append(was.tried, Head(was.todo)),
         config.scanType \in {"snapshot", "standard"} =>
            LimitOK(config, now.docs, now.size, now.tried, now.finished)
  PROVE  Stands(config, all, now)
<1>1. Follows(all, was.todo, 0, was.tried, was.skipped)
  BY DEF Stands
<1>2. Follows(all, now.todo, 0, now.tried, now.skipped)
  BY <1>1, FollowNext
<1>3. now.cursor \in Nat
  OBVIOUS
<1> QED
  BY <1>2, <1>3 DEF Stands

LEMMA CollectionStands ==
  ASSUME ScansOK, ScanInv, NEW s \in Scanners,
         ScanCollection(s) \/ ScanThrows(s) \/ CountCollection(s)
  PROVE  ScanInv'
<1>0. DOMAIN scan = Scanners /\ DOMAIN scan[s] = ScanFields
  BY DEF ScansOK
<1>1. Reading(s)
  BY DEF ScanCollection, ScanThrows, CountCollection
<1>2. /\ scan[s].at = "scan" /\ scan[s].todo # <<>> /\ ~scan[s].finished
      /\ scan[s].phase \in DOMAIN schedule
      /\ Stands(Config(s), CollectionsOf(s), scan[s])
  BY <1>1 DEF Reading, ScanInv, ScanOK, InScan
<1>3. IsPhase(Config(s)) /\ IsSeq(CollectionsOf(s))
  BY <1>2, PhaseIs
<1>4. GoesOn(s)
  BY ReadsGoOn DEF Reads
<1>5. PICK was : was = scan[s]
  OBVIOUS
<1>6. PICK config : config = Config(s)
  OBVIOUS
<1>16. PICK length \in Nat : length = LengthIn(Head(was.todo)[2])
  BY <1>5, WantedIs DEF Collection
<1>17. \A n : SizeWith(s, n) = was.size + n * length /\ StopsWith(s, n) = Stops(config, was.docs + n, was.size + n * length)
  BY <1>5, <1>6, <1>16 DEF StopsWith, SizeWith, Collection
<1>7. PICK want \in Nat :
        want = Wanted(s) /\ \A i \in 1..(want - 1) : ~Stops(config, was.docs + i, was.size + i * length)
  BY <1>17, WantedIs
<1>18. PICK tried : tried = Append(was.tried, Head(was.todo))
  OBVIOUS
<1>19. tried # <<>> /\ LengthIn(Last(tried)[2]) = length
  <2>1. IsSeq(was.tried)
    BY <1>2, <1>5 DEF Stands, Follows, Trail
  <2>2. Len(tried) = Len(was.tried) + 1 /\ Len(was.tried) \in Nat /\ tried[Len(was.tried) + 1] = Head(was.todo)
    BY <1>18, <2>1, Appended
  <2>3. tried # <<>>
    BY <2>2
  <2>4. Last(tried) = Head(was.todo)
    BY <2>2 DEF Last
  <2> QED
    BY <1>16, <2>3, <2>4
<1>8. was.docs \in Nat /\ was.size \in Nat /\ (was.cursor # 0 => config.scanType = "point-in-time")
  BY <1>2, <1>5, <1>6 DEF Stands
<1>9. /\ scan'[s].cursor = was.cursor /\ scan'[s].skipped = was.skipped
      /\ scan'[s].todo = Tail(was.todo) /\ scan'[s].tried = Append(was.tried, Head(was.todo))
  <2>1. CASE ScanCollection(s)
    BY <1>0, <1>5, <2>1 DEF ScanCollection, ScanFields
  <2>2. CASE ScanThrows(s)
    <3>1. PICK read : scan' = [scan EXCEPT ![s].docs = @ + read, ![s].size = SizeWith(s, read),
                                ![s].tried = Append(@, Head(scan[s].todo)),
                                ![s].todo = Tail(@),
                                ![s].caught = @ + 1,
                                ![s].aborted = Config(s).scanType = "snapshot"]
      BY <2>2 DEF ScanThrows
    <3> QED
      BY <1>0, <1>5, <3>1 DEF ScanFields
  <2>3. CASE CountCollection(s)
    BY <1>0, <1>5, <2>3 DEF CountCollection, ScanFields
  <2> QED
    BY <2>1, <2>2, <2>3
<1>10. config.scanType \in {"snapshot", "standard"} => LimitOK(config, was.docs, was.size, was.tried, FALSE)
  BY <1>2, <1>5, <1>6 DEF Stands, LimitOK
<1>11. /\ scan'[s].docs \in Nat /\ scan'[s].size \in Nat
       /\ config.scanType \in {"snapshot", "standard"} =>
             LimitOK(config, scan'[s].docs, scan'[s].size, tried, scan'[s].finished)
       /\ was.cursor = 0
  <2>1. CASE ScanCollection(s)
    <3>1. config.scanType \in {"snapshot", "standard"}
      BY <1>6, <2>1 DEF ScanCollection
    <3>6. PICK size \in Nat : size = was.size + want * length
      BY <1>8
    <3>7. PICK over : over = (want > 0 /\ Stops(config, was.docs + want, size))
      OBVIOUS
    <3>2. scan'[s].docs = was.docs + want /\ scan'[s].size = size /\ scan'[s].finished = over
      <4>1. scan' = [scan EXCEPT ![s].docs = @ + want, ![s].size = size,
                                 ![s].tried = Append(@, Head(scan[s].todo)),
                                 ![s].todo = Tail(@),
                                 ![s].finished = over]
        BY <1>7, <1>17, <2>1, <3>6, <3>7 DEF ScanCollection
      <4> QED
        BY <1>0, <1>5, <4>1 DEF ScanFields
    <3>3. want \in 0..want
      OBVIOUS
    <3>4. /\ LimitOK(config, was.docs + want, size, tried, TRUE)
          /\ want = 0 \/ ~Stops(config, was.docs + want, size) => LimitOK(config, was.docs + want, size, tried, FALSE)
      BY <1>3, <1>6, <1>7, <1>8, <1>10, <1>19, <3>1, <3>3, <3>6, LimitIsMet
    <3>5. LimitOK(config, was.docs + want, size, tried, over)
      <4>1. CASE want > 0 /\ Stops(config, was.docs + want, size)
        BY <3>4, <3>7, <4>1
      <4>2. CASE ~(want > 0 /\ Stops(config, was.docs + want, size))
        <5>1. want = 0 \/ ~Stops(config, was.docs + want, size)
          BY <4>2
        <5> QED
          BY <3>4, <3>7, <4>2, <5>1
      <4> QED
        BY <4>1, <4>2
    <3> QED
      BY <1>8, <3>1, <3>2, <3>5
  <2>2. CASE ScanThrows(s)
    <3>1. config.scanType \in {"snapshot", "standard"}
      BY <1>6, <2>2 DEF ScanThrows
    <3>2. PICK read \in 0 .. (IF scan[s].aborted THEN 0 ELSE Wanted(s)) :
            /\ read = 0 \/ ~StopsWith(s, read)
            /\ scan' = [scan EXCEPT ![s].docs = @ + read, ![s].size = SizeWith(s, read),
                                ![s].tried = Append(@, Head(scan[s].todo)),
                                ![s].todo = Tail(@),
                                ![s].caught = @ + 1,
                                ![s].aborted = Config(s).scanType = "snapshot"]
      BY <2>2 DEF ScanThrows
    <3>3. read \in 0..want
      BY <1>7, <3>2
    <3>7. PICK size \in Nat : size = was.size + read * length
      BY <1>8, <3>3
    <3>8. SizeWith(s, read) = size /\ (read = 0 \/ ~Stops(config, was.docs + read, size))
      BY <1>17, <3>2, <3>7
    <3>4. scan'[s].docs = was.docs + read /\ scan'[s].size = size /\ scan'[s].finished = was.finished
      BY <1>0, <1>5, <3>2, <3>8 DEF ScanFields
    <3>9. /\ LimitOK(config, was.docs + read, size, tried, TRUE)
          /\ read = 0 \/ ~Stops(config, was.docs + read, size) => LimitOK(config, was.docs + read, size, tried, FALSE)
      BY <1>3, <1>6, <1>7, <1>8, <1>10, <1>19, <3>1, <3>3, <3>7, LimitIsMet
    <3>5. LimitOK(config, was.docs + read, size, tried, FALSE)
      BY <3>8, <3>9
    <3>6. LimitOK(config, was.docs + read, size, tried, was.finished)
      BY <1>2, <1>5, <3>5 DEF LimitOK
    <3> QED
      BY <1>8, <3>1, <3>3, <3>4, <3>6
  <2>3. CASE CountCollection(s)
    <3>1. config.scanType = "count"
      BY <1>6, <2>3 DEF CountCollection
    <3>2. DocumentsOf(s) \in Nat
      BY WantedIs
    <3>3. scan'[s].docs \in {was.docs, was.docs + DocumentsOf(s)} /\ scan'[s].size = was.size
      BY <1>0, <1>5, <2>3 DEF CountCollection, ScanFields
    <3> QED
      BY <1>8, <3>1, <3>2, <3>3
  <2> QED
    BY <2>1, <2>2, <2>3
<1>12. PICK all : all = CollectionsOf(s)
  OBVIOUS
<1>13. PICK now : now = scan'[s]
  OBVIOUS
<1>14. Stands(config, all, now)
  <2>1. IsSeq(all) /\ Stands(config, all, was) /\ was.todo # <<>> /\ was.cursor = 0
    BY <1>2, <1>3, <1>5, <1>6, <1>11, <1>12
  <2>2. /\ now.docs \in Nat /\ now.size \in Nat /\ now.cursor = 0 /\ now.skipped = was.skipped
        /\ now.todo = Tail(was.todo) /\ now.tried = Append(was.tried, Head(was.todo))
        /\ config.scanType \in {"snapshot", "standard"} =>
              LimitOK(config, now.docs, now.size, now.tried, now.finished)
    BY <1>9, <1>11, <1>13, <1>18
  <2> QED
    BY <2>1, <2>2, StandsTry
<1>15. Stands(Config(s), CollectionsOf(s), scan'[s])
  BY <1>6, <1>12, <1>13, <1>14
<1> QED
  BY <1>2, <1>4, <1>15, StandsOn

\* A batch of what is left of a collection: the cursor stays open, with less
\* left, or the collection is left behind.
LEMMA BatchReads ==
  ASSUME ScansOK, NEW s \in Scanners, NEW rest \in Nat, Batch(s, rest), scan[s].docs \in Nat, scan[s].size \in Nat
  PROVE  /\ scan'[s].docs \in Nat /\ scan'[s].size \in Nat
         /\ scan'[s].skipped = scan[s].skipped
         /\ scan'[s].tried = IF scan[s].cursor = 0 THEN Append(scan[s].tried, Head(scan[s].todo))
                                                   ELSE scan[s].tried
         /\ \/ scan'[s].cursor \in Nat \ {0} /\ scan'[s].todo = scan[s].todo /\ ~scan'[s].finished
            \/ scan'[s].cursor = 0 /\ scan'[s].todo = Tail(scan[s].todo)
<1>0. DOMAIN scan = Scanners /\ DOMAIN scan[s] = ScanFields
  BY DEF ScansOK
<1>1. PICK got : got = Min({rest, BatchSize})
  OBVIOUS
<1>2. got \in Nat /\ got <= rest
  <2>1. BatchSize \in Nat
    BY ScannerAssumption
  <2>2. \E n \in {rest, BatchSize} : \A k \in {rest, BatchSize} : n <= k
    BY <2>1
  <2>3. got \in {rest, BatchSize} /\ \A k \in {rest, BatchSize} : got <= k
    BY <1>1, <2>2 DEF Min
  <2> QED
    BY <2>1, <2>3
<1>9. PICK length \in Nat : length = LengthIn(Collection(s))
  BY WantedIs
<1>10. PICK size \in Nat : size = SizeWith(s, got) + ArrayLength
  <2>1. got * length \in Nat /\ ArrayLength \in Nat
    BY <1>2, CollectionsAssumption
  <2> QED
    BY <1>9, <2>1 DEF SizeWith
<1>3. PICK halts : halts = Stops(Config(s), scan[s].docs + got, size)
  OBVIOUS
<1>4. PICK more : more = (rest > got /\ ~halts)
  OBVIOUS
<1>5. scan' = [scan EXCEPT ![s].docs = @ + got, ![s].size = size,
                           ![s].cursor = IF more THEN rest - got ELSE 0,
                           ![s].tried = IF scan[s].cursor = 0 THEN Append(@, Head(scan[s].todo)) ELSE @,
                           ![s].todo = IF more THEN @ ELSE Tail(@),
                           ![s].finished = halts]
  BY <1>1, <1>3, <1>4, <1>10 DEF Batch
<1>6. /\ scan'[s].docs = scan[s].docs + got /\ scan'[s].size = size
      /\ scan'[s].cursor = IF more THEN rest - got ELSE 0
      /\ scan'[s].tried = IF scan[s].cursor = 0 THEN Append(scan[s].tried, Head(scan[s].todo))
                                                ELSE scan[s].tried
      /\ scan'[s].todo = IF more THEN scan[s].todo ELSE Tail(scan[s].todo)
      /\ scan'[s].finished = halts
      /\ scan'[s].skipped = scan[s].skipped
  BY <1>0, <1>5 DEF ScanFields
<1>7. CASE more
  <2>0. rest > got /\ ~halts
    BY <1>4, <1>7
  <2>1. rest - got \in Nat \ {0} /\ ~halts
    BY <1>2, <2>0
  <2> QED
    BY <1>2, <1>6, <1>7, <2>1
<1>8. CASE ~more
  BY <1>2, <1>6, <1>8
<1> QED
  BY <1>7, <1>8

\* The reads at a point in time.
LEMMA PointInTimeStands ==
  ASSUME ScansOK, ScanInv, NEW s \in Scanners,
         Find(s) \/ GetMore(s) \/ FindThrows(s) \/ GetMoreThrows(s)
  PROVE  ScanInv'
<1>0. DOMAIN scan = Scanners /\ DOMAIN scan[s] = ScanFields
  BY DEF ScansOK
<1>1. Reading(s)
  BY DEF Find, GetMore, FindThrows, GetMoreThrows
<1>2. /\ scan[s].at = "scan" /\ scan[s].todo # <<>> /\ ~scan[s].finished
      /\ scan[s].phase \in DOMAIN schedule
      /\ Stands(Config(s), CollectionsOf(s), scan[s])
  BY <1>1 DEF Reading, ScanInv, ScanOK, InScan
<1>3. IsPhase(Config(s)) /\ IsSeq(CollectionsOf(s))
  BY <1>2, PhaseIs
<1>4. GoesOn(s)
  BY ReadsGoOn DEF Reads
<1>5. PICK was : was = scan[s]
  OBVIOUS
<1>6. PICK config : config = Config(s)
  OBVIOUS
<1>7. PICK all : all = CollectionsOf(s)
  OBVIOUS
<1>8. PICK now : now = scan'[s]
  OBVIOUS
<1>9. /\ was.docs \in Nat /\ was.size \in Nat /\ was.cursor \in Nat /\ IsSeq(all) /\ was.todo # <<>>
      /\ Follows(all, was.todo, was.cursor, was.tried, was.skipped)
  BY <1>2, <1>3, <1>5, <1>7 DEF Stands
<1>10. config.scanType = "point-in-time"
  <2>1. was.cursor # 0 => config.scanType = "point-in-time"
    BY <1>2, <1>5, <1>6 DEF Stands
  <2> QED
    BY <1>5, <1>6, <2>1 DEF Find, GetMore, FindThrows, GetMoreThrows
<1>11. /\ now.docs \in Nat /\ now.size \in Nat /\ now.cursor \in Nat
       /\ now.finished => now.cursor = 0
       /\ Follows(all, now.todo, now.cursor, now.tried, now.skipped)
  <2>1. CASE Find(s) \/ GetMore(s)
    <3>1. DocumentsOf(s) \in Nat
      BY WantedIs
    <3>2. PICK rest \in Nat : Batch(s, rest)
      BY <1>5, <1>9, <2>1, <3>1 DEF Find, GetMore
    <3>3. /\ now.docs \in Nat /\ now.size \in Nat
          /\ now.skipped = was.skipped
          /\ now.tried = IF was.cursor = 0 THEN Append(was.tried, Head(was.todo)) ELSE was.tried
          /\ \/ now.cursor \in Nat \ {0} /\ now.todo = was.todo /\ ~now.finished
             \/ now.cursor = 0 /\ now.todo = Tail(was.todo)
      BY <1>5, <1>8, <1>9, <3>2, BatchReads
    <3>4. CASE was.cursor = 0
      <4>1. /\ Follows(all, Tail(was.todo), 0, Append(was.tried, Head(was.todo)), was.skipped)
            /\ \A cursor : cursor # 0 =>
                  Follows(all, was.todo, cursor, Append(was.tried, Head(was.todo)), was.skipped)
        BY <1>9, <3>4, FollowNext
      <4> QED
        BY <3>3, <3>4, <4>1
    <3>5. CASE was.cursor # 0
      <4>1. /\ Follows(all, Tail(was.todo), 0, was.tried, was.skipped)
            /\ \A other : other # 0 => Follows(all, was.todo, other, was.tried, was.skipped)
        BY <1>9, <3>5, FollowClose
      <4> QED
        BY <3>3, <3>5, <4>1
    <3> QED
      BY <3>4, <3>5
  <2>2. CASE FindThrows(s)
    <3> DEFINE todo == scan[s].todo
               others == {i \in DOMAIN todo : todo[i][1] # Head(todo)[1]}
               next == IF others = {} THEN Len(todo) + 1 ELSE Min(others)
    <3>3. was.cursor = 0
      BY <1>5, <2>2 DEF FindThrows
    <3>4. scan' = [scan EXCEPT ![s].tried = Append(@, Head(todo)),
                               ![s].todo = SubSeq(@, next, Len(@)),
                               ![s].skipped = @ \cup {Head(todo)[1]},
                               ![s].caught = @ + 1]
      BY <2>2, Zenon DEF FindThrows
    <3>6. Follows(all, todo, 0, was.tried, was.skipped) /\ todo # <<>>
      BY <1>5, <1>9, <3>3
    <3>8. Follows(all, SubSeq(todo, next, Len(todo)), 0, Append(was.tried, Head(todo)),
                  was.skipped \cup {Head(todo)[1]})
      BY <1>9, <3>6, FollowLeave, Zenon
    <3>9. todo = scan[s].todo
      OBVIOUS
    <3> HIDE DEF todo, next
    <3>5. /\ now.docs = was.docs /\ now.size = was.size /\ now.cursor = was.cursor
          /\ now.tried = Append(was.tried, Head(todo))
          /\ now.todo = SubSeq(todo, next, Len(todo))
          /\ now.skipped = was.skipped \cup {Head(todo)[1]}
      BY <1>0, <1>5, <1>8, <3>4, <3>9 DEF ScanFields
    <3>7. Follows(all, now.todo, 0, now.tried, now.skipped)
      BY <3>5, <3>8
    <3> QED
      BY <1>9, <3>3, <3>5, <3>7
  <2>3. CASE GetMoreThrows(s)
    <3>1. was.cursor # 0
      BY <1>5, <2>3 DEF GetMoreThrows
    <3>2. /\ now.docs = was.docs /\ now.size = was.size /\ now.cursor = 0 /\ now.todo = Tail(was.todo)
          /\ now.tried = was.tried /\ now.skipped = was.skipped
      BY <1>0, <1>5, <1>8, <2>3 DEF GetMoreThrows, ScanFields
    <3>3. Follows(all, Tail(was.todo), 0, was.tried, was.skipped)
      BY <1>9, <3>1, FollowClose
    <3> QED
      BY <1>9, <3>2, <3>3
  <2> QED
    BY <2>1, <2>2, <2>3
<1>12. Stands(config, all, now)
  BY <1>10, <1>11 DEF Stands
<1>13. Stands(Config(s), CollectionsOf(s), scan'[s])
  BY <1>6, <1>7, <1>8, <1>12
<1> QED
  BY <1>2, <1>4, <1>13, StandsOn

\* The list is read from its start.
LEMMA StandsNew ==
  ASSUME NEW config, IsPhase(config), NEW all, IsSeq(all), NEW now,
         now.docs = 0, now.size = 0, now.cursor = 0, ~now.finished, now.tried = <<>>, now.todo = all
  PROVE  Stands(config, all, now)
<1>1. Follows(all, now.todo, now.cursor, now.tried, now.skipped)
  BY FollowStart
<1>2. LimitOK(config, 0, 0, now.tried, now.finished)
  BY DEF LimitOK, IsPhase
<1> QED
  BY <1>1, <1>2 DEF Stands

LEMMA AgainStands ==
  ASSUME ScansOK, ScanInv, NEW s \in Scanners, ScanAgain(s)
  PROVE  ScanInv'
<1>0. DOMAIN scan = Scanners /\ DOMAIN scan[s] = ScanFields
  BY DEF ScansOK
<1>1. scan[s].at = "scan" /\ (scan[s].todo = <<>> \/ scan[s].finished)
  BY DEF ScanAgain, Scanned
<1>2. scan[s].phase \in DOMAIN schedule /\ Stands(Config(s), CollectionsOf(s), scan[s])
  BY <1>1 DEF ScanInv, ScanOK, InScan
<1>3. IsPhase(Config(s)) /\ IsSeq(CollectionsOf(s))
  BY <1>2, PhaseIs
<1>4. GoesOn(s)
  BY ReadsGoOn DEF Reads
<1>5. PICK was : was = scan[s]
  OBVIOUS
<1>6. PICK config : config = Config(s)
  OBVIOUS
<1>7. PICK all : all = CollectionsOf(s)
  OBVIOUS
<1>8. PICK now : now = scan'[s]
  OBVIOUS
<1>9. was.cursor = 0
  <2>1. /\ was.finished => was.cursor = 0
        /\ Follows(all, was.todo, was.cursor, was.tried, was.skipped)
        /\ was.todo = <<>> \/ was.finished
    BY <1>1, <1>2, <1>5, <1>7 DEF Stands
  <2>2. ASSUME was.cursor # 0, was.todo = <<>>
        PROVE  FALSE
    BY <1>3, <1>7, <2>1, <2>2, FollowClose
  <2> QED
    BY <2>1, <2>2
<1>10. /\ now.docs = 0 /\ now.size = 0 /\ now.cursor = was.cursor /\ now.finished = FALSE /\ now.tried = <<>>
       /\ now.todo = all
  BY <1>0, <1>5, <1>7, <1>8 DEF ScanAgain, ScanFields
<1>11. Stands(config, all, now)
  BY <1>3, <1>6, <1>7, <1>9, <1>10, StandsNew
<1>12. Stands(Config(s), CollectionsOf(s), scan'[s])
  BY <1>6, <1>7, <1>8, <1>11
<1> QED
  BY <1>1, <1>4, <1>12, StandsOn

\* A scan begins, ends or is given up.
LEMMA ChangesKeepStanding ==
  ASSUME ScansOK, ScanInv, NEW s \in Scanners, Changes(s)
  PROVE  ScanInv'
<1>0. DOMAIN scan = Scanners /\ DOMAIN scan[s] = ScanFields
  BY DEF ScansOK
<1>1. UNCHANGED schedule
  BY DEF Changes, SelectClusterTime, SelectClusterTimeThrows, BeginScan, CommitScan, ScannerDies, EndScan
<1>2. ASSUME \A u \in Scanners \ {s} : scan'[u] = scan[u], ScanOK(s)'
      PROVE  ScanInv'
  BY <1>1, <1>2, OtherScansOK DEF ScanInv
<1>3. CASE SelectClusterTime(s) \/ EndScan(s)
  <2>1. PICK next : next = NextPhase(s)
    OBVIOUS
  <2>2. /\ DOMAIN next = ScanFields /\ next.at = "idle" /\ next.docs = 0 /\ next.size = 0 /\ next.cursor = 0
        /\ next.finished = FALSE /\ next.tried = <<>>
    BY <2>1 DEF NextPhase, Idle, ScanFields
  <2>3. \/ scan' = [scan EXCEPT ![s] = [next EXCEPT !.clusterTime = time]]
        \/ scan' = [scan EXCEPT ![s] = next]
    BY <1>3, <2>1 DEF SelectClusterTime, EndScan
  <2>4. /\ scan'[s].at = "idle" /\ scan'[s].docs = 0 /\ scan'[s].size = 0 /\ scan'[s].cursor = 0
        /\ scan'[s].finished = FALSE /\ scan'[s].tried = <<>>
        /\ \A u \in Scanners \ {s} : scan'[u] = scan[u]
    BY <1>0, <2>2, <2>3 DEF ScanFields
  <2>5. ScanOK(s)'
    BY <2>4 DEF ScanOK, InScan
  <2> QED
    BY <1>2, <2>4, <2>5
<1>4. CASE SelectClusterTimeThrows(s)
  <2>1. scan'[s].at = "failed" /\ \A u \in Scanners \ {s} : scan'[u] = scan[u]
    BY <1>0, <1>4 DEF SelectClusterTimeThrows, ScanFields
  <2>2. ScanOK(s)'
    BY <2>1 DEF ScanOK, InScan
  <2> QED
    BY <1>2, <2>1, <2>2
<1>5. CASE BeginScan(s)
  <2>1. scan[s].at = "idle" /\ scan[s].phase \in DOMAIN schedule
    BY <1>5 DEF BeginScan
  <2>2. /\ scan'[s].at = "scan" /\ scan'[s].todo = CollectionsOf(s)
        /\ scan'[s].phase = scan[s].phase /\ scan'[s].docs = scan[s].docs /\ scan'[s].size = scan[s].size
        /\ scan'[s].cursor = scan[s].cursor /\ scan'[s].finished = scan[s].finished
        /\ scan'[s].tried = scan[s].tried
        /\ \A u \in Scanners \ {s} : scan'[u] = scan[u]
    BY <1>0, <1>5 DEF BeginScan, ScanFields
  <2>3. scan[s].docs = 0 /\ scan[s].size = 0 /\ scan[s].cursor = 0 /\ ~scan[s].finished /\ scan[s].tried = <<>>
    BY <2>1 DEF ScanInv, ScanOK
  <2>4. IsPhase(Config(s)) /\ IsSeq(CollectionsOf(s))
    BY <2>1, PhaseIs
  <2>5. PICK config : config = Config(s)
    OBVIOUS
  <2>6. PICK all : all = CollectionsOf(s)
    OBVIOUS
  <2>7. PICK now : now = scan'[s]
    OBVIOUS
  <2>8. now.docs = 0 /\ now.size = 0 /\ now.cursor = 0 /\ ~now.finished /\ now.tried = <<>> /\ now.todo = all
    BY <2>2, <2>3, <2>6, <2>7
  <2>9. Stands(config, all, now)
    BY <2>4, <2>5, <2>6, <2>8, StandsNew
  <2>10. Config(s)' = Config(s) /\ CollectionsOf(s)' = CollectionsOf(s)
    BY <1>1, <2>2 DEF Config, CollectionsOf
  <2>11. ScanOK(s)'
    BY <1>1, <2>1, <2>2, <2>5, <2>6, <2>7, <2>9, <2>10 DEF ScanOK, InScan
  <2> QED
    BY <1>2, <2>2, <2>11
<1>6. CASE CommitScan(s) \/ ScannerDies(s)
  <2>1. /\ scan'[s].at \in {"end", "dead"}
        /\ scan'[s].phase = scan[s].phase /\ scan'[s].docs = scan[s].docs
        /\ scan'[s].size = scan[s].size /\ scan'[s].tried = scan[s].tried
        /\ \A u \in Scanners \ {s} : scan'[u] = scan[u]
    BY <1>0, <1>6 DEF CommitScan, ScannerDies, ScanFields
  <2>2. scan[s].at = "scan"
    BY <1>6 DEF CommitScan, ScannerDies, Scanned
  <2>3. scan[s].phase \in DOMAIN schedule /\ Stands(Config(s), CollectionsOf(s), scan[s])
    BY <2>2 DEF ScanInv, ScanOK, InScan
  <2>4. Config(s).scanType \in {"snapshot", "standard"} =>
           LimitOK(Config(s), scan[s].docs, scan[s].size, scan[s].tried, TRUE)
    BY <2>3 DEF Stands, LimitOK
  <2>5. Config(s)' = Config(s)
    BY <1>1, <2>1 DEF Config
  <2>6. ScanOK(s)'
    BY <1>1, <2>1, <2>3, <2>4, <2>5 DEF ScanOK, InScan
  <2> QED
    BY <1>2, <2>1, <2>6
<1> QED
  BY <1>3, <1>4, <1>5, <1>6 DEF Changes

LEMMA ScansStand == ScansOK /\ ScanInv /\ [ScannerNext]_scannerVars => ScanInv'
<1> SUFFICES ASSUME ScansOK, ScanInv, [ScannerNext]_scannerVars PROVE ScanInv'
  OBVIOUS
<1>1. CASE \E s \in Scanners : Reads(s)
  BY <1>1, CollectionStands, PointInTimeStands, AgainStands DEF Reads
<1>2. CASE \E s \in Scanners : Changes(s)
  BY <1>2, ChangesKeepStanding
<1>3. CASE ScannerTick \/ UNCHANGED scannerVars
  <2>1. UNCHANGED <<schedule, scan>>
    BY <1>3 DEF ScannerTick, scannerVars
  <2> QED
    BY <2>1, OtherScansOK DEF ScanInv
<1> QED
  BY <1>1, <1>2, <1>3 DEF ScannerNext, Reads, Changes

\* A number is in one place of one block.
LEMMA OnePlace ==
  ASSUME NEW b \in Nat \ {0}, NEW j \in Nat, NEW k \in Nat, NEW i \in 0..(b - 1), NEW l \in 0..(b - 1),
         b * j + i = b * k + l
  PROVE  j = k /\ i = l
<1>1. ~(j < k)
  <2> SUFFICES ASSUME j < k PROVE FALSE
    OBVIOUS
  <2>1. b * (j + 1) <= b * k /\ b * (j + 1) = b * j + b
    BY TimesGrows, Times
  <2>2. b * j \in Int /\ b * k \in Int
    BY Times
  <2> QED
    BY <2>1, <2>2
<1>2. ~(k < j)
  <2> SUFFICES ASSUME k < j PROVE FALSE
    OBVIOUS
  <2>1. b * (k + 1) <= b * j /\ b * (k + 1) = b * k + b
    BY TimesGrows, Times
  <2>2. b * j \in Int /\ b * k \in Int
    BY Times
  <2> QED
    BY <2>1, <2>2
<1>3. j = k
  BY <1>1, <1>2
<1>4. b * j \in Int
  BY Times
<1> QED
  BY <1>3, <1>4

LEMMA NamesAreShared ==
  ASSUME NEW config, IsPhase(config), config.generate, ValidScan(config), Distributable(config)
  PROVE  LET count == config.collectionCount
             names == [s \in Scanners |-> distributeCollectionNames(count, Cardinality(Scanners), s)]
         IN  \A n \in 0 .. count - 1 :
                 Cardinality({p \in Scanners \X (1 .. count) :
                                  p[2] \in DOMAIN names[p[1]] /\ names[p[1]][p[2]] = n}) = 1
<1>1. PICK threads \in Nat \ {0} : threads = Cardinality(Scanners) /\ Scanners = 0..(threads - 1)
  BY ScannerAssumption
<1>2. PICK count \in Nat \ {0} : count = config.collectionCount
  BY DEF IsPhase, ValidScan
<1>3. count % threads = 0
  BY <1>1, <1>2 DEF Distributable
<1>4. PICK per : per = count \div threads
  OBVIOUS
<1>5. per \in Nat \ {0} /\ count = threads * per
  BY <1>3, <1>4, EvenDivision
<1>6. PICK names : names = [s \in Scanners |-> distributeCollectionNames(count, threads, s)]
  OBVIOUS
<1>7. \A s \in Scanners : names[s] = [i \in 1..per |-> per * s + i - 1]
  <2> SUFFICES ASSUME NEW s \in Scanners PROVE names[s] = [i \in 1..per |-> per * s + i - 1]
    OBVIOUS
  <2>1. s \in 0..(threads - 1) /\ names[s] = distributeCollectionNames(count, threads, s)
    BY <1>1, <1>6
  <2>2. threads <= count
    <3>1. threads * 1 <= threads * per /\ threads * 1 = threads
      BY <1>5, TimesGrows
    <3> QED
      BY <1>5, <3>1
  <2>3. s % count = s
    BY <2>1, <2>2
  <2>4. s * per = per * s
    BY <1>5, <2>1
  <2>5. names[s] = [i \in 1..per |-> (s % count) * per + i - 1]
    BY <1>4, <2>1 DEF distributeCollectionNames
  <2> QED
    BY <2>3, <2>4, <2>5, Zenon
<1>8. ASSUME NEW n \in 0 .. count - 1
      PROVE  Cardinality({p \in Scanners \X (1 .. count) :
                              p[2] \in DOMAIN names[p[1]] /\ names[p[1]][p[2]] = n}) = 1
  <2>1. n \in Nat
    OBVIOUS
  <2>2. PICK j \in Nat, i \in 0..(per - 1) : n = per * j + i
    BY <1>5, <2>1, Divided
  <2>3. j \in Scanners
    <3>1. ~(threads <= j)
      <4> SUFFICES ASSUME threads <= j PROVE FALSE
        OBVIOUS
      <4>1. per * threads <= per * j /\ per * threads = threads * per
        BY <1>5, TimesGrows
      <4>2. per * j \in Int
        BY <1>5, Times
      <4> QED
        BY <1>5, <2>2, <4>1, <4>2
    <3>2. j \in 0..(threads - 1)
      BY <3>1
    <3> QED
      BY <1>1, <3>2
  <2>4. per <= count
    <3>1. per * 1 <= per * threads /\ per * threads = threads * per /\ per * 1 = per
      BY <1>5, TimesGrows
    <3> QED
      BY <1>5, <3>1
  <2>5. PICK at1 : at1 = i + 1
    OBVIOUS
  <2>6. at1 \in 1..per /\ at1 \in 1..count /\ at1 - 1 = i
    BY <1>5, <2>4, <2>5
  <2>7. \A s \in Scanners : DOMAIN names[s] = 1..per /\ \A k \in 1..per : names[s][k] = per * s + k - 1
    BY <1>7
  <2>8. names[j][at1] = n
    <3>1. names[j][at1] = per * j + at1 - 1
      BY <2>3, <2>6, <2>7
    <3>2. per * j \in Int
      BY <1>5, Times
    <3> QED
      BY <2>2, <2>5, <3>1, <3>2
  <2>9. ASSUME NEW s \in Scanners, NEW k \in 1..per, names[s][k] = n
        PROVE  s = j /\ k = at1
    <3>1. PICK l \in 0..(per - 1) : l = k - 1 /\ k = l + 1
      <4>1. k - 1 \in 0..(per - 1) /\ k = (k - 1) + 1
        BY <1>5
      <4> QED
        BY <4>1
    <3>2. s \in Nat
      BY <1>1
    <3>3. per * s \in Int /\ names[s][k] = per * s + k - 1
      BY <1>5, <2>7, <3>2, Times
    <3>4. per * s + l = per * j + i
      BY <2>2, <2>9, <3>1, <3>3
    <3>5. s = j /\ l = i
      BY <1>5, <3>2, <3>4, OnePlace
    <3> QED
      BY <2>5, <3>1, <3>5
  <2>10. PICK pairs : pairs = {p \in Scanners \X (1 .. count) :
                              p[2] \in DOMAIN names[p[1]] /\ names[p[1]][p[2]] = n}
    OBVIOUS
  <2>11. <<j, at1>> \in pairs
    BY <2>3, <2>6, <2>7, <2>8, <2>10
  <2>12. \A p \in pairs : p = <<j, at1>>
    <3> SUFFICES ASSUME NEW p \in pairs PROVE p = <<j, at1>>
      OBVIOUS
    <3>1. PICK a \in Scanners, b \in 1..count : p = <<a, b>>
      BY <2>10
    <3>2. b \in DOMAIN names[a] /\ names[a][b] = n
      BY <2>10, <3>1
    <3>3. b \in 1..per
      BY <2>7, <3>2
    <3>4. a = j /\ b = at1
      BY <2>9, <3>2, <3>3
    <3> QED
      BY <3>1, <3>4
  <2>13. pairs = {<<j, at1>>}
    BY <2>11, <2>12
  <2>14. Cardinality({<<j, at1>>}) = 1
    BY FS_Singleton
  <2> QED
    BY <2>10, <2>13, <2>14
<1> QED
  BY <1>1, <1>2, <1>6, <1>8

\* Every phase of the schedule was checked when it was configured.
Configured ==
  /\ schedule \in Schedules
  /\ \A i \in DOMAIN schedule : ValidScan(schedule[i]) /\ Distributable(schedule[i])

\* ScanComplete: the collections a CollectionScanner generates are shared out,
\* each to one thread; a scan that is over has tried the collections of its
\* share once each and in order, whatever was thrown on the way, but for those
\* past its limit and, at a point in time, those of a database whose find had
\* failed; a snapshot or standard scan reads no document past its limits; and a
\* scan at a point in time reads at the time selected before.
THEOREM ScansAreComplete == ScannerSpec => []ScanComplete
<1>1. ScannerInit => ScanInv /\ Configured
  <2> SUFFICES ASSUME ScannerInit PROVE ScanInv /\ Configured
    OBVIOUS
  <2>1. Configured
    BY DEF ScannerInit, Configured
  <2>2. ASSUME NEW s \in Scanners
        PROVE  ScanOK(s)
    <3>1. /\ scan[s].at = "idle" /\ scan[s].docs = 0 /\ scan[s].size = 0 /\ scan[s].cursor = 0
          /\ scan[s].finished = FALSE /\ scan[s].tried = <<>>
      BY DEF ScannerInit, Idle
    <3> QED
      BY <3>1 DEF ScanOK, InScan
  <2> QED
    BY <2>1, <2>2 DEF Configured, ScanInv
<1>2. Configured /\ [ScannerNext]_scannerVars => Configured'
  <2> SUFFICES ASSUME Configured, [ScannerNext]_scannerVars PROVE Configured'
    OBVIOUS
  <2>1. UNCHANGED schedule
    <3>1. ASSUME NEW s \in Scanners, Reads(s)
          PROVE  UNCHANGED schedule
      BY <3>1 DEF Reads, ScanCollection, ScanThrows, CountCollection, Find, GetMore, FindThrows,
                  GetMoreThrows, ScanAgain
    <3>2. ASSUME NEW s \in Scanners,
                 SelectClusterTime(s) \/ SelectClusterTimeThrows(s) \/ BeginScan(s)
          PROVE  UNCHANGED schedule
      BY <3>2 DEF SelectClusterTime, SelectClusterTimeThrows, BeginScan
    <3>3. ASSUME NEW s \in Scanners, CommitScan(s) \/ ScannerDies(s) \/ EndScan(s)
          PROVE  UNCHANGED schedule
      BY <3>3 DEF CommitScan, ScannerDies, EndScan
    <3>4. ScannerTick \/ UNCHANGED scannerVars => UNCHANGED schedule
      BY DEF ScannerTick, scannerVars
    <3> QED
      BY <3>1, <3>2, <3>3, <3>4 DEF ScannerNext, Reads
  <2> QED
    BY <2>1 DEF Configured
<1>3. Configured => NamesShared
  <2> SUFFICES ASSUME Configured, NEW i \in DOMAIN schedule, schedule[i].generate
               PROVE  LET count == schedule[i].collectionCount
                          names == [s \in Scanners |-> distributeCollectionNames(count, Cardinality(Scanners), s)]
                      IN  \A n \in 0 .. count - 1 :
                             Cardinality({p \in Scanners \X (1 .. count) :
                                  p[2] \in DOMAIN names[p[1]] /\ names[p[1]][p[2]] = n}) = 1
    BY DEF NamesShared
  <2>1. IsPhase(schedule[i])
    BY ScannerAssumption DEF Configured, IsPhase
  <2>2. ValidScan(schedule[i]) /\ Distributable(schedule[i])
    BY DEF Configured
  <2> QED
    BY <2>1, <2>2, NamesAreShared
<1>4. ScanInv => EveryCollectionTried
  <2> SUFFICES ASSUME ScanInv, NEW s \in Scanners, Scanned(s)
               PROVE  LET tried == scan[s].tried  all == CollectionsOf(s)
                      IN  \E place \in [DOMAIN tried -> DOMAIN all] :
                            /\ \A k \in DOMAIN tried : tried[k] = all[place[k]]
                            /\ \A j, k \in DOMAIN tried : j < k => place[j] < place[k]
                            /\ \A i \in DOMAIN all : (\A k \in DOMAIN tried : place[k] # i) =>
                                \/ scan[s].finished /\ \A k \in DOMAIN tried : place[k] < i
                                \/ /\ all[i][1] \in scan[s].skipped
                                   /\ \E k \in DOMAIN tried : place[k] < i /\ all[place[k]][1] = all[i][1]
    BY DEF EveryCollectionTried
  <2>1. scan[s].at = "scan" /\ (scan[s].todo = <<>> \/ scan[s].finished)
    BY DEF Scanned
  <2>2. scan[s].phase \in DOMAIN schedule /\ Stands(Config(s), CollectionsOf(s), scan[s])
    BY <2>1 DEF ScanInv, ScanOK, InScan
  <2>3. IsSeq(CollectionsOf(s))
    BY <2>2, PhaseIs
  <2>4. Follows(CollectionsOf(s), scan[s].todo, scan[s].cursor, scan[s].tried, scan[s].skipped)
    BY <2>2 DEF Stands
  <2>5. TriedAll(CollectionsOf(s), scan[s].tried, scan[s].skipped, scan[s].finished)
    BY <2>1, <2>3, <2>4, FollowDone
  <2> QED
    BY <2>5, Zenon DEF TriedAll
<1>5. ScanInv => LimitKept
  BY DEF ScanInv, ScanOK, Stands, LimitOK, LimitKept
<1>6. ScanInv /\ Configured /\ ReadsAtSelectedTime => ScanComplete
  BY <1>3, <1>4, <1>5 DEF ScanComplete
<1> QED
  BY <1>1, <1>2, <1>6, ScanStart, ScansAreOK, ScansStand, SelectedTimeIsRead, PTL DEF ScannerSpec

-----------------------------------------------------------------------------
(* quiesce() and dbcheck(): what a walk over the cluster comes by.         *)

\* The hooks at which dropped collections are looked for.
AsksDropped == {"onBeforeReplSet", "onStandaloneMongod"}

Quiet(w) == \A h \in Range(w) : h.on \notin AsksDropped

\* The last hook of a walk at which they may be looked for.
Ends(w, h) == \E m \in 1..Len(w) : w[m] = h /\ \A k \in (m + 1)..Len(w) : w[k].on \notin AsksDropped

\* A walk of one hook.
LEMMA Single ==
  ASSUME NEW h
  PROVE  /\ IsSeq(<<h>>) /\ Len(<<h>>) = 1 /\ <<h>>[1] = h /\ Range(<<h>>) = {h}
         /\ Ends(<<h>>, h)
         /\ h.on \notin AsksDropped => Quiet(<<h>>)
<1>1. PICK w : w = <<h>>
  OBVIOUS
<1>2. w \in [1..1 -> {h}] /\ Len(w) = 1 /\ w[1] = h
  BY <1>1
<1>3. IsSeq(w)
  BY <1>2, SeqFrom
<1>4. Range(w) = {h}
  BY <1>2 DEF Range
<1>5. Ends(w, h)
  BY <1>2 DEF Ends
<1> QED
  BY <1>1, <1>2, <1>3, <1>4, <1>5 DEF Quiet

\* How two walks, one after the other, end.
LEMMA EndsJoined ==
  ASSUME NEW x, NEW y, IsSeq(x), IsSeq(y), NEW h
  PROVE  /\ Ends(y, h) => Ends(x \o y, h)
         /\ Ends(x, h) /\ Quiet(y) => Ends(x \o y, h)
         /\ Quiet(x) /\ Quiet(y) => Quiet(x \o y)
<1>1. PICK a \in Nat : a = Len(x)
  BY SeqFacts
<1>2. PICK b \in Nat : b = Len(y)
  BY SeqFacts
<1>3. PICK w : w = x \o y
  OBVIOUS
<1>4. /\ Len(w) = a + b /\ Range(w) = Range(x) \cup Range(y)
      /\ \A i \in 1..a : w[i] = x[i]
      /\ \A i \in 1..b : w[a + i] = y[i]
  BY <1>1, <1>2, <1>3, SeqJoined
<1>5. ASSUME Ends(y, h)
      PROVE  Ends(w, h)
  <2>1. PICK m \in 1..b : y[m] = h /\ \A k \in (m + 1)..b : y[k].on \notin AsksDropped
    BY <1>2, <1>5 DEF Ends
  <2>2. PICK n : n = a + m
    OBVIOUS
  <2>3. n \in 1..Len(w) /\ w[n] = h
    BY <1>1, <1>2, <1>4, <2>1, <2>2
  <2>4. ASSUME NEW k \in (n + 1)..Len(w)
        PROVE  w[k].on \notin AsksDropped
    <3>1. PICK j : j = k - a
      OBVIOUS
    <3>2. j \in (m + 1)..b /\ j \in 1..b /\ k = a + j
      BY <1>1, <1>2, <1>4, <2>2, <3>1
    <3> QED
      BY <1>4, <2>1, <3>2
  <2> QED
    BY <2>3, <2>4 DEF Ends
<1>6. ASSUME Ends(x, h), Quiet(y)
      PROVE  Ends(w, h)
  <2>1. PICK m \in 1..a : x[m] = h /\ \A k \in (m + 1)..a : x[k].on \notin AsksDropped
    BY <1>1, <1>6 DEF Ends
  <2>3. m \in 1..Len(w) /\ w[m] = h
    BY <1>1, <1>2, <1>4, <2>1
  <2>4. ASSUME NEW k \in (m + 1)..Len(w)
        PROVE  w[k].on \notin AsksDropped
    <3>1. CASE k <= a
      <4>1. k \in (m + 1)..a /\ k \in 1..a
        BY <1>1, <2>1, <3>1
      <4> QED
        BY <1>4, <2>1, <4>1
    <3>2. CASE k > a
      <4>1. PICK j : j = k - a
        OBVIOUS
      <4>2. j \in 1..b /\ k = a + j
        BY <1>1, <1>2, <1>4, <3>2, <4>1
      <4>3. w[k] = y[j] /\ y[j] \in Range(y)
        BY <1>2, <1>4, <4>2, SeqFacts
      <4> QED
        BY <1>6, <4>3 DEF Quiet
    <3> QED
      BY <1>1, <2>1, <3>1, <3>2
  <2> QED
    BY <2>3, <2>4 DEF Ends
<1>7. Quiet(x) /\ Quiet(y) => Quiet(w)
  BY <1>4 DEF Quiet
<1> QED
  BY <1>3, <1>5, <1>6, <1>7

\* What is walked over part by part, with a hook between two parts.
LEMMA Between ==
  ASSUME NEW walks, AllSeqs(walks), NEW b, b.on \notin AsksDropped
  PROVE  /\ IsSeq(WithBetween(walks, <<b>>))
         /\ \A i \in 1..Len(walks) : Range(walks[i]) \subseteq Range(WithBetween(walks, <<b>>))
         /\ (\A i \in 1..Len(walks) : Quiet(walks[i])) => Quiet(WithBetween(walks, <<b>>))
         /\ \A h : walks # <<>> /\ Ends(walks[Len(walks)], h) => Ends(WithBetween(walks, <<b>>), h)
<1>1. PICK n \in Nat : n = Len(walks) /\ DOMAIN walks = 1..n
  BY SeqFacts DEF AllSeqs
<1>2. PICK parts : parts = [i \in DOMAIN walks |-> (IF i = 1 THEN <<>> ELSE <<b>>) \o walks[i]]
  OBVIOUS
<1>3. DOMAIN parts = 1..n /\ \A i \in 1..n : parts[i] = (IF i = 1 THEN <<>> ELSE <<b>>) \o walks[i]
  BY <1>1, <1>2
<1>4. IsSeq(parts) /\ Len(parts) = n
  <2>1. parts \in [1..n -> Range(parts)]
    BY <1>1, <1>2, Zenon DEF Range
  <2> QED
    BY <2>1, SeqFrom
<1>5. IsSeq(<<b>>) /\ Quiet(<<b>>) /\ Range(<<b>>) = {b}
  BY Single
<1>6. ASSUME NEW i \in 1..n
      PROVE  /\ IsSeq(parts[i]) /\ Range(walks[i]) \subseteq Range(parts[i])
             /\ Quiet(walks[i]) => Quiet(parts[i])
             /\ \A h : Ends(walks[i], h) => Ends(parts[i], h)
  <2>1. IsSeq(walks[i])
    BY <1>1 DEF AllSeqs
  <2>2. CASE i = 1
    <3>1. <<>> \o walks[i] = walks[i]
      BY <2>1 DEF IsSeq
    <3>2. parts[i] = walks[i]
      BY <1>3, <2>2, <3>1
    <3> QED
      BY <2>1, <3>2
  <2>3. CASE i # 1
    <3>1. parts[i] = <<b>> \o walks[i]
      BY <1>3, <2>3
    <3>2. /\ IsSeq(<<b>> \o walks[i])
          /\ Range(<<b>> \o walks[i]) = Range(<<b>>) \cup Range(walks[i])
      BY <1>5, <2>1, SeqJoined
    <3>3. /\ \A h : Ends(walks[i], h) => Ends(<<b>> \o walks[i], h)
          /\ Quiet(walks[i]) => Quiet(<<b>> \o walks[i])
      BY <1>5, <2>1, EndsJoined
    <3> QED
      BY <3>1, <3>2, <3>3
  <2> QED
    BY <2>2, <2>3
<1>7. AllSeqs(parts)
  BY <1>4, <1>6 DEF AllSeqs
<1>8. PICK flat : flat = FlattenSeq(parts)
  OBVIOUS
<1>9. WithBetween(walks, <<b>>) = flat
  BY <1>2, <1>8 DEF WithBetween
<1>10. IsSeq(flat) /\ \A x : x \in Range(flat) <=> \E i \in 1..n : x \in Range(parts[i])
  BY <1>4, <1>7, <1>8, FlattenHas
<1>11. \A i \in 1..n : Range(walks[i]) \subseteq Range(flat)
  BY <1>6, <1>10
<1>12. (\A i \in 1..n : Quiet(walks[i])) => Quiet(flat)
  BY <1>6, <1>10 DEF Quiet
<1>13. ASSUME NEW h, walks # <<>>, Ends(walks[n], h)
       PROVE  Ends(flat, h)
  <2>1. n # 0 /\ n \in 1..n
    BY <1>1, <1>13, SeqFacts DEF AllSeqs
  <2>2. parts # <<>>
    BY <1>4, <2>1
  <2>3. Ends(parts[n], h) /\ IsSeq(parts[n])
    BY <1>6, <1>13, <2>1
  <2>4. flat = parts[n] \/ \E x : IsSeq(x) /\ flat = x \o parts[n]
    BY <1>4, <1>7, <1>8, <2>2, FlattenEnds
  <2>5. ASSUME NEW x, IsSeq(x)
        PROVE  Ends(x \o parts[n], h)
    BY <2>3, <2>5, EndsJoined
  <2> QED
    BY <2>3, <2>4, <2>5, Zenon
<1> QED
  BY <1>1, <1>9, <1>10, <1>11, <1>12, <1>13

\* What a set tells of itself.
LEMMA SetDescribed ==
  ASSUME NEW set, AnswersAsSet(set), set.setName # NoSet,
         NEW d, d = computeDataMemberConnectionStrings(set)
  PROVE  /\ d.is = IF set.setName \in configSetNames THEN "configSvr" ELSE "replSet"
         /\ d.primaryUri = set.hosts[1]
         /\ IsSeq(d.nodes) /\ d.nodes # <<>>
         /\ \A i \in 1..Len(d.nodes) : d.nodes[i].is = ClusterType(set.setName)
         /\ \A uri \in MembersOf(set) : \E i \in 1..Len(d.nodes) : d.nodes[i].uri = uri
<1>1. PICK members : members = set.hosts \o set.passives
  OBVIOUS
<1>2. IsSeq(set.hosts) /\ IsSeq(set.passives) /\ set.hosts # <<>>
  BY DEF AnswersAsSet, IsSeq
<1>3. IsSeq(members) /\ Range(members) = Range(set.hosts) \cup Range(set.passives)
  BY <1>1, <1>2, SeqJoined
<1>4. PICK n \in Nat : n = Len(members) /\ DOMAIN members = 1..n
  BY <1>3, SeqFacts
<1>5. PICK nodes : nodes = [i \in 1..n |-> Mongod(set.setName, members[i])]
  OBVIOUS
<1>6. /\ d.is = IF set.setName \in configSetNames THEN "configSvr" ELSE "replSet"
      /\ d.primaryUri = set.hosts[1]
      /\ d.nodes = nodes
  BY <1>1, <1>4, <1>5 DEF computeDataMemberConnectionStrings
<1>7. nodes \in [1..n -> Range(nodes)]
  BY <1>5, Zenon DEF Range
<1>8. IsSeq(nodes) /\ Len(nodes) = n
  BY <1>7, SeqFrom
<1>9. \A i \in 1..n : nodes[i].is = ClusterType(set.setName) /\ nodes[i].uri = members[i]
  BY <1>5 DEF Mongod
<1>10. n # 0
  <2>1. Range(members) # {}
    BY <1>2, <1>3, SeqFacts
  <2> QED
    BY <1>3, <1>4, <2>1, SeqFacts
<1>11. nodes # <<>>
  BY <1>8, <1>10
<1>12. \A uri \in MembersOf(set) : \E i \in 1..n : nodes[i].uri = uri
  <2>1. \A uri \in Range(members) : \E i \in 1..n : uri = members[i]
    BY <1>3, <1>4, SeqFacts
  <2> QED
    BY <1>3, <1>9, <2>1 DEF MembersOf
<1> QED
  BY <1>6, <1>8, <1>9, <1>11, <1>12

\* The hook of a mongod of a set.
OnMongod(type) == IF type = "replSetMember" THEN "onReplSetMongod" ELSE "onConfigSvrMongod"

AllAre(nodes, type) ==
  IsSeq(nodes) /\ type # "standalone" /\ \A i \in 1..Len(nodes) : nodes[i].is = type

AllMet(w, nodes, type) ==
  /\ IsSeq(w) /\ Quiet(w)
  /\ \A i \in 1..Len(nodes) : \E h \in Range(w) : h.on = OnMongod(type) /\ h.desc = nodes[i]

\* The walk over the members of a set comes by each of them.
LEMMA NodesWalked ==
  ASSUME NEW desc, NEW nodes, nodes = desc.nodes, NEW type, AllAre(nodes, type)
  PROVE  AllMet(AcceptNodes(desc), nodes, type)
<1>0. IsSeq(nodes) /\ type # "standalone" /\ \A i \in 1..Len(nodes) : nodes[i].is = type
  BY DEF AllAre
<1>1. PICK n \in Nat : n = Len(nodes) /\ DOMAIN nodes = 1..n
  BY <1>0, SeqFacts
<1>2. PICK walks : walks = [i \in 1..n |-> AcceptMongod(nodes[i])]
  OBVIOUS
<1>3. walks \in [1..n -> Range(walks)]
  BY <1>2, Zenon DEF Range
<1>4. IsSeq(walks) /\ Len(walks) = n
  BY <1>3, SeqFrom
<1>5. ASSUME NEW i \in 1..n
      PROVE  /\ IsSeq(walks[i]) /\ Quiet(walks[i])
             /\ \E h \in Range(walks[i]) : h.on = OnMongod(type) /\ h.desc = nodes[i]
  <2>1. PICK h : h = [on |-> OnMongod(type), desc |-> nodes[i]]
    OBVIOUS
  <2>2. walks[i] = <<h>>
    BY <1>0, <1>1, <1>2, <2>1 DEF AcceptMongod, Hook, OnMongod
  <2>3. h.on = OnMongod(type) /\ h.desc = nodes[i] /\ h.on \notin AsksDropped
    BY <2>1 DEF OnMongod, AsksDropped
  <2>4. IsSeq(<<h>>) /\ Quiet(<<h>>) /\ h \in Range(<<h>>)
    BY <2>3, Single
  <2> QED
    BY <2>2, <2>3, <2>4
<1>6. AllSeqs(walks)
  BY <1>4, <1>5 DEF AllSeqs
<1>7. PICK b : b = [on |-> "onBetweenMongods", desc |-> desc]
  OBVIOUS
<1>8. b.on \notin AsksDropped /\ Hook("onBetweenMongods", desc) = <<b>>
  BY <1>7 DEF AsksDropped, Hook
<1>9. AcceptNodes(desc) = WithBetween(walks, <<b>>)
  BY <1>1, <1>2, <1>8 DEF AcceptNodes
<1>10. /\ IsSeq(WithBetween(walks, <<b>>))
       /\ \A i \in 1..Len(walks) : Range(walks[i]) \subseteq Range(WithBetween(walks, <<b>>))
       /\ (\A i \in 1..Len(walks) : Quiet(walks[i])) => Quiet(WithBetween(walks, <<b>>))
  BY <1>6, <1>8, Between
<1> QED
  BY <1>1, <1>4, <1>5, <1>9, <1>10 DEF AllMet

\* The walk over a set: first the set, then its members.
Walked(w, set, on) ==
  \A uri \in MembersOf(set) : \E h \in Range(w) : h.on = on /\ h.desc.uri = uri

LEMMA ReplSetWalked ==
  ASSUME NEW set, AnswersAsSet(set), ClusterType(set.setName) = "replSetMember",
         NEW d, d = computeDataMemberConnectionStrings(set),
         NEW first, first = [on |-> "onBeforeReplSet", desc |-> d]
  PROVE  /\ IsSeq(AcceptReplSet(d)) /\ first \in Range(AcceptReplSet(d))
         /\ Ends(AcceptReplSet(d), first)
         /\ Walked(AcceptReplSet(d), set, "onReplSetMongod")
         /\ d.is = "replSet" /\ d.primaryUri = set.hosts[1]
<1>1. set.setName # NoSet /\ set.setName \notin configSetNames
  BY DEF ClusterType
<1>2. /\ d.is = "replSet" /\ d.primaryUri = set.hosts[1]
      /\ IsSeq(d.nodes)
      /\ \A i \in 1..Len(d.nodes) : d.nodes[i].is = "replSetMember"
      /\ \A uri \in MembersOf(set) : \E i \in 1..Len(d.nodes) : d.nodes[i].uri = uri
  BY <1>1, SetDescribed
<1>3. PICK nodes : nodes = d.nodes
  OBVIOUS
<1>4. PICK mid : mid = AcceptNodes(d)
  OBVIOUS
<1>5. /\ IsSeq(mid) /\ Quiet(mid)
      /\ \A i \in 1..Len(nodes) : \E h \in Range(mid) : h.on = OnMongod("replSetMember") /\ h.desc = nodes[i]
  <2>1. AllAre(nodes, "replSetMember")
    BY <1>2, <1>3 DEF AllAre
  <2>2. AllMet(mid, nodes, "replSetMember")
    BY <1>3, <1>4, <2>1, NodesWalked
  <2> QED
    BY <2>2 DEF AllMet
<1>6. PICK last : last = [on |-> "onAfterReplSet", desc |-> d]
  OBVIOUS
<1>7. AcceptReplSet(d) = (<<first>> \o mid) \o <<last>>
  BY <1>4, <1>6 DEF AcceptReplSet, Hook
<1>8. IsSeq(<<first>>) /\ Range(<<first>>) = {first} /\ Ends(<<first>>, first)
  BY Single
<1>9. last.on \notin AsksDropped
  BY <1>6 DEF AsksDropped
<1>10. IsSeq(<<last>>) /\ Quiet(<<last>>)
  BY <1>9, Single
<1>11. PICK w : w = <<first>> \o mid
  OBVIOUS
<1>12. IsSeq(w) /\ Range(w) = {first} \cup Range(mid)
  BY <1>5, <1>8, <1>11, SeqJoined
<1>13. Ends(w, first)
  BY <1>5, <1>8, <1>11, EndsJoined
<1>14. IsSeq(w \o <<last>>) /\ Range(w \o <<last>>) = Range(w) \cup Range(<<last>>)
  BY <1>10, <1>12, SeqJoined
<1>15. Ends(w \o <<last>>, first)
  BY <1>10, <1>12, <1>13, EndsJoined
<1>16. PICK all : all = AcceptReplSet(d)
  OBVIOUS
<1>17. all = w \o <<last>>
  BY <1>7, <1>11, <1>16
<1>18. Range(mid) \subseteq Range(all) /\ first \in Range(all)
  BY <1>12, <1>14, <1>17
<1>19. Walked(all, set, "onReplSetMongod")
  BY <1>2, <1>3, <1>5, <1>18 DEF Walked, OnMongod
<1> QED
  BY <1>2, <1>14, <1>15, <1>16, <1>17, <1>18, <1>19

\* The walk over a config server comes by its members.
LEMMA ConfigWalked ==
  ASSUME NEW set, AnswersAsSet(set), set.setName \in configSetNames,
         NEW d, d = computeDataMemberConnectionStrings(set)
  PROVE  /\ IsSeq(AcceptConfigSvr(d))
         /\ Walked(AcceptConfigSvr(d), set, "onConfigSvrMongod")
         /\ d.is = "configSvr"
<1>1. set.setName # NoSet /\ ClusterType(set.setName) = "configSvrMember"
  BY DEF ClusterType, configSetNames, NoSet
<1>2. /\ d.is = "configSvr"
      /\ IsSeq(d.nodes) /\ d.nodes # <<>>
      /\ \A i \in 1..Len(d.nodes) : d.nodes[i].is = "configSvrMember"
      /\ \A uri \in MembersOf(set) : \E i \in 1..Len(d.nodes) : d.nodes[i].uri = uri
  BY <1>1, SetDescribed
<1>3. PICK nodes : nodes = d.nodes
  OBVIOUS
<1>4. PICK mid : mid = AcceptNodes(d)
  OBVIOUS
<1>5. /\ IsSeq(mid) /\ Quiet(mid)
      /\ \A i \in 1..Len(nodes) : \E h \in Range(mid) : h.on = OnMongod("configSvrMember") /\ h.desc = nodes[i]
  <2>1. AllAre(nodes, "configSvrMember")
    BY <1>2, <1>3 DEF AllAre
  <2>2. AllMet(mid, nodes, "configSvrMember")
    BY <1>3, <1>4, <2>1, NodesWalked
  <2> QED
    BY <2>2 DEF AllMet
<1>6. PICK first : first = [on |-> "onBeforeConfigSvr", desc |-> d]
  OBVIOUS
<1>7. PICK last : last = [on |-> "onAfterConfigSvr", desc |-> d]
  OBVIOUS
<1>8. PICK all : all = AcceptConfigSvr(d)
  OBVIOUS
<1>9. all = (<<first>> \o mid) \o <<last>>
  BY <1>2, <1>4, <1>6, <1>7, <1>8 DEF AcceptConfigSvr, Hook
<1>10. IsSeq(<<first>>) /\ IsSeq(<<last>>)
  BY Single
<1>11. PICK w : w = <<first>> \o mid
  OBVIOUS
<1>12. IsSeq(w) /\ Range(mid) \subseteq Range(w)
  BY <1>5, <1>10, <1>11, SeqJoined
<1>13. IsSeq(all) /\ Range(w) \subseteq Range(all)
  BY <1>9, <1>10, <1>11, <1>12, SeqJoined
<1>14. Walked(all, set, "onConfigSvrMongod")
  BY <1>2, <1>3, <1>5, <1>12, <1>13 DEF Walked, OnMongod
<1> QED
  BY <1>2, <1>8, <1>13, <1>14

\* A walk that has a part of it, and ends as it.
Takes(w, x) == IsSeq(w) /\ Range(x) \subseteq Range(w) /\ \A h : Ends(x, h) => Ends(w, h)

\* Two walks joined take the second, and the first when the second asks nothing.
LEMMA TakesJoined ==
  ASSUME NEW x, NEW y, IsSeq(x), IsSeq(y)
  PROVE  /\ Takes(x \o y, y)
         /\ Quiet(y) => Takes(x \o y, x)
         /\ Range(x) \subseteq Range(x \o y)
<1>1. /\ IsSeq(x \o y) /\ Range(x \o y) = Range(x) \cup Range(y)
      /\ \A h : Ends(y, h) => Ends(x \o y, h)
  BY SeqJoined, EndsJoined
<1>2. Quiet(y) => \A h : Ends(x, h) => Ends(x \o y, h)
  BY EndsJoined
<1> QED
  BY <1>1, <1>2 DEF Takes

\* A hook that asks nothing may be put before a walk or after it.
LEMMA TakesHook ==
  ASSUME NEW x, IsSeq(x), NEW name, name \notin AsksDropped, NEW desc
  PROVE  IsSeq(Hook(name, desc)) /\ Takes(x \o Hook(name, desc), x) /\ Takes(Hook(name, desc) \o x, x)
<1>1. PICK h : h = [on |-> name, desc |-> desc]
  OBVIOUS
<1>2. Hook(name, desc) = <<h>> /\ h.on \notin AsksDropped
  BY <1>1 DEF Hook
<1>3. IsSeq(<<h>>) /\ Quiet(<<h>>)
  BY <1>2, Single
<1>4. Takes(x \o <<h>>, x) /\ Takes(<<h>> \o x, x)
  BY <1>3, TakesJoined
<1> QED
  BY <1>2, <1>3, <1>4

\* What a part takes, the whole takes.
LEMMA TakesOn ==
  ASSUME NEW w, NEW x, NEW y, Takes(w, x), Takes(x, y)
  PROVE  Takes(w, y)
  BY DEF Takes

\* The walk over the topology takes that over its kind.
LEMMA AcceptTakes ==
  ASSUME NEW desc, NEW mid, IsSeq(mid),
         mid = CASE desc.is = "sharded" -> AcceptSharded(desc)
                 [] desc.is = "configSvr" -> AcceptConfigSvr(desc)
                 [] desc.is = "replSet" -> AcceptReplSet(desc)
                 [] OTHER -> AcceptMongod(desc)
  PROVE  Takes(accept(desc), mid)
<1>1. PICK before : before = Hook("onBeforeTopology", desc)
  OBVIOUS
<1>2. PICK after : after = Hook("onAfterTopology", desc)
  OBVIOUS
<1>3. "onBeforeTopology" \notin AsksDropped /\ "onAfterTopology" \notin AsksDropped
  BY DEF AsksDropped
<1>4. Takes(before \o mid, mid)
  BY <1>1, <1>3, TakesHook
<1>5. IsSeq(before \o mid)
  BY <1>4 DEF Takes
<1>6. Takes((before \o mid) \o after, before \o mid)
  BY <1>2, <1>3, <1>5, TakesHook
<1>7. accept(desc) = (before \o mid) \o after
  BY <1>1, <1>2 DEF accept
<1>8. Takes((before \o mid) \o after, mid)
  BY <1>4, <1>6, TakesOn
<1> QED
  BY <1>7, <1>8

\* A retriever that has met what it is to retrieve last has that.
LEMMA RetrieveLast ==
  ASSUME NEW servers, IsSeq(servers), servers # <<>>, NEW kind,
         NEW last, last = servers[Len(servers)],
         computeDataMemberConnectionStrings(last).is = kind
  PROVE  Retrieve(kind, servers) = computeDataMemberConnectionStrings(last)
<1>1. PICK n \in Nat : n = Len(servers) /\ DOMAIN servers = 1..n /\ n # 0
  BY SeqFacts
<1>2. PICK met : met = {i \in DOMAIN servers : computeDataMemberConnectionStrings(servers[i]).is = kind}
  OBVIOUS
<1>3. n \in met /\ met \subseteq 1..n
  BY <1>1, <1>2
<1>4. PICK m : m = Max(met)
  OBVIOUS
<1>5. \E x \in met : \A y \in met : x >= y
  BY <1>1, <1>3
<1>6. m \in met /\ \A y \in met : m >= y
  BY <1>4, <1>5 DEF Max
<1>7. m = n
  BY <1>1, <1>3, <1>6
<1> QED
  BY <1>1, <1>2, <1>3, <1>4, <1>7 DEF Retrieve

\* The walk over the shards ends with the last of them.
LEMMA ShardsWalked ==
  ASSUME NEW server \in Clusters, server.isMongos, NamesKnown(server),
         NEW desc, desc = findConnectedNodesViaMongos(server),
         NEW w, w = WithBetween([i \in DOMAIN desc.shards |-> AcceptReplSet(desc.shards[i])],
                                Hook("onBetweenShards", desc))
  PROVE  /\ IsSeq(w)
         /\ \A set \in Range(server.shards) :
               /\ \E h \in Range(w) : h.on = "onBeforeReplSet" /\ h.desc.primaryUri = set.hosts[1]
               /\ Walked(w, set, "onReplSetMongod")
         /\ \E h : Ends(w, h) /\ h.on = "onBeforeReplSet" /\ h.desc.primaryUri = Last(server.shards).hosts[1]
<1>1. /\ IsSeq(server.shards) /\ server.shards # <<>>
      /\ \A set \in Range(server.shards) : AnswersAsSet(set) /\ ClusterType(set.setName) = "replSetMember"
  BY ClustersAssumption DEF NamesKnown, IsSeq
<1>2. PICK sets : sets = server.shards
  OBVIOUS
<1>3. PICK n \in Nat : /\ n = Len(sets) /\ DOMAIN sets = 1..n /\ n # 0
                       /\ \A i \in 1..n : sets[i] \in Range(sets)
                       /\ \A x \in Range(sets) : \E i \in 1..n : x = sets[i]
  <2>1. IsSeq(sets) /\ sets # <<>>
    BY <1>1, <1>2
  <2>2. /\ Len(sets) \in Nat /\ DOMAIN sets = 1..Len(sets) /\ Len(sets) # 0
        /\ \A i \in 1..Len(sets) : sets[i] \in Range(sets)
        /\ \A x \in Range(sets) : \E i \in 1..Len(sets) : x = sets[i]
    BY <2>1, SeqFacts
  <2> QED
    BY <2>2, Zenon
<1>4. ASSUME NEW i \in 1..n
      PROVE  Retrieve("replSet", SubSeq(sets, 1, i)) = computeDataMemberConnectionStrings(sets[i])
  <2>1. PICK T : T = Range(sets)
    OBVIOUS
  <2>2. sets \in Seq(T)
    BY <1>1, <1>2, <2>1 DEF IsSeq
  <2>3. PICK front : front = SubSeq(sets, 1, i)
    OBVIOUS
  <2>0. i \in 1..Len(sets) /\ i \in Nat
    BY <1>3
  <2>10. front \in Seq(T) /\ Len(front) = i /\ \A k \in 1..i : front[k] = sets[k]
    BY <2>0, <2>2, <2>3
  <2>4. front \in [1..i -> T] /\ Len(front) = i /\ front[i] = sets[i]
    BY <2>0, <2>10
  <2>5. IsSeq(front) /\ front # <<>>
    <3>1. i \in Nat /\ i # 0
      BY <1>3
    <3>2. IsSeq(front)
      BY <2>4, <3>1, SeqFrom
    <3> QED
      BY <2>4, <3>1, <3>2
  <2>6. computeDataMemberConnectionStrings(sets[i]).is = "replSet"
    <3>1. PICK set : set = sets[i]
      OBVIOUS
    <3>2. AnswersAsSet(set) /\ ClusterType(set.setName) = "replSetMember"
      BY <1>1, <1>2, <1>3, <3>1
    <3>3. PICK d : d = computeDataMemberConnectionStrings(set)
      OBVIOUS
    <3>4. PICK first : first = [on |-> "onBeforeReplSet", desc |-> d]
      OBVIOUS
    <3>5. d.is = "replSet"
      BY <3>2, <3>3, <3>4, ReplSetWalked
    <3> QED
      BY <3>1, <3>3, <3>5
  <2>7. PICK last : last = front[Len(front)]
    OBVIOUS
  <2>8. last = sets[i]
    BY <2>4, <2>7
  <2>9. Retrieve("replSet", front) = computeDataMemberConnectionStrings(last)
    BY <2>5, <2>6, <2>7, <2>8, RetrieveLast
  <2> QED
    BY <2>3, <2>8, <2>9
<1>5. DOMAIN desc.shards = 1..n /\ \A i \in 1..n : desc.shards[i] = computeDataMemberConnectionStrings(sets[i])
  <2>1. desc.shards = [i \in DOMAIN sets |-> Retrieve("replSet", SubSeq(sets, 1, i))]
    BY <1>2 DEF findConnectedNodesViaMongos
  <2> QED
    BY <1>3, <1>4, <2>1
<1>6. PICK walks : walks = [i \in 1..n |-> AcceptReplSet(desc.shards[i])]
  OBVIOUS
<1>7. walks \in [1..n -> Range(walks)]
  BY <1>6, Zenon DEF Range
<1>8. IsSeq(walks) /\ Len(walks) = n
  BY <1>7, SeqFrom
<1>9. ASSUME NEW i \in 1..n
      PROVE  /\ IsSeq(walks[i])
             /\ \E h \in Range(walks[i]) :
                   h.on = "onBeforeReplSet" /\ h.desc.primaryUri = sets[i].hosts[1] /\ Ends(walks[i], h)
             /\ Walked(walks[i], sets[i], "onReplSetMongod")
  <2>1. PICK d : d = computeDataMemberConnectionStrings(sets[i])
    OBVIOUS
  <2>2. PICK first : first = [on |-> "onBeforeReplSet", desc |-> d]
    OBVIOUS
  <2>3. /\ IsSeq(AcceptReplSet(d)) /\ first \in Range(AcceptReplSet(d))
        /\ Ends(AcceptReplSet(d), first)
        /\ Walked(AcceptReplSet(d), sets[i], "onReplSetMongod")
        /\ d.primaryUri = sets[i].hosts[1]
    BY <1>1, <1>2, <1>3, <2>1, <2>2, ReplSetWalked
  <2>4. walks[i] = AcceptReplSet(d) /\ first.on = "onBeforeReplSet" /\ first.desc = d
    BY <1>5, <1>6, <2>1, <2>2
  <2> QED
    BY <2>3, <2>4
<1>10. AllSeqs(walks)
  BY <1>8, <1>9 DEF AllSeqs
<1>11. PICK b : b = [on |-> "onBetweenShards", desc |-> desc]
  OBVIOUS
<1>12. b.on \notin AsksDropped /\ Hook("onBetweenShards", desc) = <<b>>
  BY <1>11 DEF AsksDropped, Hook
<1>13. w = WithBetween(walks, <<b>>)
  BY <1>5, <1>6, <1>12
<1>14. /\ IsSeq(w)
       /\ \A i \in 1..n : Range(walks[i]) \subseteq Range(w)
       /\ \A h : walks # <<>> /\ Ends(walks[n], h) => Ends(w, h)
  BY <1>8, <1>10, <1>12, <1>13, Between
<1>15. ASSUME NEW set \in Range(sets)
       PROVE  /\ \E h \in Range(w) : h.on = "onBeforeReplSet" /\ h.desc.primaryUri = set.hosts[1]
              /\ Walked(w, set, "onReplSetMongod")
  <2>1. PICK i \in 1..n : set = sets[i]
    BY <1>3
  <2>2. /\ \E h \in Range(walks[i]) : h.on = "onBeforeReplSet" /\ h.desc.primaryUri = set.hosts[1]
        /\ Walked(walks[i], set, "onReplSetMongod")
    BY <1>9, <2>1
  <2>3. Range(walks[i]) \subseteq Range(w)
    BY <1>14
  <2> QED
    BY <2>2, <2>3 DEF Walked
<1>16. \E h : Ends(w, h) /\ h.on = "onBeforeReplSet" /\ h.desc.primaryUri = Last(sets).hosts[1]
  <2>1. n \in 1..n /\ walks # <<>>
    BY <1>3, <1>8
  <2>2. PICK h : h.on = "onBeforeReplSet" /\ h.desc.primaryUri = sets[n].hosts[1] /\ Ends(walks[n], h)
    BY <1>9, <2>1
  <2>3. Last(sets) = sets[n]
    BY <1>3 DEF Last
  <2> QED
    BY <1>14, <2>1, <2>2, <2>3
<1> QED
  BY <1>2, <1>14, <1>15, <1>16

\* The server a hook asks for dropped collections, and the last one of the
\* cluster to be asked.
UriAsked(h) == IF h.on = "onBeforeReplSet" THEN h.desc.primaryUri ELSE h.desc.uri

LastAsked(server) == IF server.isMongos THEN Last(server.shards).hosts[1] ELSE server.hosts[1]

OnSynced == {"onStandaloneMongod", "onReplSetMongod", "onConfigSvrMongod"}

\* A walk that comes by every set and every mongod of the cluster.
CoversServer(server, w) ==
  /\ IsSeq(w)
  /\ \A set \in ReplSetsOf(server) :
        /\ \E h \in Range(w) : h.on = "onBeforeReplSet" /\ h.desc.primaryUri = set.hosts[1]
        /\ Walked(w, set, "onReplSetMongod")
  /\ \A uri \in MongodsOf(server) : \E h \in Range(w) : h.on \in OnSynced /\ h.desc.uri = uri
  /\ \E h : Ends(w, h) /\ h.on \in AsksDropped /\ UriAsked(h) = LastAsked(server)

\* A walk that takes one that covers the cluster covers it.
LEMMA CoversTaken ==
  ASSUME NEW server, NEW x, CoversServer(server, x), NEW w, Takes(w, x)
  PROVE  CoversServer(server, w)
<1>1. IsSeq(w) /\ Range(x) \subseteq Range(w) /\ \A h : Ends(x, h) => Ends(w, h)
  BY DEF Takes
<1>2. ASSUME NEW set \in ReplSetsOf(server)
      PROVE  /\ \E h \in Range(w) : h.on = "onBeforeReplSet" /\ h.desc.primaryUri = set.hosts[1]
             /\ Walked(w, set, "onReplSetMongod")
  BY <1>1 DEF CoversServer, Walked
<1>3. \A uri \in MongodsOf(server) : \E h \in Range(w) : h.on \in OnSynced /\ h.desc.uri = uri
  BY <1>1 DEF CoversServer
<1>4. \E h : Ends(w, h) /\ h.on \in AsksDropped /\ UriAsked(h) = LastAsked(server)
  BY <1>1 DEF CoversServer
<1> QED
  BY <1>1, <1>2, <1>3, <1>4 DEF CoversServer

\* A mongod on its own is one hook.
LEMMA StandaloneCovered ==
  ASSUME NEW server \in Clusters, ~server.isMongos, server.setName = NoSet,
         NEW desc, desc = computeDataMemberConnectionStrings(server)
  PROVE  desc.is = "standalone" /\ CoversServer(server, AcceptMongod(desc))
<1>1. AnswersAsSet(server)
  BY ClustersAssumption
<1>2. desc.is = "standalone" /\ desc.uri = server.hosts[1]
  <2>1. desc = Mongod(NoSet, server.hosts[1])
    BY DEF computeDataMemberConnectionStrings
  <2>2. ClusterType(NoSet) = "standalone"
    BY DEF ClusterType, NoSet, configSetNames
  <2> QED
    BY <2>1, <2>2 DEF Mongod
<1>3. PICK h : h = [on |-> "onStandaloneMongod", desc |-> desc]
  OBVIOUS
<1>4. AcceptMongod(desc) = <<h>>
  BY <1>2, <1>3 DEF AcceptMongod, Hook
<1>5. h.on = "onStandaloneMongod" /\ h.desc = desc
  BY <1>3
<1>6. IsSeq(<<h>>) /\ Range(<<h>>) = {h} /\ Ends(<<h>>, h)
  BY Single
<1>7. ReplSetsOf(server) = {}
  BY DEF ReplSetsOf, SetsOf, ClusterType
<1>8. MongodsOf(server) = {server.hosts[1]}
  <2>1. IsSeq(server.hosts) /\ Len(server.hosts) = 1 /\ server.passives = <<>>
    BY <1>1 DEF AnswersAsSet, IsSeq
  <2>2. IsSeq(<<>>) /\ Range(<<>>) = {}
    BY DEF IsSeq, Range
  <2>3. PICK hosts : hosts = server.hosts
    OBVIOUS
  <2>4. DOMAIN hosts = 1..1
    BY <2>1, <2>3, SeqFacts
  <2>5. Range(hosts) = {hosts[1]}
    BY <2>4 DEF Range
  <2>6. MembersOf(server) = {server.hosts[1]}
    BY <2>1, <2>2, <2>3, <2>5 DEF MembersOf
  <2> QED
    BY <2>6 DEF MongodsOf, SetsOf
<1>9. UriAsked(h) = LastAsked(server) /\ h.on \in AsksDropped /\ h.on \in OnSynced
  BY <1>2, <1>5 DEF UriAsked, LastAsked, AsksDropped, OnSynced
<1>10. CoversServer(server, <<h>>)
  BY <1>2, <1>5, <1>6, <1>7, <1>8, <1>9 DEF CoversServer
<1> QED
  BY <1>2, <1>4, <1>10

\* A replica set that is asked directly.
LEMMA ReplSetCovered ==
  ASSUME NEW server \in Clusters, ~server.isMongos, ClusterType(server.setName) = "replSetMember",
         NEW desc, desc = computeDataMemberConnectionStrings(server)
  PROVE  desc.is = "replSet" /\ CoversServer(server, AcceptReplSet(desc))
<1>1. AnswersAsSet(server)
  BY ClustersAssumption
<1>2. PICK first : first = [on |-> "onBeforeReplSet", desc |-> desc]
  OBVIOUS
<1>3. PICK w : w = AcceptReplSet(desc)
  OBVIOUS
<1>4. /\ IsSeq(w) /\ first \in Range(w) /\ Ends(w, first)
      /\ Walked(w, server, "onReplSetMongod")
      /\ desc.is = "replSet" /\ desc.primaryUri = server.hosts[1]
  BY <1>1, <1>2, <1>3, ReplSetWalked
<1>5. first.on = "onBeforeReplSet" /\ first.desc = desc
  BY <1>2
<1>6. ReplSetsOf(server) = {server} /\ MongodsOf(server) = MembersOf(server)
  BY DEF ReplSetsOf, SetsOf, MongodsOf
<1>7. UriAsked(first) = LastAsked(server) /\ first.on \in AsksDropped
  BY <1>4, <1>5 DEF UriAsked, LastAsked, AsksDropped
<1>8. \A uri \in MongodsOf(server) : \E h \in Range(w) : h.on \in OnSynced /\ h.desc.uri = uri
  BY <1>4, <1>6 DEF Walked, OnSynced
<1>9. CoversServer(server, w)
  BY <1>4, <1>5, <1>6, <1>7, <1>8 DEF CoversServer
<1> QED
  BY <1>3, <1>4, <1>9

\* The walk over the mongoses asks nothing.
LEMMA MongosesWalked ==
  ASSUME NEW mongoses, IsSeq(mongoses), NEW desc,
         NEW w, w = WithBetween([i \in DOMAIN mongoses |-> Hook("onMongos", mongoses[i])],
                                Hook("onBetweenMongoses", desc))
  PROVE  IsSeq(w) /\ Quiet(w)
<1>1. PICK n \in Nat : n = Len(mongoses) /\ DOMAIN mongoses = 1..n
  BY SeqFacts
<1>2. PICK walks : walks = [i \in 1..n |-> Hook("onMongos", mongoses[i])]
  OBVIOUS
<1>3. walks \in [1..n -> Range(walks)]
  BY <1>2, Zenon DEF Range
<1>4. IsSeq(walks) /\ Len(walks) = n
  BY <1>3, SeqFrom
<1>5. ASSUME NEW i \in 1..n
      PROVE  IsSeq(walks[i]) /\ Quiet(walks[i])
  <2>1. PICK h : h = [on |-> "onMongos", desc |-> mongoses[i]]
    OBVIOUS
  <2>2. walks[i] = <<h>> /\ h.on \notin AsksDropped
    BY <1>2, <2>1 DEF Hook, AsksDropped
  <2> QED
    BY <2>2, Single
<1>6. AllSeqs(walks)
  BY <1>4, <1>5 DEF AllSeqs
<1>7. PICK b : b = [on |-> "onBetweenMongoses", desc |-> desc]
  OBVIOUS
<1>8. b.on \notin AsksDropped /\ Hook("onBetweenMongoses", desc) = <<b>>
  BY <1>7 DEF AsksDropped, Hook
<1>9. w = WithBetween(walks, <<b>>)
  BY <1>1, <1>2, <1>8
<1>10. IsSeq(w) /\ ((\A i \in 1..n : Quiet(walks[i])) => Quiet(w))
  BY <1>4, <1>6, <1>8, <1>9, Between
<1> QED
  BY <1>5, <1>10

\* A sharded cluster: its config server, then its shards, then its mongoses.
LEMMA ShardedCovered ==
  ASSUME NEW server \in Clusters, server.isMongos, NamesKnown(server),
         NEW desc, desc = findConnectedNodesViaMongos(server)
  PROVE  desc.is = "sharded" /\ CoversServer(server, AcceptSharded(desc))
<1>1. /\ AnswersAsSet(server.config) /\ server.config.setName \in configSetNames
      /\ IsSeq(server.mongoses)
  BY ClustersAssumption DEF NamesKnown, IsSeq
<1>2. /\ desc.is = "sharded" /\ desc.mongoses = server.mongoses
      /\ desc.configsvr = Retrieve("configSvr", <<server.config>>)
  BY DEF findConnectedNodesViaMongos
<1>3. PICK d : d = computeDataMemberConnectionStrings(server.config)
  OBVIOUS
<1>4. PICK config : config = AcceptConfigSvr(d)
  OBVIOUS
<1>5. IsSeq(config) /\ Walked(config, server.config, "onConfigSvrMongod") /\ d.is = "configSvr"
  BY <1>1, <1>3, <1>4, ConfigWalked
<1>6. AcceptConfigSvr(desc.configsvr) = config
  <2>1. PICK one : one = <<server.config>>
    OBVIOUS
  <2>2. IsSeq(one) /\ Len(one) = 1 /\ one[1] = server.config
    BY <2>1, Single
  <2>3. one # <<>> /\ one[Len(one)] = server.config
    BY <2>1, <2>2
  <2>4. Retrieve("configSvr", one) = d
    BY <1>3, <1>5, <2>2, <2>3, RetrieveLast
  <2> QED
    BY <1>2, <1>4, <2>1, <2>4
<1>7. PICK shards : shards = WithBetween([i \in DOMAIN desc.shards |-> AcceptReplSet(desc.shards[i])],
                                Hook("onBetweenShards", desc))
  OBVIOUS
<1>8. /\ IsSeq(shards)
      /\ \A set \in Range(server.shards) :
               /\ \E h \in Range(shards) : h.on = "onBeforeReplSet" /\ h.desc.primaryUri = set.hosts[1]
               /\ Walked(shards, set, "onReplSetMongod")
      /\ \E h : Ends(shards, h) /\ h.on = "onBeforeReplSet" /\ h.desc.primaryUri = Last(server.shards).hosts[1]
  BY <1>7, ShardsWalked
<1>9. PICK mongoses : mongoses = WithBetween([i \in DOMAIN desc.mongoses |-> Hook("onMongos", desc.mongoses[i])],
                                Hook("onBetweenMongoses", desc))
  OBVIOUS
<1>10. IsSeq(mongoses) /\ Quiet(mongoses)
  BY <1>1, <1>2, <1>9, MongosesWalked
<1>11. {"onBeforeShardedCluster", "onBeforeShards", "onAfterShards", "onBeforeMongoses", "onAfterMongoses",
        "onAfterShardedCluster"} \cap AsksDropped = {}
  BY DEF AsksDropped
<1>12. PICK w1 : w1 = Hook("onBeforeShardedCluster", desc) \o config
  OBVIOUS
<1>13. Takes(w1, config) /\ IsSeq(w1)
  BY <1>5, <1>11, <1>12, TakesHook DEF Takes
<1>14. PICK w2 : w2 = w1 \o Hook("onBeforeShards", desc)
  OBVIOUS
<1>15. Takes(w2, w1) /\ IsSeq(w2)
  BY <1>11, <1>13, <1>14, TakesHook DEF Takes
<1>16. PICK w3 : w3 = w2 \o shards
  OBVIOUS
<1>17. Takes(w3, shards) /\ Range(w2) \subseteq Range(w3) /\ IsSeq(w3)
  BY <1>8, <1>15, <1>16, TakesJoined DEF Takes
<1>18. PICK w4 : w4 = w3 \o Hook("onAfterShards", desc)
  OBVIOUS
<1>19. Takes(w4, w3) /\ IsSeq(w4)
  BY <1>11, <1>17, <1>18, TakesHook DEF Takes
<1>20. PICK w5 : w5 = w4 \o Hook("onBeforeMongoses", desc)
  OBVIOUS
<1>21. Takes(w5, w4) /\ IsSeq(w5)
  BY <1>11, <1>19, <1>20, TakesHook DEF Takes
<1>22. PICK w6 : w6 = w5 \o mongoses
  OBVIOUS
<1>23. Takes(w6, w5) /\ IsSeq(w6)
  BY <1>10, <1>21, <1>22, TakesJoined DEF Takes
<1>24. PICK w7 : w7 = w6 \o Hook("onAfterMongoses", desc)
  OBVIOUS
<1>25. Takes(w7, w6) /\ IsSeq(w7)
  BY <1>11, <1>23, <1>24, TakesHook DEF Takes
<1>26. PICK w8 : w8 = w7 \o Hook("onAfterShardedCluster", desc)
  OBVIOUS
<1>27. Takes(w8, w7) /\ IsSeq(w8)
  BY <1>11, <1>25, <1>26, TakesHook DEF Takes
<1>28. Takes(w8, w3)
  BY <1>19, <1>21, <1>23, <1>25, <1>27, TakesOn
<1>29. AcceptSharded(desc) = w8
  BY <1>6, <1>7, <1>9, <1>12, <1>14, <1>16, <1>18, <1>20, <1>22, <1>24, <1>26 DEF AcceptSharded
<1>30. ReplSetsOf(server) \subseteq Range(server.shards)
  BY DEF ReplSetsOf, SetsOf
<1>31. Range(shards) \subseteq Range(w3) /\ Range(config) \subseteq Range(w3)
  BY <1>13, <1>15, <1>17 DEF Takes
<1>32. ASSUME NEW set \in ReplSetsOf(server)
       PROVE  /\ \E h \in Range(w3) : h.on = "onBeforeReplSet" /\ h.desc.primaryUri = set.hosts[1]
              /\ Walked(w3, set, "onReplSetMongod")
  BY <1>8, <1>30, <1>31 DEF Walked
<1>33. ASSUME NEW uri \in MongodsOf(server)
       PROVE  \E h \in Range(w3) : h.on \in OnSynced /\ h.desc.uri = uri
  <2>1. PICK set \in Range(server.shards) \cup {server.config} : uri \in MembersOf(set)
    BY DEF MongodsOf, SetsOf
  <2>2. CASE set \in Range(server.shards)
    <3>1. Walked(shards, set, "onReplSetMongod")
      BY <1>8, <2>2
    <3> QED
      BY <1>31, <2>1, <3>1 DEF Walked, OnSynced
  <2>3. CASE set = server.config
    BY <1>5, <1>31, <2>1, <2>3 DEF Walked, OnSynced
  <2> QED
    BY <2>1, <2>2, <2>3
<1>34. \E h : Ends(w3, h) /\ h.on \in AsksDropped /\ UriAsked(h) = LastAsked(server)
  <2>1. PICK h : Ends(shards, h) /\ h.on = "onBeforeReplSet" /\ h.desc.primaryUri = Last(server.shards).hosts[1]
    BY <1>8
  <2>2. Ends(w3, h)
    BY <1>17, <2>1 DEF Takes
  <2>3. h.on \in AsksDropped /\ UriAsked(h) = LastAsked(server)
    BY <2>1 DEF AsksDropped, UriAsked, LastAsked
  <2> QED
    BY <2>2, <2>3
<1>35. CoversServer(server, w3)
  BY <1>17, <1>32, <1>33, <1>34 DEF CoversServer
<1>36. CoversServer(server, w8)
  BY <1>28, <1>35, CoversTaken
<1> QED
  BY <1>2, <1>29, <1>36

\* The walk over the discovered topology comes by all of the cluster.
LEMMA AllCovered ==
  ASSUME NEW server \in Clusters, NamesKnown(server)
  PROVE  CoversServer(server, accept(updateTopology(server)))
<1>1. PICK desc : desc = updateTopology(server)
  OBVIOUS
<1>2. server.isMongos \in BOOLEAN
  BY ClustersAssumption
<1>3. CASE server.isMongos
  <2>1. desc = findConnectedNodesViaMongos(server)
    BY <1>1, <1>3 DEF updateTopology
  <2>2. desc.is = "sharded" /\ CoversServer(server, AcceptSharded(desc))
    BY <1>3, <2>1, ShardedCovered
  <2>3. IsSeq(AcceptSharded(desc))
    BY <2>2 DEF CoversServer
  <2>4. Takes(accept(desc), AcceptSharded(desc))
    BY <2>2, <2>3, AcceptTakes
  <2> QED
    BY <1>1, <2>2, <2>4, CoversTaken
<1>4. CASE ~server.isMongos
  <2>1. desc = computeDataMemberConnectionStrings(server)
    BY <1>1, <1>4 DEF updateTopology
  <2>2. CASE server.setName = NoSet
    <3>1. desc.is = "standalone" /\ CoversServer(server, AcceptMongod(desc))
      BY <1>4, <2>1, <2>2, StandaloneCovered
    <3>2. IsSeq(AcceptMongod(desc))
      BY <3>1 DEF CoversServer
    <3>3. Takes(accept(desc), AcceptMongod(desc))
      BY <3>1, <3>2, AcceptTakes
    <3> QED
      BY <1>1, <3>1, <3>3, CoversTaken
  <2>3. CASE server.setName # NoSet
    <3>0. ClusterType(server.setName) = "replSetMember"
      BY <1>4, <2>3 DEF NamesKnown, ClusterType
    <3>1. desc.is = "replSet" /\ CoversServer(server, AcceptReplSet(desc))
      BY <1>4, <2>1, <3>0, ReplSetCovered
    <3>2. IsSeq(AcceptReplSet(desc))
      BY <3>1 DEF CoversServer
    <3>3. Takes(accept(desc), AcceptReplSet(desc))
      BY <3>1, <3>2, AcceptTakes
    <3> QED
      BY <1>1, <3>1, <3>3, CoversTaken
  <2> QED
    BY <2>2, <2>3
<1> QED
  BY <1>2, <1>3, <1>4

\* The hooks of the walk over a cluster that a visitor acts on.
Acted(hooks, names) == FlattenSeq([i \in DOMAIN hooks |-> IF hooks[i].on \in names THEN <<hooks[i]>> ELSE <<>>])

HooksOf(server, v) == Acted(accept(updateTopology(server)), Overridden[v])

\* A visitor is called with the hooks of the walk that it overrides.
LEMMA ActedOn ==
  ASSUME NEW hooks, IsSeq(hooks), NEW names
  PROVE  /\ IsSeq(Acted(hooks, names))
         /\ \A h : h \in Range(Acted(hooks, names)) <=> h \in Range(hooks) /\ h.on \in names
<1>1. PICK n \in Nat : n = Len(hooks) /\ DOMAIN hooks = 1..n
  BY SeqFacts
<1>2. PICK parts : parts = [i \in 1..n |-> IF hooks[i].on \in names THEN <<hooks[i]>> ELSE <<>>]
  OBVIOUS
<1>3. parts \in [1..n -> Range(parts)]
  BY <1>2, Zenon DEF Range
<1>4. IsSeq(parts) /\ Len(parts) = n
  BY <1>3, SeqFrom
<1>5. ASSUME NEW i \in 1..n
      PROVE  IsSeq(parts[i]) /\ Range(parts[i]) = {h \in {hooks[i]} : h.on \in names}
  <2>1. PICK g : g = hooks[i]
    OBVIOUS
  <2>2. IsSeq(<<g>>) /\ Range(<<g>>) = {g}
    BY Single
  <2>3. IsSeq(<<>>) /\ Range(<<>>) = {}
    BY DEF IsSeq, Range
  <2>4. parts[i] = IF g.on \in names THEN <<g>> ELSE <<>>
    BY <1>2, <2>1
  <2> QED
    BY <2>1, <2>2, <2>3, <2>4
<1>6. AllSeqs(parts)
  BY <1>4, <1>5 DEF AllSeqs
<1>7. Acted(hooks, names) = FlattenSeq(parts)
  BY <1>1, <1>2 DEF Acted
<1>8. /\ IsSeq(FlattenSeq(parts))
      /\ \A x : x \in Range(FlattenSeq(parts)) <=> \E i \in 1..n : x \in Range(parts[i])
  BY <1>4, <1>6, FlattenHas
<1>9. \A x : x \in Range(hooks) <=> \E i \in 1..n : x = hooks[i]
  BY <1>1 DEF Range
<1>10. ASSUME NEW h
       PROVE  h \in Range(FlattenSeq(parts)) <=> h \in Range(hooks) /\ h.on \in names
  BY <1>5, <1>8, <1>9
<1> QED
  BY <1>7, <1>8, <1>10

\* The last of them is the last in the walk.
LEMMA ActedLast ==
  ASSUME NEW hooks, IsSeq(hooks), NEW h, Ends(hooks, h), h.on \in AsksDropped,
         NEW w, w = Acted(hooks, AsksDropped)
  PROVE  w # <<>> /\ w[Len(w)] = h
<1>1. PICK n \in Nat : n = Len(hooks) /\ DOMAIN hooks = 1..n
  BY SeqFacts
<1>2. PICK parts : parts = [i \in 1..n |-> IF hooks[i].on \in AsksDropped THEN <<hooks[i]>> ELSE <<>>]
  OBVIOUS
<1>3. parts \in [1..n -> Range(parts)]
  BY <1>2, Zenon DEF Range
<1>4. IsSeq(parts) /\ Len(parts) = n
  BY <1>3, SeqFrom
<1>5. ASSUME NEW i \in 1..n
      PROVE  IsSeq(parts[i])
  <2>1. PICK g : g = hooks[i]
    OBVIOUS
  <2>2. IsSeq(<<g>>)
    BY Single
  <2>3. IsSeq(<<>>)
    BY DEF IsSeq, Range
  <2>4. parts[i] = IF g.on \in AsksDropped THEN <<g>> ELSE <<>>
    BY <1>2, <2>1
  <2> QED
    BY <2>2, <2>3, <2>4
<1>6. AllSeqs(parts)
  BY <1>4, <1>5 DEF AllSeqs
<1>7. w = FlattenSeq(parts)
  BY <1>1, <1>2 DEF Acted
<1>8. PICK m \in 1..n : hooks[m] = h /\ \A k \in (m + 1)..n : hooks[k].on \notin AsksDropped
  BY <1>1 DEF Ends
<1>9. parts[m] = <<h>>
  BY <1>2, <1>8
<1>10. \A k \in (m + 1)..n : k \in 1..n
  BY <1>8
<1>11. \A k \in (m + 1)..n : parts[k] = <<>>
  BY <1>2, <1>8, <1>10
<1> QED
  BY <1>4, <1>6, <1>7, <1>9, <1>11, FlattenLast

\* What the visitors of a cluster meet.
MeetsSets(server, w) ==
  \A set \in ReplSetsOf(server) : \E h \in Range(w) : h.desc.primaryUri = set.hosts[1]
MeetsMembers(server, w) ==
  \A set \in ReplSetsOf(server) : \A uri \in MembersOf(set) : \E h \in Range(w) : h.desc.uri = uri
MeetsMongods(server, w) ==
  \A uri \in MongodsOf(server) : \E h \in Range(w) : h.desc.uri = uri
MeetsLast(server, w) ==
  w # <<>> /\ UriAsked(w[Len(w)]) = LastAsked(server)

\* What each visitor meets on its walk.
LEMMA Met ==
  ASSUME NEW server \in Clusters
  PROVE  /\ \A v \in DOMAIN Overridden : IsSeq(HooksOf(server, v))
         /\ MeetsSets(server, HooksOf(server, "oplog"))
         /\ MeetsMongods(server, HooksOf(server, "fsync"))
         /\ MeetsLast(server, HooksOf(server, "dropped"))
         /\ MeetsMembers(server, HooksOf(server, "clear"))
         /\ MeetsMembers(server, HooksOf(server, "wait"))
<1>1. PICK hooks : hooks = accept(updateTopology(server))
  OBVIOUS
<1>2. CoversServer(server, hooks)
  BY <1>1, NamesAssumption, AllCovered
<1>3. IsSeq(hooks)
  BY <1>2 DEF CoversServer
<1>4. \A v : HooksOf(server, v) = Acted(hooks, Overridden[v])
  BY <1>1 DEF HooksOf
<1>5. /\ Overridden["oplog"] = {"onBeforeReplSet"} /\ Overridden["fsync"] = OnSynced
      /\ Overridden["dropped"] = AsksDropped
      /\ Overridden["clear"] = {"onReplSetMongod"} /\ Overridden["wait"] = {"onReplSetMongod"}
  BY DEF Overridden, OnSynced, AsksDropped
<1>6. \A v : IsSeq(HooksOf(server, v))
  BY <1>3, <1>4, ActedOn
<1>7. MeetsSets(server, HooksOf(server, "oplog"))
  <2>1. PICK w : w = HooksOf(server, "oplog")
    OBVIOUS
  <2>2. w = Acted(hooks, {"onBeforeReplSet"})
    BY <1>4, <1>5, <2>1
  <2>3. \A h : h \in Range(w) <=> h \in Range(hooks) /\ h.on \in {"onBeforeReplSet"}
    BY <1>3, <2>2, ActedOn
  <2> QED
    BY <1>2, <2>1, <2>3 DEF CoversServer, MeetsSets
<1>8. MeetsMongods(server, HooksOf(server, "fsync"))
  <2>1. PICK w : w = HooksOf(server, "fsync")
    OBVIOUS
  <2>2. w = Acted(hooks, OnSynced)
    BY <1>4, <1>5, <2>1
  <2>3. \A h : h \in Range(w) <=> h \in Range(hooks) /\ h.on \in OnSynced
    BY <1>3, <2>2, ActedOn
  <2> QED
    BY <1>2, <2>1, <2>3 DEF CoversServer, MeetsMongods
<1>9. MeetsLast(server, HooksOf(server, "dropped"))
  <2>1. PICK w : w = HooksOf(server, "dropped")
    OBVIOUS
  <2>2. w = Acted(hooks, AsksDropped)
    BY <1>4, <1>5, <2>1
  <2>3. PICK h : Ends(hooks, h) /\ h.on \in AsksDropped /\ UriAsked(h) = LastAsked(server)
    BY <1>2 DEF CoversServer
  <2>4. w # <<>> /\ w[Len(w)] = h
    BY <1>3, <2>2, <2>3, ActedLast
  <2> QED
    BY <2>1, <2>3, <2>4 DEF MeetsLast
<1>10. PICK w : w = Acted(hooks, {"onReplSetMongod"})
  OBVIOUS
<1>11. \A h : h \in Range(w) <=> h \in Range(hooks) /\ h.on \in {"onReplSetMongod"}
  BY <1>3, <1>10, ActedOn
<1>12. MeetsMembers(server, w)
  BY <1>2, <1>11 DEF CoversServer, Walked, MeetsMembers
<1>13. HooksOf(server, "clear") = w /\ HooksOf(server, "wait") = w
  BY <1>4, <1>5, <1>10
<1> QED
  BY <1>6, <1>7, <1>8, <1>9, <1>12, <1>13

-----------------------------------------------------------------------------
(* quiesce() and dbcheck(): what a run has done.                           *)

\* The hooks of a visitor that are not among the rest have been acted on.
OplogDone(rest) ==
  oks.oplog => \A h \in Range(HooksOf(cluster, "oplog")) \ rest : <<"oplog", h.desc.primaryUri>> \in touched

FsyncDone(rest) ==
  \A h \in Range(HooksOf(cluster, "fsync")) \ rest : <<"fsync", h.desc.uri>> \in touched

ClearDone(rest) ==
  threw = 0 => \A h \in Range(HooksOf(cluster, "clear")) \ rest : h.desc.uri \notin stops

WaitDone(rest) ==
  \A h \in Range(HooksOf(cluster, "wait")) \ rest : h.desc.uri \in stops

LastOf(w) == w[Len(w)]

\* The last set is still to be asked for dropped collections, or has answered.
DroppedDone(rest) ==
  IF rest # <<>> THEN LastOf(rest) = LastOf(HooksOf(cluster, "dropped"))
                 ELSE oks.dropped => <<"dropped", UriAsked(LastOf(HooksOf(cluster, "dropped")))>> \in touched

\* While no run has thrown, a check is going only while its run waits, and
\* then on members whose log has no stop yet.
NoChecks == threw = 0 => checks = {}

ChecksGoing ==
  threw = 0 => \A check \in checks :
      /\ check = <<0, check[2]>> /\ check[2] \notin stops
      /\ \E h \in Range(HooksOf(cluster, "wait")) : h.desc.uri = check[2]

QuiesceGoes ==
  \/ visitors = <<"oplog", "fsync", "dropped">> /\ OplogDone(Range(walk))
  \/ visitors = <<"fsync", "dropped">> /\ OplogDone({}) /\ FsyncDone(Range(walk))
  \/ visitors = <<"dropped">> /\ OplogDone({}) /\ FsyncDone({}) /\ DroppedDone(walk)
  \/ visitors = <<>> /\ OplogDone({}) /\ FsyncDone({}) /\ DroppedDone(<<>>)

DbCheckGoes ==
  \/ visitors = <<"clear", "command", "wait">> /\ ClearDone(Range(walk)) /\ NoChecks
  \/ visitors = <<"command", "wait">> /\ ClearDone({}) /\ NoChecks
  \/ visitors = <<"wait">> /\ WaitDone(Range(walk)) /\ ChecksGoing
  \/ visitors = <<>> /\ WaitDone({}) /\ NoChecks

OksType == [oplog : BOOLEAN, fsync : BOOLEAN, dropped : BOOLEAN,
            clear : BOOLEAN, command : BOOLEAN, wait : BOOLEAN]

RunTypes ==
  /\ cluster \in Clusters /\ job \in Jobs /\ threw \in Nat
  /\ oks \in OksType
  /\ IsSeq(walk)

RunGoes ==
  /\ RunTypes
  /\ Runner /\ job = "quiesce" => QuiesceGoes
  /\ Runner /\ job = "dbcheck" => DbCheckGoes
  /\ ~(Runner /\ job = "dbcheck") => NoChecks

\* The walk of the model.
LEMMA WalkIs == \A v : WalkOf(v) = HooksOf(cluster, v)
  BY DEF WalkOf, HooksOf, Acted

\* Past its first hook, a walk has the others, and ends alike.
LEMMA TailKeeps ==
  ASSUME NEW w, IsSeq(w), w # <<>>
  PROVE  /\ IsSeq(Tail(w)) /\ Range(w) \ {Head(w)} \subseteq Range(Tail(w))
         /\ IF Tail(w) # <<>> THEN LastOf(Tail(w)) = LastOf(w) ELSE LastOf(w) = Head(w)
<1>1. PICK n \in Nat : n = Len(w) /\ DOMAIN w = 1..n /\ n # 0
  BY SeqFacts
<1>2. PICK T : T = Range(w)
  OBVIOUS
<1>3. w \in Seq(T)
  BY <1>2 DEF IsSeq
<1>4. PICK x : x = Tail(w)
  OBVIOUS
<1>5. x \in [1..(n - 1) -> T] /\ Len(x) = n - 1 /\ (\A i \in 1..(n - 1) : x[i] = w[i + 1]) /\ Head(w) = w[1]
  <2>1. Len(w) = n /\ n \in Nat /\ n # 0 /\ w # <<>>
    BY <1>1
  <2>2. x \in Seq(T) /\ Len(x) = n - 1
    BY <1>3, <1>4, <2>1
  <2>3. \A i \in 1..(n - 1) : x[i] = w[i + 1]
    BY <1>3, <1>4, <2>1
  <2>4. x \in [1..(n - 1) -> T]
    BY <2>2
  <2>5. Head(w) = w[1]
    BY <1>3, <2>1
  <2> QED
    BY <2>2, <2>3, <2>4, <2>5
<1>6. IsSeq(x)
  <2>1. PICK k \in Nat : k = n - 1
    BY <1>1
  <2>2. x \in [1..k -> T]
    BY <1>5, <2>1
  <2> QED
    BY <2>1, <2>2, SeqFrom
<1>7. ASSUME NEW g \in Range(w), g # Head(w)
      PROVE  g \in Range(x)
  <2>1. PICK i \in 1..n : g = w[i]
    BY <1>1, SeqFacts
  <2>2. i # 1
    BY <1>5, <1>7, <2>1
  <2>3. i - 1 \in 1..(n - 1) /\ (i - 1) + 1 = i
    BY <2>2
  <2>4. g = x[i - 1]
    BY <1>5, <2>1, <2>3
  <2> QED
    BY <1>5, <2>3, <2>4 DEF Range
<1>8. x # <<>> => n - 1 \in 1..(n - 1) /\ (n - 1) + 1 = n
  BY <1>1, <1>5, <1>6, SeqFacts
<1>9. x # <<>> => LastOf(x) = LastOf(w)
  BY <1>1, <1>5, <1>8 DEF LastOf
<1>10. x = <<>> => LastOf(w) = Head(w)
  <2>1. x = <<>> => Len(x) = 0
    OBVIOUS
  <2>2. x = <<>> => n = 1
    <3>0. n \in Nat /\ n # 0
      BY <1>1
    <3>1. PICK k \in Nat : k = n - 1
      BY <3>0
    <3>2. k = 0 => n = 1
      BY <3>0, <3>1
    <3>3. x = <<>> => k = 0
      BY <1>5, <2>1, <3>1, Zenon
    <3> QED
      BY <3>2, <3>3
  <2> QED
    BY <1>1, <1>5, <2>2 DEF LastOf
<1> QED
  BY <1>4, <1>6, <1>7, <1>9, <1>10

\* Where the lock is, and what the run shares with nobody, decides the rest.
LEMMA RunStays ==
  ASSUME RunGoes, Runner' = Runner,
         UNCHANGED <<cluster, job, visitors, walk, oks, touched, stops, checks, threw>>
  PROVE  RunGoes'
<1>1. RunTypes'
  BY DEF RunGoes, RunTypes
<1>2. NoChecks => NoChecks'
  BY DEF NoChecks
<1>3. ChecksGoing => ChecksGoing'
  BY DEF ChecksGoing
<1>4. QuiesceGoes => QuiesceGoes'
  BY DEF QuiesceGoes, OplogDone, FsyncDone, DroppedDone
<1>5. DbCheckGoes => DbCheckGoes'
  BY <1>2, <1>3 DEF DbCheckGoes, ClearDone, WaitDone
<1> QED
  BY <1>1, <1>2, <1>4, <1>5 DEF RunGoes

\* Taking the lock, waiting for it and letting it go leave the run alone.
LEMMA LockKeepsRun ==
  ASSUME RunGoes, LockHeld, NEW c \in Callers,
         TryLock(c) \/ LockToWait(c) \/ Unlock(c) \/ Return(c)
  PROVE  RunGoes'
<1>1. Runner' = Runner
  <2> USE CallersAssumption DEF LockHeld, Runner
  <2>1. CASE TryLock(c)
    BY <2>1 DEF TryLock
  <2>2. CASE LockToWait(c)
    BY <2>2 DEF LockToWait
  <2>3. CASE Unlock(c)
    BY <2>3 DEF Unlock
  <2>4. CASE Return(c)
    BY <2>4 DEF Return
  <2> QED
    BY <2>1, <2>2, <2>3, <2>4
<1>2. UNCHANGED <<cluster, job, visitors, walk, oks, touched, stops, checks, threw>>
  BY DEF TryLock, LockToWait, Unlock, Return
<1> QED
  BY <1>1, <1>2, RunStays

\* A run starts with nothing done and no check left of the one before.
LEMMA DiscoverStartsRun ==
  ASSUME RunGoes, LockHeld, NEW c \in Callers, Discover(c)
  PROVE  RunGoes'
<1>1. owner = c /\ ~Runner /\ Runner'
  BY CallersAssumption DEF LockHeld, Runner, Discover
<1>2. NoChecks
  BY <1>1 DEF RunGoes
<1>3. /\ UNCHANGED <<cluster, job, checks, threw>> /\ visitors' = Visitors[job]
      /\ walk' = HooksOf(cluster, Head(Visitors[job])) /\ oks' = InitialOk
  BY WalkIs DEF Discover
<1>4. cluster \in Clusters /\ job \in Jobs /\ threw \in Nat
  BY DEF RunGoes, RunTypes
<1>5. NoChecks'
  BY <1>2, <1>3 DEF NoChecks
<1>6. oks' \in OksType
  BY <1>3 DEF InitialOk, OksType
<1>7. CASE job = "quiesce"
  <2>1. visitors' = <<"oplog", "fsync", "dropped">>
    BY <1>3, <1>7 DEF Visitors
  <2>2. walk' = HooksOf(cluster, "oplog")
    BY <1>3, <1>7 DEF Visitors
  <2>3. IsSeq(HooksOf(cluster, "oplog"))
    BY <1>4, Met DEF Overridden
  <2>4. OplogDone(Range(walk))'
    BY <1>3, <2>2 DEF OplogDone
  <2> QED
    BY <1>1, <1>3, <1>4, <1>5, <1>6, <1>7, <2>1, <2>2, <2>3, <2>4 DEF RunGoes, RunTypes, QuiesceGoes
<1>8. CASE job = "dbcheck"
  <2>1. visitors' = <<"clear", "command", "wait">>
    BY <1>3, <1>8 DEF Visitors
  <2>2. walk' = HooksOf(cluster, "clear")
    BY <1>3, <1>8 DEF Visitors
  <2>3. IsSeq(HooksOf(cluster, "clear"))
    BY <1>4, Met DEF Overridden
  <2>4. ClearDone(Range(walk))'
    BY <1>3, <2>2 DEF ClearDone
  <2> QED
    BY <1>1, <1>3, <1>4, <1>5, <1>6, <1>8, <2>1, <2>2, <2>3, <2>4 DEF RunGoes, RunTypes, DbCheckGoes
<1> QED
  BY <1>4, <1>7, <1>8 DEF Jobs

\* A run that stores has left no check; one that throws is counted.
LEMMA EndsKeepRun ==
  ASSUME RunGoes, LockHeld, Store \/ RunThrows
  PROVE  RunGoes'
<1>1. cluster \in Clusters /\ job \in Jobs /\ threw \in Nat /\ IsSeq(walk)
  BY DEF RunGoes, RunTypes
<1>2. ~Runner'
  <2> USE CallersAssumption DEF LockHeld, Runner
  <2>1. CASE Store
    BY <2>1 DEF Store
  <2>2. CASE RunThrows
    BY <2>2 DEF RunThrows
  <2> QED
    BY <2>1, <2>2
<1>3. oks' \in OksType
  <2>1. oks' = InitialOk
    BY DEF Store, RunThrows
  <2> QED
    BY <2>1 DEF InitialOk, OksType
<1>4. CASE Store
  <2>1. NoChecks
    <3>1. Runner /\ visitors = <<>>
      BY <1>4 DEF Store
    <3>2. CASE job = "dbcheck"
      BY <3>1, <3>2 DEF RunGoes, DbCheckGoes
    <3>3. CASE job # "dbcheck"
      BY <3>3 DEF RunGoes
    <3> QED
      BY <3>2, <3>3
  <2>2. UNCHANGED <<cluster, job, walk, checks, threw>>
    BY <1>4 DEF Store
  <2> QED
    BY <1>1, <1>2, <1>3, <2>1, <2>2 DEF RunGoes, RunTypes, NoChecks
<1>5. CASE RunThrows
  <2>1. UNCHANGED <<cluster, job>> /\ walk' = <<>> /\ threw' = threw + 1
    BY <1>5 DEF RunThrows
  <2>2. IsSeq(<<>>)
    BY DEF IsSeq
  <2>3. threw' \in Nat /\ threw' # 0
    BY <1>1, <2>1
  <2> QED
    BY <1>1, <1>2, <1>3, <2>1, <2>2, <2>3 DEF RunGoes, RunTypes, NoChecks
<1> QED
  BY <1>4, <1>5

\* The end of a check is logged once, on the member it was for.
LEMMA FinishKeepsRun ==
  ASSUME RunGoes, NEW check \in checks, FinishCheck(check)
  PROVE  RunGoes'
<1>1. /\ UNCHANGED <<cluster, job, owner, where, visitors, walk, oks, touched, threw>>
      /\ checks' = checks \ {check} /\ stops' = stops \cup {check[2]}
  BY DEF FinishCheck
<1>2. Runner' = Runner
  BY <1>1 DEF Runner
<1>3. RunTypes'
  BY <1>1 DEF RunGoes, RunTypes
<1>4. NoChecks => NoChecks'
  BY <1>1 DEF NoChecks
<1>5. NoChecks => threw # 0
  BY DEF NoChecks
<1>6. QuiesceGoes => QuiesceGoes'
  BY <1>1 DEF QuiesceGoes, OplogDone, FsyncDone, DroppedDone
<1>7. ASSUME DbCheckGoes
      PROVE  DbCheckGoes'
  <2>1. CASE visitors = <<"clear", "command", "wait">> /\ ClearDone(Range(walk)) /\ NoChecks
    BY <1>1, <1>4, <1>5, <2>1 DEF DbCheckGoes, ClearDone
  <2>2. CASE visitors = <<"command", "wait">> /\ ClearDone({}) /\ NoChecks
    BY <1>1, <1>4, <1>5, <2>2 DEF DbCheckGoes, ClearDone
  <2>3. CASE visitors = <<"wait">> /\ WaitDone(Range(walk)) /\ ChecksGoing
    <3>1. WaitDone(Range(walk))'
      BY <1>1, <2>3 DEF WaitDone
    <3>2. ASSUME threw = 0, NEW other \in checks, other # check
          PROVE  other[2] # check[2]
      <4>1. other = <<0, other[2]>> /\ check = <<0, check[2]>>
        BY <2>3, <3>2 DEF ChecksGoing
      <4> QED
        BY <3>2, <4>1, Zenon
    <3>3. ChecksGoing'
      BY <1>1, <2>3, <3>2 DEF ChecksGoing
    <3> QED
      BY <1>1, <2>3, <3>1, <3>3 DEF DbCheckGoes
  <2>4. CASE visitors = <<>> /\ WaitDone({}) /\ NoChecks
    BY <1>1, <1>4, <2>4 DEF DbCheckGoes, WaitDone
  <2> QED
    BY <1>7, <2>1, <2>2, <2>3, <2>4 DEF DbCheckGoes
<1> QED
  BY <1>1, <1>2, <1>3, <1>4, <1>6, <1>7 DEF RunGoes

\* The stages at which a visitor is being sent.
LEMMA StageIs ==
  ASSUME RunGoes, Runner
  PROVE  /\ Visiting("oplog") => visitors = <<"oplog", "fsync", "dropped">> /\ job = "quiesce" /\ OplogDone(Range(walk))
         /\ Visiting("fsync") => /\ visitors = <<"fsync", "dropped">> /\ job = "quiesce"
                                 /\ OplogDone({}) /\ FsyncDone(Range(walk))
         /\ Visiting("dropped") => /\ visitors = <<"dropped">> /\ job = "quiesce"
                                   /\ OplogDone({}) /\ FsyncDone({}) /\ DroppedDone(walk)
         /\ Visiting("clear") => /\ visitors = <<"clear", "command", "wait">> /\ job = "dbcheck"
                                 /\ ClearDone(Range(walk)) /\ NoChecks
         /\ Visiting("command") => visitors = <<"command", "wait">> /\ job = "dbcheck" /\ ClearDone({}) /\ NoChecks
         /\ Visiting("wait") => visitors = <<"wait">> /\ job = "dbcheck" /\ WaitDone(Range(walk)) /\ ChecksGoing
<1>1. job \in Jobs
  BY DEF RunGoes, RunTypes
<1>2. CASE job = "quiesce"
  BY <1>2 DEF RunGoes, QuiesceGoes, Visiting
<1>3. CASE job = "dbcheck"
  BY <1>3 DEF RunGoes, DbCheckGoes, Visiting
<1> QED
  BY <1>1, <1>2, <1>3 DEF Jobs

\* A step of the run that leaves it in one of its stages.
LEMMA StepIsQuiesce ==
  ASSUME RunGoes, Runner, Runner', job = "quiesce", UNCHANGED <<cluster, job, checks, threw>>,
         IsSeq(walk)', oks' \in OksType, QuiesceGoes'
  PROVE  RunGoes'
<1>1. NoChecks'
  BY DEF RunGoes, NoChecks
<1> QED
  BY <1>1 DEF RunGoes, RunTypes

LEMMA StepIsDbCheck ==
  ASSUME RunGoes, Runner, Runner', job = "dbcheck", UNCHANGED <<cluster, job, threw>>,
         IsSeq(walk)', oks' \in OksType, DbCheckGoes'
  PROVE  RunGoes'
  BY DEF RunGoes, RunTypes

\* A hook is acted on and dropped from the walk.
LEMMA HookKeepsRun ==
  ASSUME RunGoes, Hooked
  PROVE  RunGoes'
<1>1. /\ Runner /\ walk # <<>>
      /\ UNCHANGED <<cluster, job, owner, where, visitors, threw>>
  BY DEF Hooked
<1>2. Runner'
  BY <1>1 DEF Runner
<1>3. IsSeq(walk) /\ oks \in OksType
  BY DEF RunGoes, RunTypes
<1>4. /\ IsSeq(Tail(walk)) /\ Range(walk) \ {Head(walk)} \subseteq Range(Tail(walk))
      /\ IF Tail(walk) # <<>> THEN LastOf(Tail(walk)) = LastOf(walk) ELSE LastOf(walk) = Head(walk)
  BY <1>1, <1>3, TailKeeps
<1>5. ASSUME NEW reasonable \in BOOLEAN, WaitOplog(reasonable)
      PROVE  RunGoes'
  <2>1. Visiting("oplog") /\ walk' = Tail(walk) /\ UNCHANGED <<stops, checks>>
    BY <1>5 DEF WaitOplog, NextHook
  <2>2. visitors = <<"oplog", "fsync", "dropped">> /\ job = "quiesce" /\ OplogDone(Range(walk))
    BY <1>1, <2>1, StageIs
  <2>3. oks' \in OksType /\ OplogDone(Range(walk))'
    <3>1. CASE reasonable
      <4>1. oks' = oks /\ touched' = touched \cup {<<"oplog", Head(walk).desc.primaryUri>>}
        BY <1>5, <2>2, <3>1 DEF WaitOplog, Done
      <4> QED
        BY <1>1, <1>3, <1>4, <2>1, <2>2, <4>1 DEF OplogDone
    <3>2. CASE ~reasonable
      <4>1. oks' = [oks EXCEPT !.oplog = FALSE]
        BY <1>5, <3>2 DEF WaitOplog
      <4>2. oks' \in OksType /\ ~oks'.oplog
        BY <1>3, <4>1 DEF OksType
      <4> QED
        BY <4>2 DEF OplogDone
    <3> QED
      BY <3>1, <3>2
  <2>4. QuiesceGoes'
    BY <1>1, <2>2, <2>3 DEF QuiesceGoes
  <2> QED
    BY <1>1, <1>2, <1>4, <2>1, <2>2, <2>3, <2>4, StepIsQuiesce
<1>6. ASSUME DoFsync
      PROVE  RunGoes'
  <2>1. Visiting("fsync") /\ walk' = Tail(walk) /\ UNCHANGED <<oks, stops, checks>>
    BY <1>6 DEF DoFsync, NextHook
  <2>2. visitors = <<"fsync", "dropped">> /\ job = "quiesce" /\ OplogDone({}) /\ FsyncDone(Range(walk))
    BY <1>1, <2>1, StageIs
  <2>3. touched' = touched \cup {<<"fsync", Head(walk).desc.uri>>}
    BY <1>6, <2>2 DEF DoFsync, Done
  <2>4. FsyncDone(Range(walk))'
    BY <1>1, <1>4, <2>1, <2>2, <2>3 DEF FsyncDone
  <2>5. OplogDone({})'
    BY <1>1, <2>1, <2>2, <2>3 DEF OplogDone
  <2>6. QuiesceGoes'
    BY <1>1, <2>2, <2>4, <2>5 DEF QuiesceGoes
  <2> QED
    BY <1>1, <1>2, <1>3, <1>4, <2>1, <2>2, <2>6, StepIsQuiesce
<1>7. ASSUME NEW pending \in BOOLEAN, CheckDropped(pending)
      PROVE  RunGoes'
  <2>1. Visiting("dropped") /\ UNCHANGED <<stops, checks>>
    BY <1>7 DEF CheckDropped
  <2>2. /\ visitors = <<"dropped">> /\ job = "quiesce"
        /\ OplogDone({}) /\ FsyncDone({}) /\ DroppedDone(walk)
    BY <1>1, <2>1, StageIs
  <2>3. CASE pending /\ rechecks < DROPPED_COLLECTION_RETRIES
    <3>1. UNCHANGED <<walk, oks, touched>>
      BY <1>7, <2>3 DEF CheckDropped
    <3>2. OplogDone({})' /\ FsyncDone({})' /\ DroppedDone(walk)'
      BY <1>1, <2>2, <3>1 DEF OplogDone, FsyncDone, DroppedDone
    <3>3. QuiesceGoes'
      BY <1>1, <2>2, <3>2 DEF QuiesceGoes
    <3> QED
      BY <1>1, <1>2, <1>3, <2>1, <2>2, <3>1, <3>3, StepIsQuiesce
  <2>4. CASE ~(pending /\ rechecks < DROPPED_COLLECTION_RETRIES)
    <3>0. (rechecks < DROPPED_COLLECTION_RETRIES) \in BOOLEAN
      OBVIOUS
    <3>1. PICK answer \in BOOLEAN : answer = (rechecks < DROPPED_COLLECTION_RETRIES)
      BY <3>0, Zenon
    <3>2. /\ walk' = Tail(walk) /\ oks' = [oks EXCEPT !.dropped = answer]
          /\ IF pending THEN UNCHANGED touched ELSE touched' = touched \cup {<<"dropped", UriAsked(Head(walk))>>}
      BY <1>7, <2>2, <2>4, <3>1 DEF CheckDropped, NextHook, Done, CheckedUri, UriAsked
    <3>3. oks' \in OksType /\ oks'.dropped = answer /\ oks'.oplog = oks.oplog
      BY <1>3, <3>2 DEF OksType
    <3>4. touched \subseteq touched'
      BY <3>2
    <3>5. OplogDone({})' /\ FsyncDone({})'
      BY <1>1, <2>2, <3>3, <3>4 DEF OplogDone, FsyncDone
    <3>6. LastOf(walk) = LastOf(HooksOf(cluster, "dropped"))
      BY <1>1, <2>2 DEF DroppedDone
    <3>7. answer => <<"dropped", UriAsked(Head(walk))>> \in touched'
      BY <2>4, <3>1, <3>2
    <3>8. DroppedDone(walk)'
      BY <1>1, <1>4, <3>2, <3>3, <3>6, <3>7 DEF DroppedDone
    <3>9. QuiesceGoes'
      BY <1>1, <2>2, <3>5, <3>8 DEF QuiesceGoes
    <3> QED
      BY <1>1, <1>2, <1>4, <2>1, <2>2, <3>2, <3>3, <3>9, StepIsQuiesce
  <2> QED
    BY <2>3, <2>4
<1>8. ASSUME ClearHealthLog
      PROVE  RunGoes'
  <2>1. /\ Visiting("clear") /\ walk' = Tail(walk) /\ UNCHANGED checks
        /\ stops' = stops \ {Head(walk).desc.uri} /\ oks' = [oks EXCEPT !.clear = TRUE]
    BY <1>8 DEF ClearHealthLog, NextHook
  <2>2. visitors = <<"clear", "command", "wait">> /\ job = "dbcheck" /\ ClearDone(Range(walk)) /\ NoChecks
    BY <1>1, <2>1, StageIs
  <2>3. ClearDone(Range(walk))' /\ NoChecks'
    BY <1>1, <1>4, <2>1, <2>2 DEF ClearDone, NoChecks
  <2>4. oks' \in OksType
    BY <1>3, <2>1 DEF OksType
  <2>5. DbCheckGoes'
    BY <1>1, <2>2, <2>3 DEF DbCheckGoes
  <2> QED
    BY <1>1, <1>2, <1>4, <2>1, <2>2, <2>4, <2>5, StepIsDbCheck
<1>9. ASSUME WaitForDbCheck
      PROVE  RunGoes'
  <2>1. /\ Visiting("wait") /\ walk' = Tail(walk) /\ UNCHANGED <<stops, checks>>
        /\ Head(walk).desc.uri \in stops /\ oks' = [oks EXCEPT !.wait = TRUE]
    BY <1>9 DEF WaitForDbCheck, NextHook
  <2>2. visitors = <<"wait">> /\ job = "dbcheck" /\ WaitDone(Range(walk)) /\ ChecksGoing
    BY <1>1, <2>1, StageIs
  <2>3. WaitDone(Range(walk))'
    BY <1>1, <1>4, <2>1, <2>2 DEF WaitDone
  <2>4. ChecksGoing'
    BY <1>1, <2>1, <2>2 DEF ChecksGoing
  <2>5. oks' \in OksType
    BY <1>3, <2>1 DEF OksType
  <2>6. DbCheckGoes'
    BY <1>1, <2>2, <2>3, <2>4 DEF DbCheckGoes
  <2> QED
    BY <1>1, <1>2, <1>4, <2>1, <2>2, <2>5, <2>6, StepIsDbCheck
<1> QED
  BY <1>5, <1>6, <1>7, <1>8, <1>9 DEF Hooked

\* When the members have all been seen to stop, no check is going.
LEMMA AllStopped ==
  ASSUME RunTypes, WaitDone({}), ChecksGoing
  PROVE  NoChecks
  BY DEF WaitDone, ChecksGoing, NoChecks

\* The next visitor starts from the whole walk, and the checks from cleared logs.
LEMMA NextVisitorKeepsRun ==
  ASSUME RunGoes, NextVisitor
  PROVE  RunGoes'
<1>1. /\ Runner /\ walk = <<>> /\ visitors # <<>> /\ visitors' = Tail(visitors)
      /\ walk' = IF Len(visitors) > 1 THEN HooksOf(cluster, visitors[2]) ELSE <<>>
      /\ UNCHANGED <<cluster, job, owner, where, oks, touched, stops, threw>>
  BY WalkIs DEF NextVisitor
<1>2. Runner'
  BY <1>1 DEF Runner
<1>3. oks \in OksType /\ cluster \in Clusters /\ job \in Jobs
  BY DEF RunGoes, RunTypes
<1>4. Range(walk) = {}
  BY <1>1 DEF Range
<1>5. \A v \in DOMAIN Overridden : IsSeq(HooksOf(cluster, v))
  BY <1>3, Met
<1>6. DOMAIN Overridden = {"oplog", "fsync", "dropped", "clear", "command", "wait"}
  BY DEF Overridden
<1>7. Head(visitors) # "command" => checks' = checks
  BY DEF NextVisitor
<1>8. CASE Visiting("oplog")
  <2>1. visitors = <<"oplog", "fsync", "dropped">> /\ job = "quiesce" /\ OplogDone({})
    BY <1>1, <1>4, <1>8, StageIs
  <2>2. visitors' = <<"fsync", "dropped">> /\ walk' = HooksOf(cluster, "fsync") /\ checks' = checks
    BY <1>1, <1>7, <2>1
  <2>3. IsSeq(walk)'
    BY <1>5, <1>6, <2>2
  <2>4. OplogDone({})' /\ FsyncDone(Range(walk))'
    BY <1>1, <2>1, <2>2 DEF OplogDone, FsyncDone
  <2>5. QuiesceGoes'
    BY <2>2, <2>4 DEF QuiesceGoes
  <2> QED
    BY <1>1, <1>2, <1>3, <2>1, <2>2, <2>3, <2>5, StepIsQuiesce
<1>9. CASE Visiting("fsync")
  <2>1. visitors = <<"fsync", "dropped">> /\ job = "quiesce" /\ OplogDone({}) /\ FsyncDone({})
    BY <1>1, <1>4, <1>9, StageIs
  <2>2. visitors' = <<"dropped">> /\ walk' = HooksOf(cluster, "dropped") /\ checks' = checks
    BY <1>1, <1>7, <2>1
  <2>3. IsSeq(walk)'
    BY <1>5, <1>6, <2>2
  <2>4. OplogDone({})' /\ FsyncDone({})'
    BY <1>1, <2>1, <2>2 DEF OplogDone, FsyncDone
  <2>5. HooksOf(cluster, "dropped") # <<>>
    BY <1>3, Met DEF MeetsLast
  <2>6. DroppedDone(walk)'
    BY <1>1, <2>2, <2>5 DEF DroppedDone
  <2>7. QuiesceGoes'
    BY <2>2, <2>4, <2>6 DEF QuiesceGoes
  <2> QED
    BY <1>1, <1>2, <1>3, <2>1, <2>2, <2>3, <2>7, StepIsQuiesce
<1>10. CASE Visiting("dropped")
  <2>1. /\ visitors = <<"dropped">> /\ job = "quiesce"
        /\ OplogDone({}) /\ FsyncDone({}) /\ DroppedDone(<<>>)
    BY <1>1, <1>10, StageIs
  <2>2. visitors' = <<>> /\ walk' = <<>> /\ checks' = checks
    BY <1>1, <1>7, <2>1
  <2>3. IsSeq(walk)'
    BY <2>2 DEF IsSeq
  <2>4. OplogDone({})' /\ FsyncDone({})' /\ DroppedDone(<<>>)'
    BY <1>1, <2>1, <2>2 DEF OplogDone, FsyncDone, DroppedDone
  <2>5. QuiesceGoes'
    BY <2>2, <2>4 DEF QuiesceGoes
  <2> QED
    BY <1>1, <1>2, <1>3, <2>1, <2>2, <2>3, <2>5, StepIsQuiesce
<1>11. CASE Visiting("clear")
  <2>1. visitors = <<"clear", "command", "wait">> /\ job = "dbcheck" /\ ClearDone({}) /\ NoChecks
    BY <1>1, <1>4, <1>11, StageIs
  <2>2. visitors' = <<"command", "wait">> /\ walk' = HooksOf(cluster, "command") /\ checks' = checks
    BY <1>1, <1>7, <2>1
  <2>3. IsSeq(walk)'
    BY <1>5, <1>6, <2>2
  <2>4. ClearDone({})' /\ NoChecks'
    BY <1>1, <2>1, <2>2 DEF ClearDone, NoChecks
  <2>5. DbCheckGoes'
    BY <2>2, <2>4 DEF DbCheckGoes
  <2> QED
    BY <1>1, <1>2, <1>3, <2>1, <2>2, <2>3, <2>5, StepIsDbCheck
<1>12. CASE Visiting("command")
  <2>1. visitors = <<"command", "wait">> /\ job = "dbcheck" /\ ClearDone({}) /\ NoChecks
    BY <1>1, <1>12, StageIs
  <2>2. visitors' = <<"wait">> /\ walk' = HooksOf(cluster, "wait")
    BY <1>1, <2>1
  <2>3. IsSeq(walk)'
    BY <1>5, <1>6, <2>2
  <2>4. WaitDone(Range(walk))'
    BY <1>1, <2>2 DEF WaitDone
  <2>5. checks' = checks \cup {<<threw, uri>> : uri \in UNION {MembersOf(set) : set \in ReplSetsOf(cluster)}}
    BY <2>1 DEF NextVisitor
  <2>6. MeetsMembers(cluster, HooksOf(cluster, "clear")) /\ MeetsMembers(cluster, HooksOf(cluster, "wait"))
    BY <1>3, Met
  <2>7. ASSUME threw = 0, NEW check \in checks'
        PROVE  /\ check = <<0, check[2]>> /\ check[2] \notin stops
               /\ \E h \in Range(HooksOf(cluster, "wait")) : h.desc.uri = check[2]
    <3>1. checks = {}
      BY <2>1, <2>7 DEF NoChecks
    <3>2. PICK set \in ReplSetsOf(cluster) : \E uri \in MembersOf(set) : check = <<0, uri>>
      BY <2>5, <2>7, <3>1
    <3>3. PICK uri \in MembersOf(set) : check = <<0, uri>>
      BY <3>2
    <3>4. check[2] = uri
      BY <3>3
    <3>5. PICK h \in Range(HooksOf(cluster, "clear")) : h.desc.uri = uri
      BY <2>6 DEF MeetsMembers
    <3>6. uri \notin stops
      BY <2>1, <2>7, <3>5 DEF ClearDone
    <3>7. \E g \in Range(HooksOf(cluster, "wait")) : g.desc.uri = uri
      BY <2>6 DEF MeetsMembers
    <3> QED
      BY <3>3, <3>4, <3>6, <3>7
  <2>8. ChecksGoing'
    BY <1>1, <2>7 DEF ChecksGoing
  <2>9. DbCheckGoes'
    BY <2>2, <2>4, <2>8 DEF DbCheckGoes
  <2> QED
    BY <1>1, <1>2, <1>3, <2>1, <2>3, <2>9, StepIsDbCheck
<1>13. CASE Visiting("wait")
  <2>1. visitors = <<"wait">> /\ job = "dbcheck" /\ WaitDone({}) /\ ChecksGoing
    BY <1>1, <1>4, <1>13, StageIs
  <2>2. visitors' = <<>> /\ walk' = <<>> /\ checks' = checks
    BY <1>1, <1>7, <2>1
  <2>3. IsSeq(walk)'
    BY <2>2 DEF IsSeq
  <2>4. NoChecks
    BY <2>1, AllStopped DEF RunGoes
  <2>5. WaitDone({})' /\ NoChecks'
    BY <1>1, <2>1, <2>2, <2>4 DEF WaitDone, NoChecks
  <2>6. DbCheckGoes'
    BY <2>2, <2>5 DEF DbCheckGoes
  <2> QED
    BY <1>1, <1>2, <1>3, <2>1, <2>3, <2>6, StepIsDbCheck
<1>14. \E v \in DOMAIN Overridden : Visiting(v)
  <2>1. CASE job = "quiesce"
    BY <1>1, <1>6, <2>1 DEF RunGoes, QuiesceGoes, Visiting
  <2>2. CASE job = "dbcheck"
    BY <1>1, <1>6, <2>2 DEF RunGoes, DbCheckGoes, Visiting
  <2> QED
    BY <1>3, <2>1, <2>2 DEF Jobs
<1> QED
  BY <1>6, <1>8, <1>9, <1>10, <1>11, <1>12, <1>13, <1>14

\* What the last visitor leaves behind it.
LEMMA RunCovers ==
  ASSUME RunGoes
  PROVE  SuccessCoversCluster
<1> SUFFICES ASSUME Runner, visitors = <<>>
             PROVE  /\ (job = "quiesce" /\ oks.oplog /\ oks.dropped) =>
                           /\ \A set \in ReplSetsOf(cluster) : <<"oplog", set.hosts[1]>> \in touched
                           /\ \A uri \in MongodsOf(cluster) : <<"fsync", uri>> \in touched
                           /\ cluster.isMongos => <<"dropped", Last(cluster.shards).hosts[1]>> \in touched
                           /\ ~cluster.isMongos => <<"dropped", cluster.hosts[1]>> \in touched
                    /\ (job = "dbcheck" /\ oks.clear /\ oks.wait) =>
                           /\ \A set \in ReplSetsOf(cluster) : MembersOf(set) \subseteq stops
                           /\ threw = 0 => checks = {}
  BY DEF SuccessCoversCluster
<1>1. cluster \in Clusters
  BY DEF RunGoes, RunTypes
<1>2. ASSUME job = "quiesce", oks.oplog, oks.dropped
      PROVE  /\ \A set \in ReplSetsOf(cluster) : <<"oplog", set.hosts[1]>> \in touched
             /\ \A uri \in MongodsOf(cluster) : <<"fsync", uri>> \in touched
             /\ <<"dropped", LastAsked(cluster)>> \in touched
  <2>1. OplogDone({}) /\ FsyncDone({}) /\ DroppedDone(<<>>)
    BY <1>2 DEF RunGoes, QuiesceGoes
  <2>2. ASSUME NEW set \in ReplSetsOf(cluster)
        PROVE  <<"oplog", set.hosts[1]>> \in touched
    <3>1. PICK h \in Range(HooksOf(cluster, "oplog")) : h.desc.primaryUri = set.hosts[1]
      BY <1>1, Met DEF MeetsSets
    <3> QED
      BY <1>2, <2>1, <3>1 DEF OplogDone
  <2>3. ASSUME NEW uri \in MongodsOf(cluster)
        PROVE  <<"fsync", uri>> \in touched
    <3>1. PICK h \in Range(HooksOf(cluster, "fsync")) : h.desc.uri = uri
      BY <1>1, Met DEF MeetsMongods
    <3> QED
      BY <2>1, <3>1 DEF FsyncDone
  <2>4. UriAsked(LastOf(HooksOf(cluster, "dropped"))) = LastAsked(cluster)
    BY <1>1, Met DEF MeetsLast, LastOf
  <2> QED
    BY <1>2, <2>1, <2>2, <2>3, <2>4 DEF DroppedDone
<1>3. ASSUME job = "dbcheck"
      PROVE  /\ \A set \in ReplSetsOf(cluster) : MembersOf(set) \subseteq stops
             /\ threw = 0 => checks = {}
  <2>1. WaitDone({}) /\ NoChecks
    BY <1>3 DEF RunGoes, DbCheckGoes
  <2>2. ASSUME NEW set \in ReplSetsOf(cluster), NEW uri \in MembersOf(set)
        PROVE  uri \in stops
    <3>1. PICK h \in Range(HooksOf(cluster, "wait")) : h.desc.uri = uri
      BY <1>1, Met DEF MeetsMembers
    <3> QED
      BY <2>1, <3>1 DEF WaitDone
  <2> QED
    BY <2>1, <2>2 DEF NoChecks
<1> QED
  BY <1>2, <1>3 DEF LastAsked

\* SuccessCoversCluster: whatever the cluster is and whoever calls meanwhile,
\* a quiesce() that is about to store success has waited for the oplog of every
\* replica set, synced every mongod and asked the last set for dropped
\* collections; a dbcheck() has seen a check end on every member of every set,
\* and leaves none running unless an earlier run has thrown.
THEOREM SuccessesCoverTheCluster == QuiesceSpec => []SuccessCoversCluster
<1>1. QuiesceInit => QuiesceInv /\ RunGoes
  <2> SUFFICES ASSUME QuiesceInit PROVE QuiesceInv /\ RunGoes
    OBVIOUS
  <2>1. QuiesceInv /\ ~Runner
    BY CallersAssumption DEF QuiesceInit, QuiesceInv, LockHeld, AwaitsRun, Runner
  <2>2. oks \in OksType
    BY DEF QuiesceInit, InitialOk, OksType
  <2>3. IsSeq(walk)
    BY DEF QuiesceInit, IsSeq
  <2>4. NoChecks /\ cluster \in Clusters /\ job \in Jobs /\ threw \in Nat
    BY DEF QuiesceInit, NoChecks
  <2> QED
    BY <2>1, <2>2, <2>3, <2>4 DEF RunGoes, RunTypes
<1>2. QuiesceInv /\ RunGoes /\ [QuiesceNext]_quiesceVars => RunGoes'
  <2> SUFFICES ASSUME QuiesceInv, RunGoes, [QuiesceNext]_quiesceVars PROVE RunGoes'
    OBVIOUS
  <2>1. LockHeld
    BY DEF QuiesceInv
  <2>2. CASE \E c \in Callers : TryLock(c) \/ LockToWait(c) \/ Unlock(c) \/ Return(c) \/ Discover(c)
    BY <2>1, <2>2, LockKeepsRun, DiscoverStartsRun
  <2>3. CASE Hooked
    BY <2>3, HookKeepsRun
  <2>4. CASE NextVisitor
    BY <2>4, NextVisitorKeepsRun
  <2>5. CASE \E check \in checks : FinishCheck(check)
    BY <2>5, FinishKeepsRun
  <2>6. CASE Store \/ RunThrows
    BY <2>1, <2>6, EndsKeepRun
  <2>7. CASE UNCHANGED quiesceVars
    <3>1. UNCHANGED <<cluster, job, visitors, walk, oks, touched, stops, checks, threw>> /\ Runner' = Runner
      BY <2>7 DEF quiesceVars, Runner
    <3> QED
      BY <3>1, RunStays
  <2> QED
    BY <2>2, <2>3, <2>4, <2>5, <2>6, <2>7 DEF QuiesceNext
<1>3. RunGoes => SuccessCoversCluster
  BY RunCovers
<1>4. QuiesceInv /\ [QuiesceNext]_quiesceVars => QuiesceInv'
  BY LockStep
<1> QED
  BY <1>1, <1>2, <1>3, <1>4, PTL DEF QuiesceSpec
=============================================================================
