------------------------ MODULE GlobalRateLimiter_proofs ------------------------
(***************************************************************************)
(* The rate limiter, for every number of users and every rate: its bucket  *)
(* is never emptied ahead of the clock, its numbers keep their types, one  *)
(* thread reconfigures a percentile limiter and none before it has been    *)
(* measured, and a phase gives no more tokens than its rate allows.        *)
(***************************************************************************)
EXTENDS GlobalRateLimiter, Numbers_proofs, FiniteSetTheorems

\* What the provers need of TypeOK: numbers are numbers.
NumbersOK ==
  /\ clock \in Int /\ lastEmptied \in Int /\ rateNS \in Int /\ hookNow \in Int
  /\ pc \in [Users -> PC]
  /\ now \in [Users -> Int] /\ target \in [Users -> Int]

\* The period is a time that was found to be a minute or more, so it is not
\* negative when it is stored.
RateNotNegative ==
  /\ rateNS >= 0
  /\ \A t \in Users : pc[t] \in {"breakinCas", "measure", "store", "storeSize", "storeRate"}
                        => target[t] >= 0

\* The times that were read are never ahead, nor is what RefillCas will store.
NobodyAhead ==
  /\ hookNow <= clock
  /\ \A t \in Users : /\ now[t] <= clock
                      /\ pc[t] = "refillCas" => target[t] <= now[t]

CreditInv == NumbersOK /\ RateNotNegative /\ NobodyAhead /\ NoFutureCredit

\* A limiter as its constructor leaves it.
LEMMA CreditInit == Init => CreditInv
<1> SUFFICES ASSUME Init PROVE CreditInv
  OBVIOUS
<1> USE RateAssumption
<1>1. NumbersOK
  BY DEF Init, NumbersOK, PC
<1>2. RateNotNegative
  BY DEF Init, RateNotNegative
<1>3. NobodyAhead /\ NoFutureCredit
  BY DEF Init, NobodyAhead, NoFutureCredit
<1> QED
  BY <1>1, <1>2, <1>3 DEF CreditInv

\* The steps that leave the clock, the bucket, the rate and the thread's own
\* numbers alone: only the thread's place changes, to one the invariant does
\* not speak of.
LEMMA PlaceOnly ==
  ASSUME CreditInv, NEW t \in Users, NEW label \in PC,
         UNCHANGED <<clock, lastEmptied, rateNS, hookNow, now, target>>,
         Goto(t, label),
         label = "refillCas" => target[t] <= now[t],
         label \in {"breakinCas", "measure", "store", "storeSize", "storeRate"}
            => target[t] >= 0
  PROVE  CreditInv'
<1>1. NumbersOK'
  BY DEF CreditInv, NumbersOK, Goto
<1>2. RateNotNegative'
  BY DEF CreditInv, NumbersOK, RateNotNegative, Goto
<1>3. NobodyAhead' /\ NoFutureCredit'
  BY DEF CreditInv, NumbersOK, NobodyAhead, NoFutureCredit, Goto
<1> QED
  BY <1>1, <1>2, <1>3 DEF CreditInv

\* The retry loop of limitRate() keeps the invariant.
LEMMA CreditLimitRate ==
  ASSUME CreditInv, NEW t \in Users, LimitRate(t)
  PROVE  CreditInv'
<1> USE DEF PC
<1>1. CASE Enter(t)
  BY <1>1, PlaceOnly, "call" \in PC DEF Enter, limiter, locals, hooks
<1>2. CASE ReadClock(t)
  <2>1. NumbersOK' /\ RateNotNegative'
    BY <1>2 DEF CreditInv, NumbersOK, RateNotNegative, ReadClock, Goto, limiter, hooks
  <2>2. NobodyAhead' /\ NoFutureCredit'
    BY <1>2 DEF CreditInv, NumbersOK, NobodyAhead, NoFutureCredit, ReadClock, Goto, limiter, hooks
  <2> QED
    BY <2>1, <2>2 DEF CreditInv
<1>3. CASE Retry(t)
  BY <1>3, PlaceOnly, "call" \in PC DEF Retry, limiter, locals, hooks
<1>4. CASE GiveUp(t)
  BY <1>4, PlaceOnly, "out" \in PC DEF GiveUp, locals, hooks
<1>5. CASE notifyOfIteration(t)
  BY <1>5, PlaceOnly, "out" \in PC DEF notifyOfIteration, locals, hooks
<1> QED
  BY <1>1, <1>2, <1>3, <1>4, <1>5 DEF LimitRate

\* So do the two buckets of consumeIfWithinRate(): LoadLastEmptied refuses what
\* is in the future of the thread's time, and RefillCas stores what was loaded.
LEMMA CreditConsume ==
  ASSUME CreditInv, NEW t \in Users, Consume(t)
  PROVE  CreditInv'
<1> USE DEF PC
<1>1. CASE TestBurstSize(t)
  BY <1>1, PlaceOnly, "burstLoad" \in PC, "refill" \in PC
     DEF TestBurstSize, limiter, locals, hooks
<1>2. CASE LoadBurstCount(t)
  <2>1. UNCHANGED <<clock, lastEmptied, rateNS, hookNow, now, target>>
    BY <1>2 DEF LoadBurstCount, limiter, hooks
  <2>2. \E label \in {"fpe", "burstCas", "refill"} : Goto(t, label)
    BY <1>2 DEF LoadBurstCount
  <2> QED
    BY <2>1, <2>2, PlaceOnly
<1>3. CASE BurstCas(t)
  <2>1. UNCHANGED <<clock, lastEmptied, rateNS, hookNow, now, target>>
    BY <1>3 DEF BurstCas, locals, hooks
  <2>2. \E label \in {"granted", "denied"} : Goto(t, label)
    BY <1>3 DEF BurstCas, Grant
  <2> QED
    BY <2>1, <2>2, PlaceOnly
<1>4. CASE LoadLastEmptied(t)
  <2>1. NumbersOK'
    BY <1>4 DEF CreditInv, NumbersOK, LoadLastEmptied, Goto, limiter, hooks
  <2>2. RateNotNegative'
    BY <1>4 DEF CreditInv, NumbersOK, RateNotNegative, LoadLastEmptied, Goto, limiter, hooks
  <2>3. NobodyAhead' /\ NoFutureCredit'
    BY <1>4 DEF CreditInv, NumbersOK, NobodyAhead, NoFutureCredit, LoadLastEmptied,
                WithinRate, Goto, limiter, hooks
  <2> QED
    BY <2>1, <2>2, <2>3 DEF CreditInv
<1>5. CASE RefillCas(t)
  <2>1. NumbersOK' /\ RateNotNegative'
    BY <1>5 DEF CreditInv, NumbersOK, RateNotNegative, RefillCas, Goto, locals, hooks
  <2>2. NobodyAhead' /\ NoFutureCredit'
    BY <1>5 DEF CreditInv, NumbersOK, NobodyAhead, NoFutureCredit, RefillCas, Goto, locals, hooks
  <2> QED
    BY <2>1, <2>2 DEF CreditInv
<1>6. CASE RefillCount(t)
  BY <1>6, PlaceOnly, "granted" \in PC DEF RefillCount, locals, hooks
<1> QED
  BY <1>1, <1>2, <1>3, <1>4, <1>5, <1>6 DEF Consume

\* So does isBreakin(), the reconfiguration by one thread under the others' feet
\* included.
LEMMA CreditBreakin ==
  ASSUME CreditInv, NEW t \in Users, Breakin(t)
  PROVE  CreditInv'
<1> USE DEF PC
<1>1. CASE LoadFullSpeed(t)
  BY <1>1, PlaceOnly, "count" \in PC, "burst" \in PC DEF LoadFullSpeed, limiter, locals, hooks
<1>2. CASE BreakinCount(t)
  BY <1>2, PlaceOnly, "since" \in PC DEF BreakinCount, locals, hooks
<1>3. CASE BreakinNow(t) \/ BreakinLoad(t)
  <2>1. NumbersOK'
    BY <1>3 DEF CreditInv, NumbersOK, BreakinNow, BreakinLoad, Goto, limiter, hooks
  <2>2. RateNotNegative'
    BY <1>3 DEF CreditInv, NumbersOK, RateNotNegative, BreakinNow, BreakinLoad, Goto,
                limiter, hooks
  <2>3. NobodyAhead' /\ NoFutureCredit'
    BY <1>3 DEF CreditInv, NumbersOK, NobodyAhead, NoFutureCredit, BreakinNow, BreakinLoad,
                Goto, limiter, hooks
  <2> QED
    BY <2>1, <2>2, <2>3 DEF CreditInv
<1>4. CASE BreakinTest(t)
  <2>1. UNCHANGED <<clock, lastEmptied, rateNS, hookNow, now, target>>
    BY <1>4 DEF BreakinTest, limiter, locals, hooks
  <2>2. CASE BreakinOver(t)
    <3>1. target[t] >= 0
      BY <2>2, PercentAssumption DEF BreakinOver, CreditInv, NumbersOK
    <3> QED
      BY <1>4, <2>1, <2>2, <3>1, PlaceOnly, "breakinCas" \in PC DEF BreakinTest
  <2>3. CASE ~BreakinOver(t)
    BY <1>4, <2>1, <2>3, PlaceOnly, "granted" \in PC DEF BreakinTest, Grant
  <2> QED
    BY <2>2, <2>3
<1>5. CASE BreakinCas(t)
  <2>1. UNCHANGED <<clock, lastEmptied, rateNS, hookNow, now, target>>
    BY <1>5 DEF BreakinCas, locals, hooks
  <2>2. \E label \in {"measure", "granted"} : Goto(t, label)
    BY <1>5 DEF BreakinCas, Grant
  <2>3. target[t] >= 0
    BY <1>5 DEF CreditInv, RateNotNegative, BreakinCas
  <2> QED
    BY <2>1, <2>2, <2>3, PlaceOnly
<1>6. CASE Measure(t)
  <2>1. target[t] >= 0
    BY <1>6 DEF CreditInv, RateNotNegative, Measure
  <2> QED
    BY <1>6, <2>1, PlaceOnly, "store" \in PC DEF Measure, limiter, hooks
<1>7. CASE StoreBurstSize(t)
  <2>1. UNCHANGED <<clock, lastEmptied, rateNS, hookNow, now, target>>
    BY <1>7 DEF StoreBurstSize, locals, hooks
  <2>2. \E label \in {"storeRate", "restartNow"} : Goto(t, label)
    BY <1>7 DEF StoreBurstSize
  <2>3. target[t] >= 0
    BY <1>7 DEF CreditInv, RateNotNegative, StoreBurstSize
  <2> QED
    BY <2>1, <2>2, <2>3, PlaceOnly
<1>8. CASE StoreRate(t)
  <2>1. NumbersOK'
    BY <1>8 DEF CreditInv, NumbersOK, StoreRate, Goto, locals, hooks
  <2>2. RateNotNegative'
    BY <1>8 DEF CreditInv, NumbersOK, RateNotNegative, StoreRate, Goto, locals, hooks
  <2>3. NobodyAhead' /\ NoFutureCredit'
    BY <1>8 DEF CreditInv, NumbersOK, NobodyAhead, NoFutureCredit, StoreRate, Goto, locals, hooks
  <2> QED
    BY <2>1, <2>2, <2>3 DEF CreditInv
<1>9. CASE RestartNow(t)
  <2>1. NumbersOK' /\ RateNotNegative'
    BY <1>9 DEF CreditInv, NumbersOK, RateNotNegative, RestartNow, Goto, limiter, hooks
  <2>2. NobodyAhead' /\ NoFutureCredit'
    BY <1>9 DEF CreditInv, NumbersOK, NobodyAhead, NoFutureCredit, RestartNow, Goto,
                 limiter, hooks
  <2> QED
    BY <2>1, <2>2 DEF CreditInv
<1>10. CASE RestartBucket(t)
  <2>1. NumbersOK' /\ RateNotNegative'
    BY <1>10 DEF CreditInv, NumbersOK, RateNotNegative, RestartBucket, Goto, locals, hooks
  <2>2. NobodyAhead' /\ NoFutureCredit'
    BY <1>10 DEF CreditInv, NumbersOK, NobodyAhead, NoFutureCredit, RateNotNegative,
                RestartBucket, Goto, locals, hooks
  <2> QED
    BY <2>1, <2>2 DEF CreditInv
<1>11. CASE ZeroBurst(t)
  BY <1>11, PlaceOnly, "limit" \in PC DEF ZeroBurst, locals, hooks
<1>12. CASE EndFullSpeed(t)
  BY <1>12, PlaceOnly, "granted" \in PC DEF EndFullSpeed, Grant, locals, hooks
<1> QED
  BY <1>1, <1>2, <1>3, <1>4, <1>5, <1>6, <1>7, <1>8, <1>9, <1>10, <1>11, <1>12 DEF Breakin

\* So do resetLastEmptied() and the clock.
LEMMA CreditHooks ==
  ASSUME CreditInv, PrePhaseHooks \/ Tick
  PROVE  CreditInv'
<1>1. CASE ResetLastEmptied
  BY <1>1 DEF CreditInv, NumbersOK, RateNotNegative, NobodyAhead, NoFutureCredit,
              ResetLastEmptied, locals, hooks
<1>2. CASE ResetNow
  BY <1>2 DEF CreditInv, NumbersOK, RateNotNegative, NobodyAhead, NoFutureCredit,
              ResetNow, limiter, locals
<1>3. CASE Tick
  BY <1>3 DEF CreditInv, NumbersOK, RateNotNegative, NobodyAhead, NoFutureCredit,
              Tick, limiter, locals, hooks
<1>4. CASE BeginPhase \/ ResetIters \/ ResetFullSpeed
  <2>1. UNCHANGED <<clock, lastEmptied, rateNS, hookNow, pc, now, target>>
    BY <1>4 DEF BeginPhase, ResetIters, ResetFullSpeed, limiter, locals, hooks
  <2> QED
    BY <2>1 DEF CreditInv, NumbersOK, RateNotNegative, NobodyAhead, NoFutureCredit
<1> QED
  BY <1>1, <1>2, <1>3, <1>4 DEF PrePhaseHooks

\* The invariant holds throughout.
LEMMA CreditAlways == Spec => []CreditInv
<1>1. CreditInv /\ [Next]_vars => CreditInv'
  <2> SUFFICES ASSUME CreditInv, [Next]_vars PROVE CreditInv'
    OBVIOUS
  <2>1. CASE \E t \in Users : Breakin(t) \/ Consume(t) \/ LimitRate(t)
    BY <2>1, CreditBreakin, CreditConsume, CreditLimitRate
  <2>2. CASE PrePhaseHooks \/ Tick
    BY <2>2, CreditHooks
  <2>3. CASE UNCHANGED vars
    BY <2>3 DEF CreditInv, NumbersOK, RateNotNegative, NobodyAhead, NoFutureCredit,
                vars, limiter, locals, hooks
  <2> QED
    BY <2>1, <2>2, <2>3 DEF Next
<1> QED
  BY <1>1, CreditInit, PTL DEF Spec

\* NoFutureCredit: whatever the users, the hooks and the reconfiguration of a
\* percentile limiter do to _lastEmptiedTimeNS, it never passes the clock.
THEOREM CreditIsNeverFuture == Spec => []NoFutureCredit
<1>1. CreditInv => NoFutureCredit
  BY DEF CreditInv
<1> QED
  BY <1>1, CreditAlways, PTL

-----------------------------------------------------------------------------
(* Types.                                                                  *)

\* Only a percentile limiter is ever broken in, the count it measures is one,
\* and a phase begins with as many resets to make as there are users.
PlacesOK ==
  /\ fullSpeed => Percent # Unset
  /\ \A t \in Users :
       /\ pc[t] \in {"count", "since", "sinceNow", "sinceLoad", "iters", "breakinCas"}
                    \cup ReconfiguringPlaces
            => Percent # Unset
       /\ pc[t] \in {"store", "storeSize"} => seen[t] \in Nat
  /\ hook # "none" => hooksLeft >= 1

TypeInv == TypeOK /\ PlacesOK

\* There are users, and they can be counted.
LEMMA SomeUsers == Cardinality(Users) \in Nat /\ Cardinality(Users) >= 1
BY UsersAssumption, FS_CardinalityType, FS_EmptySet

\* A remainder is smaller than what divides.
LEMMA Remainder ==
  ASSUME NEW a \in Int, NEW b \in Nat \ {0}
  PROVE  a % b \in 0..(b - 1)
OBVIOUS

\* What the burst bucket has left is never negative.
LEMMA BurstLeftType ==
  ASSUME TypeOK
  PROVE  BurstLeft \in Nat
<1>1. CASE burstSize <= 1
  BY <1>1 DEF BurstLeft
<1>2. CASE ~(burstSize <= 1)
  <2> DEFINE opening == Cardinality({t \in Users : pc[t] = "refillCount"})
             rest == (burstSize - (burstCount % burstSize)) % burstSize
  <2>1. opening \in Nat
    BY UsersAssumption, FS_Subset, FS_CardinalityType
  <2>2. burstSize \in Nat \ {0} /\ burstCount \in Int
    BY <1>2 DEF TypeOK
  <2>3. rest \in Nat
    BY <2>2, Remainder
  <2>4. BurstLeft = rest + (burstSize - 1) * opening
    BY <1>2 DEF BurstLeft
  <2> HIDE DEF opening, rest
  <2>5. burstSize - 1 \in Nat
    BY <2>2
  <2>6. (burstSize - 1) * opening \in Nat
    BY <2>1, <2>5
  <2> QED
    BY <2>3, <2>4, <2>6
<1> QED
  BY <1>1, <1>2 DEF TypeOK

LEMMA TypeInit == Init => TypeInv
<1> SUFFICES ASSUME Init PROVE TypeInv
  OBVIOUS
<1>1. Cardinality(Users) \in Nat
  BY UsersAssumption, FS_CardinalityType
<1>2. 0 \in 0..MaxClock /\ 0 \in 0..MaxPhases /\ 0 \in 0..Cardinality(Users)
  BY <1>1, BoundsAssumption
<1>3. TypeOK
  BY <1>2, RateAssumption DEF Init, TypeOK, PC
<1>4. PlacesOK
  BY DEF Init, PlacesOK, ReconfiguringPlaces
<1> QED
  BY <1>3, <1>4 DEF TypeInv

\* The retry loop keeps the types.
LEMMA TypeLimitRate ==
  ASSUME TypeInv, CreditInv, NEW t \in Users, LimitRate(t)
  PROVE  TypeInv'
<1> USE BoundsAssumption, PercentAssumption DEF PC
<1>1. CASE Enter(t)
  <2>1. TypeOK'
    BY <1>1 DEF TypeInv, PlacesOK, TypeOK, Enter, Goto, Grant, limiter, locals, hooks
  <2>2. PlacesOK'
    BY <1>1 DEF TypeInv, PlacesOK, TypeOK, ReconfiguringPlaces, Enter, Goto, Grant, limiter, locals, hooks
  <2> QED
    BY <2>1, <2>2 DEF TypeInv
<1>2. CASE ReadClock(t)
  <2>1. TypeOK'
    BY <1>2 DEF TypeInv, PlacesOK, TypeOK, ReadClock, Goto, Grant, limiter, locals, hooks
  <2>2. PlacesOK'
    BY <1>2 DEF TypeInv, PlacesOK, TypeOK, ReconfiguringPlaces, ReadClock, Goto, Grant, limiter, locals, hooks
  <2> QED
    BY <2>1, <2>2 DEF TypeInv
<1>3. CASE Retry(t)
  <2>1. TypeOK'
    BY <1>3 DEF TypeInv, PlacesOK, TypeOK, Retry, Goto, Grant, limiter, locals, hooks
  <2>2. PlacesOK'
    BY <1>3 DEF TypeInv, PlacesOK, TypeOK, ReconfiguringPlaces, Retry, Goto, Grant, limiter, locals, hooks
  <2> QED
    BY <2>1, <2>2 DEF TypeInv
<1>4. CASE GiveUp(t)
  <2>1. TypeOK'
    BY <1>4 DEF TypeInv, PlacesOK, TypeOK, GiveUp, Goto, Grant, limiter, locals, hooks
  <2>2. PlacesOK'
    BY <1>4 DEF TypeInv, PlacesOK, TypeOK, ReconfiguringPlaces, GiveUp, Goto, Grant, limiter, locals, hooks
  <2> QED
    BY <2>1, <2>2 DEF TypeInv
<1>5. CASE notifyOfIteration(t)
  <2>1. TypeOK'
    BY <1>5 DEF TypeInv, PlacesOK, TypeOK, notifyOfIteration, Goto, Grant, limiter, locals, hooks
  <2>2. PlacesOK'
    BY <1>5 DEF TypeInv, PlacesOK, TypeOK, ReconfiguringPlaces, notifyOfIteration, Goto, Grant, limiter, locals, hooks
  <2> QED
    BY <2>1, <2>2 DEF TypeInv
<1> QED
  BY <1>1, <1>2, <1>3, <1>4, <1>5 DEF LimitRate

\* So do the two buckets.
LEMMA TypeConsume ==
  ASSUME TypeInv, CreditInv, NEW t \in Users, Consume(t)
  PROVE  TypeInv'
<1> USE BoundsAssumption, PercentAssumption DEF PC
<1>1. CASE TestBurstSize(t)
  <2>1. TypeOK'
    BY <1>1 DEF TypeInv, PlacesOK, TypeOK, TestBurstSize, Goto, Grant, limiter, locals, hooks
  <2>2. PlacesOK'
    BY <1>1 DEF TypeInv, PlacesOK, TypeOK, ReconfiguringPlaces, TestBurstSize, Goto, Grant, limiter, locals, hooks
  <2> QED
    BY <2>1, <2>2 DEF TypeInv
<1>2. CASE LoadBurstCount(t)
  <2>1. TypeOK'
    BY <1>2 DEF TypeInv, PlacesOK, TypeOK, LoadBurstCount, Goto, Grant, limiter, locals, hooks
  <2>2. PlacesOK'
    BY <1>2 DEF TypeInv, PlacesOK, TypeOK, ReconfiguringPlaces, LoadBurstCount, Goto, Grant, limiter, locals, hooks
  <2> QED
    BY <2>1, <2>2 DEF TypeInv
<1>3. CASE BurstCas(t)
  <2>1. TypeOK'
    BY <1>3 DEF TypeInv, PlacesOK, TypeOK, BurstCas, Goto, Grant, limiter, locals, hooks
  <2>2. PlacesOK'
    BY <1>3 DEF TypeInv, PlacesOK, TypeOK, ReconfiguringPlaces, BurstCas, Goto, Grant, limiter, locals, hooks
  <2> QED
    BY <2>1, <2>2 DEF TypeInv
<1>4. CASE LoadLastEmptied(t)
  <2>1. TypeOK'
    BY <1>4 DEF TypeInv, PlacesOK, TypeOK, LoadLastEmptied, Goto, Grant, limiter, locals, hooks
  <2>2. PlacesOK'
    BY <1>4 DEF TypeInv, PlacesOK, TypeOK, ReconfiguringPlaces, LoadLastEmptied, Goto, Grant, limiter, locals, hooks
  <2> QED
    BY <2>1, <2>2 DEF TypeInv
<1>5. CASE RefillCas(t)
  <2>1. TypeOK'
    BY <1>5 DEF TypeInv, PlacesOK, TypeOK, RefillCas, Goto, Grant, limiter, locals, hooks
  <2>2. PlacesOK'
    BY <1>5 DEF TypeInv, PlacesOK, TypeOK, ReconfiguringPlaces, RefillCas, Goto, Grant, limiter, locals, hooks
  <2> QED
    BY <2>1, <2>2 DEF TypeInv
<1>6. CASE RefillCount(t)
  <2>1. TypeOK'
    BY <1>6 DEF TypeInv, PlacesOK, TypeOK, RefillCount, Goto, Grant, limiter, locals, hooks
  <2>2. PlacesOK'
    BY <1>6 DEF TypeInv, PlacesOK, TypeOK, ReconfiguringPlaces, RefillCount, Goto, Grant, limiter, locals, hooks
  <2> QED
    BY <2>1, <2>2 DEF TypeInv
<1> QED
  BY <1>1, <1>2, <1>3, <1>4, <1>5, <1>6 DEF Consume

\* So does the break-in: what it stores was measured.
LEMMA TypeBreakin ==
  ASSUME TypeInv, CreditInv, NEW t \in Users, Breakin(t)
  PROVE  TypeInv'
<1> USE BoundsAssumption, PercentAssumption DEF PC
<1>1. CASE LoadFullSpeed(t)
  <2>1. TypeOK'
    BY <1>1 DEF TypeInv, PlacesOK, TypeOK, LoadFullSpeed, Goto, Grant, limiter, locals, hooks
  <2>2. PlacesOK'
    BY <1>1 DEF TypeInv, PlacesOK, TypeOK, ReconfiguringPlaces, LoadFullSpeed, Goto, Grant, limiter, locals, hooks
  <2> QED
    BY <2>1, <2>2 DEF TypeInv
<1>2. CASE BreakinCount(t)
  <2>1. TypeOK'
    BY <1>2 DEF TypeInv, PlacesOK, TypeOK, BreakinCount, Goto, Grant, limiter, locals, hooks
  <2>2. PlacesOK'
    BY <1>2 DEF TypeInv, PlacesOK, TypeOK, ReconfiguringPlaces, BreakinCount, Goto, Grant, limiter, locals, hooks
  <2> QED
    BY <2>1, <2>2 DEF TypeInv
<1>3. CASE BreakinNow(t)
  <2>1. TypeOK'
    BY <1>3 DEF TypeInv, PlacesOK, TypeOK, BreakinNow, Goto, Grant, limiter, locals, hooks
  <2>2. PlacesOK'
    BY <1>3 DEF TypeInv, PlacesOK, TypeOK, ReconfiguringPlaces, BreakinNow, Goto, Grant, limiter, locals, hooks
  <2> QED
    BY <2>1, <2>2 DEF TypeInv
<1>4. CASE BreakinLoad(t)
  <2>1. TypeOK'
    BY <1>4 DEF TypeInv, PlacesOK, TypeOK, BreakinLoad, Goto, Grant, limiter, locals, hooks
  <2>2. PlacesOK'
    BY <1>4 DEF TypeInv, PlacesOK, TypeOK, ReconfiguringPlaces, BreakinLoad, Goto, Grant, limiter, locals, hooks
  <2> QED
    BY <2>1, <2>2 DEF TypeInv
<1>5. CASE BreakinTest(t)
  <2>1. TypeOK'
    BY <1>5 DEF TypeInv, PlacesOK, TypeOK, BreakinTest, Goto, Grant, limiter, locals, hooks
  <2>2. PlacesOK'
    BY <1>5 DEF TypeInv, PlacesOK, TypeOK, ReconfiguringPlaces, BreakinTest, Goto, Grant, limiter, locals, hooks
  <2> QED
    BY <2>1, <2>2 DEF TypeInv
<1>6. CASE BreakinCas(t)
  <2>1. TypeOK'
    <3>1. fullSpeed' \in BOOLEAN
      BY <1>6 DEF TypeInv, TypeOK, BreakinCas
    <3>2. grants' \in Nat /\ configured' \in Nat
      BY <1>6 DEF TypeInv, TypeOK, BreakinCas, Grant
    <3>3. pc' \in [Users -> PC]
      BY <1>6 DEF TypeInv, TypeOK, BreakinCas, Grant, Goto
    <3> QED
      BY <1>6, <3>1, <3>2, <3>3 DEF TypeInv, TypeOK, BreakinCas, locals, hooks
  <2>2. PlacesOK'
    BY <1>6 DEF TypeInv, PlacesOK, TypeOK, ReconfiguringPlaces, BreakinCas, Goto, Grant, limiter, locals, hooks
  <2> QED
    BY <2>1, <2>2 DEF TypeInv
<1>7. CASE Measure(t)
  <2>1. TypeOK'
    BY <1>7 DEF TypeInv, PlacesOK, TypeOK, Measure, Goto, Grant, limiter, locals, hooks
  <2>2. PlacesOK'
    BY <1>7 DEF TypeInv, PlacesOK, TypeOK, ReconfiguringPlaces, Measure, Goto, Grant, limiter, locals, hooks
  <2> QED
    BY <2>1, <2>2 DEF TypeInv
<1>8. CASE StoreBurstSize(t)
  <2>1. TypeOK'
    <3>1. (seen[t] * Percent) \div 100 \in Nat
      <4>1. seen[t] \in Nat /\ Percent \in Nat
        BY <1>8 DEF TypeInv, PlacesOK, StoreBurstSize, ReconfiguringPlaces
      <4>2. seen[t] * Percent \in Nat
        BY <4>1
      <4>3. \A n \in Nat : n \div 100 \in Nat
        OBVIOUS
      <4> QED
        BY <4>2, <4>3
    <3> QED
      BY <1>8, <3>1 DEF TypeInv, TypeOK, StoreBurstSize, Goto, locals, hooks
  <2>2. PlacesOK'
    BY <1>8 DEF TypeInv, PlacesOK, TypeOK, ReconfiguringPlaces, StoreBurstSize, Goto, Grant, limiter, locals, hooks
  <2> QED
    BY <2>1, <2>2 DEF TypeInv
<1>9. CASE StoreRate(t)
  <2>1. TypeOK'
    <3>1. target[t] \in Nat
      BY <1>9 DEF CreditInv, RateNotNegative, NumbersOK, StoreRate
    <3> QED
      BY <1>9, <3>1 DEF TypeInv, TypeOK, StoreRate, Goto, locals, hooks
  <2>2. PlacesOK'
    BY <1>9 DEF TypeInv, PlacesOK, TypeOK, ReconfiguringPlaces, StoreRate, Goto, Grant, limiter, locals, hooks
  <2> QED
    BY <2>1, <2>2 DEF TypeInv
<1>10. CASE RestartNow(t)
  <2>1. TypeOK'
    BY <1>10 DEF TypeInv, PlacesOK, TypeOK, RestartNow, Goto, Grant, limiter, locals, hooks
  <2>2. PlacesOK'
    BY <1>10 DEF TypeInv, PlacesOK, TypeOK, ReconfiguringPlaces, RestartNow, Goto, Grant, limiter, locals, hooks
  <2> QED
    BY <2>1, <2>2 DEF TypeInv
<1>11. CASE RestartBucket(t)
  <2>1. TypeOK'
    BY <1>11 DEF TypeInv, PlacesOK, TypeOK, RestartBucket, Goto, Grant, limiter, locals, hooks
  <2>2. PlacesOK'
    BY <1>11 DEF TypeInv, PlacesOK, TypeOK, ReconfiguringPlaces, RestartBucket, Goto, Grant, limiter, locals, hooks
  <2> QED
    BY <2>1, <2>2 DEF TypeInv
<1>12. CASE ZeroBurst(t)
  <2>1. TypeOK'
    BY <1>12 DEF TypeInv, PlacesOK, TypeOK, ZeroBurst, Goto, Grant, limiter, locals, hooks
  <2>2. PlacesOK'
    BY <1>12 DEF TypeInv, PlacesOK, TypeOK, ReconfiguringPlaces, ZeroBurst, Goto, Grant, limiter, locals, hooks
  <2> QED
    BY <2>1, <2>2 DEF TypeInv
<1>13. CASE EndFullSpeed(t)
  <2>1. TypeOK'
    <3>1. fullSpeed' \in BOOLEAN
      BY <1>13 DEF EndFullSpeed
    <3> QED
      BY <1>13, <3>1 DEF TypeInv, TypeOK, EndFullSpeed, Goto, Grant, locals, hooks
  <2>2. PlacesOK'
    BY <1>13 DEF TypeInv, PlacesOK, TypeOK, ReconfiguringPlaces, EndFullSpeed, Goto, Grant, limiter, locals, hooks
  <2> QED
    BY <2>1, <2>2 DEF TypeInv
<1> QED
  BY <1>1, <1>2, <1>3, <1>4, <1>5, <1>6, <1>7, <1>8, <1>9, <1>10, <1>11, <1>12, <1>13 DEF Breakin

\* So do the hooks and the clock.
LEMMA TypeHooks ==
  ASSUME TypeInv, CreditInv, PrePhaseHooks \/ Tick
  PROVE  TypeInv'
<1> USE BoundsAssumption, PercentAssumption DEF PC
<1>1. CASE BeginPhase
  <2>1. TypeOK'
    BY <1>1, SomeUsers DEF TypeInv, TypeOK, BeginPhase, limiter, locals
  <2>2. PlacesOK'
    BY <1>1, SomeUsers DEF TypeInv, PlacesOK, BeginPhase, limiter, locals
  <2> QED
    BY <2>1, <2>2 DEF TypeInv
<1>2. CASE ResetNow
  <2>1. TypeOK'
    BY <1>2 DEF TypeInv, PlacesOK, TypeOK, ResetNow, Goto, Grant, limiter, locals, hooks
  <2>2. PlacesOK'
    BY <1>2 DEF TypeInv, PlacesOK, TypeOK, ReconfiguringPlaces, ResetNow, Goto, Grant, limiter, locals, hooks
  <2> QED
    BY <2>1, <2>2 DEF TypeInv
<1>3. CASE ResetLastEmptied
  <2>1. TypeOK'
    <3>1. BurstLeft \in Nat
      BY BurstLeftType DEF TypeInv
    <3>2. phaseStart' \in 0..MaxClock /\ leftover' \in Nat /\ grants' \in Nat /\ configured' \in Nat
      BY <1>3, <3>1 DEF TypeInv, TypeOK, ResetLastEmptied, StartHistory
    <3> QED
      BY <1>3, <3>2 DEF TypeInv, TypeOK, ResetLastEmptied, locals
  <2>2. PlacesOK'
    BY <1>3 DEF TypeInv, PlacesOK, TypeOK, ReconfiguringPlaces, ResetLastEmptied, Goto, Grant, limiter, locals, hooks
  <2> QED
    BY <2>1, <2>2 DEF TypeInv
<1>4. CASE ResetIters
  <2>1. TypeOK'
    BY <1>4 DEF TypeInv, PlacesOK, TypeOK, ResetIters, Goto, Grant, limiter, locals, hooks
  <2>2. PlacesOK'
    BY <1>4 DEF TypeInv, PlacesOK, TypeOK, ReconfiguringPlaces, ResetIters, Goto, Grant, limiter, locals, hooks
  <2> QED
    BY <2>1, <2>2 DEF TypeInv
<1>5. CASE ResetFullSpeed
  <2>1. TypeOK'
    <3>1. fullSpeed' \in BOOLEAN
      BY <1>5 DEF TypeInv, TypeOK, ResetFullSpeed
    <3>2. hooksLeft' \in 0..Cardinality(Users)
      BY <1>5, SomeUsers DEF TypeInv, TypeOK, PlacesOK, ResetFullSpeed
    <3> QED
      BY <1>5, <3>1, <3>2 DEF TypeInv, TypeOK, ResetFullSpeed, locals
  <2>2. PlacesOK'
    BY <1>5 DEF TypeInv, PlacesOK, TypeOK, ReconfiguringPlaces, ResetFullSpeed, Goto, Grant, limiter, locals, hooks
  <2> QED
    BY <2>1, <2>2 DEF TypeInv
<1>6. CASE Tick
  <2>1. TypeOK'
    BY <1>6 DEF TypeInv, PlacesOK, TypeOK, Tick, Goto, Grant, limiter, locals, hooks
  <2>2. PlacesOK'
    BY <1>6 DEF TypeInv, PlacesOK, TypeOK, ReconfiguringPlaces, Tick, Goto, Grant, limiter, locals, hooks
  <2> QED
    BY <2>1, <2>2 DEF TypeInv
<1> QED
  BY <1>1, <1>2, <1>3, <1>4, <1>5, <1>6 DEF PrePhaseHooks

\* The types and the places hold throughout.
LEMMA TypeAlways == Spec => []TypeInv
<1>1. TypeInv /\ CreditInv /\ [Next]_vars => TypeInv'
  <2> SUFFICES ASSUME TypeInv, CreditInv, [Next]_vars PROVE TypeInv'
    OBVIOUS
  <2>1. CASE \E t \in Users : Breakin(t) \/ Consume(t) \/ LimitRate(t)
    BY <2>1, TypeBreakin, TypeConsume, TypeLimitRate
  <2>2. CASE PrePhaseHooks \/ Tick
    BY <2>2, TypeHooks
  <2>3. CASE UNCHANGED vars
    BY <2>3 DEF TypeInv, TypeOK, PlacesOK, vars, limiter, locals, hooks
  <2> QED
    BY <2>1, <2>2, <2>3 DEF Next
<1> QED
  BY <1>1, TypeInit, CreditAlways, PTL DEF Spec

\* TypeOK: for every number of users, every rate and both kinds of limiter,
\* _burstSize and _rateNS stay natural numbers although threads that measure
\* them read the clock and the bucket separately, and the hooks are as many as
\* the users.
THEOREM LimiterTypes == Spec => []TypeOK
<1>1. TypeInv => TypeOK
  BY DEF TypeInv
<1> QED
  BY <1>1, TypeAlways, PTL

-----------------------------------------------------------------------------
(* The reconfiguration of a percentile limiter that only blocking threads  *)
(* use.  (The hooks set _fullSpeed again whatever a background thread is    *)
(* doing, so that two of those may reconfigure it.)                         *)

\* The hooks run while every user waits for the phase.
Quiet == hook # "none" => \A t \in Users : pc[t] = "out"

\* Whoever reconfigures took _fullSpeed away from the others.
MeasuresAlone ==
  /\ fullSpeed => \A t \in Users : pc[t] \notin ReconfiguringPlaces
  /\ \A s, t \in Users :
       pc[s] \in ReconfiguringPlaces /\ pc[t] \in ReconfiguringPlaces => s = t

\* Until somebody does, the phase has no reconfiguration, from its first reset.
ConfiguredOnce ==
  /\ configured \in {0, 1}
  /\ hook = "none" /\ fullSpeed => configured = 0
  /\ hook = "none" /\ ~fullSpeed /\ Percent # Unset => configured = 1
  /\ hook \in {"iters", "fullSpeed"} => configured = 0
  /\ hook # "none" /\ hooksLeft # Cardinality(Users) => configured = 0

\* The period that is or will be stored is a minute or more.
MinuteMeasured ==
  /\ \A t \in Users : pc[t] \in {"breakinCas", "measure", "store", "storeRate"}
                        => target[t] >= Minute
  /\ hook = "none" /\ ~fullSpeed /\ Percent # Unset =>
       rateNS >= Minute \/ \E t \in Users : pc[t] \in {"measure", "store", "storeRate"}

ReconfigInv == Quiet /\ MeasuresAlone /\ ConfiguredOnce /\ MinuteMeasured

LEMMA ReconfigInit == Init => ReconfigInv
<1> SUFFICES ASSUME Init PROVE ReconfigInv
  OBVIOUS
<1>1. Quiet /\ ConfiguredOnce /\ MinuteMeasured
  BY DEF Init, Quiet, ConfiguredOnce, MinuteMeasured
<1>2. MeasuresAlone
  BY DEF Init, MeasuresAlone, ReconfiguringPlaces
<1> QED
  BY <1>1, <1>2 DEF ReconfigInv

\* A step of a user that has no part in the reconfiguration.
Bystander(t) ==
  /\ hook = "none"
  /\ pc[t] \notin {"measure", "store", "storeRate"}
  /\ \E label \in PC \ (ReconfiguringPlaces \cup {"breakinCas"}) : Goto(t, label)
  /\ \A s \in Users \ {t} : target'[s] = target[s]
  /\ UNCHANGED <<rateNS, fullSpeed, hook, hooksLeft, configured>>

LEMMA BystanderKeeps ==
  ASSUME TypeInv, ReconfigInv, NEW t \in Users, Bystander(t)
  PROVE  ReconfigInv'
<1>0. pc \in [Users -> PC]
  BY DEF TypeInv, TypeOK
<1>1. PICK label \in PC \ (ReconfiguringPlaces \cup {"breakinCas"}) : Goto(t, label)
  BY DEF Bystander
<1>2. \A s \in Users : pc'[s] = IF s = t THEN label ELSE pc[s]
  BY <1>0, <1>1 DEF Goto
<1>3. Quiet' /\ ConfiguredOnce'
  BY DEF ReconfigInv, Quiet, ConfiguredOnce, Bystander
<1>4. MeasuresAlone'
  BY <1>2 DEF ReconfigInv, MeasuresAlone, Bystander
<1>5. MinuteMeasured'
  BY <1>2 DEF ReconfigInv, MinuteMeasured, Bystander, ReconfiguringPlaces
<1> QED
  BY <1>3, <1>4, <1>5 DEF ReconfigInv

\* A user that is not out is in a phase that has begun.
LEMMA BusyInPhase ==
  ASSUME ReconfigInv, NEW t \in Users, pc[t] # "out"
  PROVE  hook = "none"
BY DEF ReconfigInv, Quiet

\* The retry loop and the two buckets have no part in it.
LEMMA ReconfigConsume ==
  ASSUME Background = {}, TypeInv, ReconfigInv, NEW t \in Users, LimitRate(t) \/ Consume(t)
  PROVE  ReconfigInv'
<1> USE DEF PC, ReconfiguringPlaces
<1>1. CASE Enter(t)
  <2>1. hook = "none"
    BY <1>1, BusyInPhase DEF Enter
  <2> QED
    BY <1>1, <2>1, BystanderKeeps DEF Bystander, TypeInv, TypeOK, Enter, Goto, Grant, limiter, locals, hooks
<1>2. CASE ReadClock(t)
  <2>1. hook = "none"
    BY <1>2, BusyInPhase DEF ReadClock
  <2> QED
    BY <1>2, <2>1, BystanderKeeps DEF Bystander, TypeInv, TypeOK, ReadClock, Goto, Grant, limiter, locals, hooks
<1>3. CASE Retry(t)
  <2>1. hook = "none"
    BY <1>3, BusyInPhase DEF Retry
  <2> QED
    BY <1>3, <2>1, BystanderKeeps DEF Bystander, TypeInv, TypeOK, Retry, Goto, Grant, limiter, locals, hooks
<1>4. CASE GiveUp(t)
  <2>1. hook = "none"
    BY <1>4, BusyInPhase DEF GiveUp
  <2> QED
    BY <1>4, <2>1, BystanderKeeps DEF Bystander, TypeInv, TypeOK, GiveUp, Goto, Grant, limiter, locals, hooks
<1>5. CASE notifyOfIteration(t)
  <2>1. hook = "none"
    BY <1>5, BusyInPhase DEF notifyOfIteration
  <2> QED
    BY <1>5, <2>1, BystanderKeeps DEF Bystander, TypeInv, TypeOK, notifyOfIteration, Goto, Grant, limiter, locals, hooks
<1>6. CASE TestBurstSize(t)
  <2>1. hook = "none"
    BY <1>6, BusyInPhase DEF TestBurstSize
  <2> QED
    BY <1>6, <2>1, BystanderKeeps DEF Bystander, TypeInv, TypeOK, TestBurstSize, Goto, Grant, limiter, locals, hooks
<1>7. CASE LoadBurstCount(t)
  <2>1. hook = "none"
    BY <1>7, BusyInPhase DEF LoadBurstCount
  <2> QED
    BY <1>7, <2>1, BystanderKeeps DEF Bystander, TypeInv, TypeOK, LoadBurstCount, Goto, Grant, limiter, locals, hooks
<1>8. CASE BurstCas(t)
  <2>1. hook = "none"
    BY <1>8, BusyInPhase DEF BurstCas
  <2> QED
    BY <1>8, <2>1, BystanderKeeps DEF Bystander, TypeInv, TypeOK, BurstCas, Goto, Grant, limiter, locals, hooks
<1>9. CASE LoadLastEmptied(t)
  <2>1. hook = "none"
    BY <1>9, BusyInPhase DEF LoadLastEmptied
  <2> QED
    BY <1>9, <2>1, BystanderKeeps DEF Bystander, TypeInv, TypeOK, LoadLastEmptied, Goto, Grant, limiter, locals, hooks
<1>10. CASE RefillCas(t)
  <2>1. hook = "none"
    BY <1>10, BusyInPhase DEF RefillCas
  <2> QED
    BY <1>10, <2>1, BystanderKeeps DEF Bystander, TypeInv, TypeOK, RefillCas, Goto, Grant, limiter, locals, hooks
<1>11. CASE RefillCount(t)
  <2>1. hook = "none"
    BY <1>11, BusyInPhase DEF RefillCount
  <2> QED
    BY <1>11, <2>1, BystanderKeeps DEF Bystander, TypeInv, TypeOK, RefillCount, Goto, Grant, limiter, locals, hooks
<1> QED
  BY <1>1, <1>2, <1>3, <1>4, <1>5, <1>6, <1>7, <1>8, <1>9, <1>10, <1>11 DEF LimitRate, Consume

\* A step of the one thread that reconfigures: it stays alone, and it leaves
\* behind a period of a minute or more.
LEMMA ReconfigBreakin ==
  ASSUME TypeInv, ReconfigInv, NEW t \in Users, Breakin(t)
  PROVE  ReconfigInv'
<1> USE DEF PC, ReconfiguringPlaces
<1>0. hook = "none" /\ pc \in [Users -> PC]
  BY BusyInPhase DEF TypeInv, TypeOK, Breakin, LoadFullSpeed, BreakinCount, BreakinNow, BreakinLoad,
     BreakinTest, BreakinCas, Measure, StoreBurstSize, StoreRate, RestartNow, RestartBucket,
     ZeroBurst, EndFullSpeed
<1>1. CASE LoadFullSpeed(t)
  BY <1>1, <1>0, BystanderKeeps DEF Bystander, TypeInv, TypeOK, LoadFullSpeed, Goto, limiter, locals, hooks
<1>2. CASE BreakinCount(t)
  BY <1>2, <1>0, BystanderKeeps DEF Bystander, TypeInv, TypeOK, BreakinCount, Goto, limiter, locals, hooks
<1>3. CASE BreakinNow(t)
  BY <1>3, <1>0, BystanderKeeps DEF Bystander, TypeInv, TypeOK, BreakinNow, Goto, limiter, locals, hooks
<1>4. CASE BreakinLoad(t)
  BY <1>4, <1>0, BystanderKeeps DEF Bystander, TypeInv, TypeOK, BreakinLoad, Goto, limiter, locals, hooks
<1>5. CASE BreakinTest(t)
  <2>1. CASE BreakinOver(t)
    <3>1. pc' = [pc EXCEPT ![t] = "breakinCas"] /\ target[t] >= Minute
      BY <1>5, <2>1 DEF BreakinTest, BreakinOver, Goto
    <3>2. pc[t] = "iters" /\ UNCHANGED <<rateNS, fullSpeed, hook, hooksLeft, configured, target>>
      BY <1>5 DEF BreakinTest, limiter, locals, hooks
    <3>3. Quiet' /\ ConfiguredOnce'
      BY <1>0, <3>2 DEF ReconfigInv, Quiet, ConfiguredOnce
    <3>4. MeasuresAlone' /\ MinuteMeasured'
      BY <1>0, <3>1, <3>2 DEF ReconfigInv, MeasuresAlone, MinuteMeasured
    <3> QED
      BY <3>3, <3>4 DEF ReconfigInv
  <2>2. CASE ~BreakinOver(t)
    BY <1>5, <2>2, <1>0, BystanderKeeps DEF Bystander, BreakinTest, Grant, Goto, limiter, locals, hooks
  <2> QED
    BY <2>1, <2>2
<1>6. CASE BreakinCas(t)
  <2>1. CASE fullSpeed /\ fullSpeed' = FALSE /\ configured' = configured + 1 /\ Goto(t, "measure")
    <3>1. pc[t] = "breakinCas" /\ UNCHANGED <<rateNS, hook, hooksLeft, target>>
      BY <1>6 DEF BreakinCas, locals, hooks
    <3>2. pc' = [pc EXCEPT ![t] = "measure"]
      BY <2>1 DEF Goto
    <3>3. configured' = 1
      BY <1>0, <2>1 DEF ReconfigInv, ConfiguredOnce
    <3>4. Quiet' /\ ConfiguredOnce'
      BY <1>0, <2>1, <3>1, <3>3 DEF ReconfigInv, Quiet, ConfiguredOnce
    <3>5. MeasuresAlone'
      BY <1>0, <2>1, <3>2 DEF ReconfigInv, MeasuresAlone
    <3>6. MinuteMeasured'
      BY <1>0, <3>1, <3>2 DEF ReconfigInv, MinuteMeasured
    <3> QED
      BY <3>4, <3>5, <3>6 DEF ReconfigInv
  <2>2. CASE Grant(t) /\ UNCHANGED <<fullSpeed, configured>>
    BY <1>6, <2>2, <1>0, BystanderKeeps DEF Bystander, BreakinCas, Grant, locals, hooks
  <2> QED
    BY <1>6, <2>1, <2>2 DEF BreakinCas
<1>7. CASE Measure(t)
  <2>1. UNCHANGED <<fullSpeed, hook, hooksLeft, configured, target>>
    BY <1>7 DEF Measure, limiter, locals, hooks
  <2>2. Quiet' /\ ConfiguredOnce'
    BY <1>0, <2>1 DEF ReconfigInv, Quiet, ConfiguredOnce
  <2>3. MeasuresAlone'
    BY <1>0, <1>7, <2>1 DEF ReconfigInv, MeasuresAlone, Measure, Goto
  <2>4. MinuteMeasured'
    BY <1>0, <1>7, <2>1 DEF ReconfigInv, MinuteMeasured, Measure, Goto, limiter
  <2> QED
    BY <2>2, <2>3, <2>4 DEF ReconfigInv
<1>8. CASE StoreBurstSize(t)
  <2>1. UNCHANGED <<fullSpeed, hook, hooksLeft, configured, target>>
    BY <1>8 DEF StoreBurstSize, limiter, locals, hooks
  <2>2. Quiet' /\ ConfiguredOnce'
    BY <1>0, <2>1 DEF ReconfigInv, Quiet, ConfiguredOnce
  <2>3. MeasuresAlone'
    BY <1>0, <1>8, <2>1 DEF ReconfigInv, MeasuresAlone, StoreBurstSize, Goto
  <2>4. MinuteMeasured'
    BY <1>0, <1>8, <2>1 DEF ReconfigInv, MinuteMeasured, StoreBurstSize, Goto, limiter
  <2> QED
    BY <2>2, <2>3, <2>4 DEF ReconfigInv
<1>9. CASE StoreRate(t)
  <2>1. UNCHANGED <<fullSpeed, hook, hooksLeft, configured, target>>
    BY <1>9 DEF StoreRate, limiter, locals, hooks
  <2>2. Quiet' /\ ConfiguredOnce'
    BY <1>0, <2>1 DEF ReconfigInv, Quiet, ConfiguredOnce
  <2>3. MeasuresAlone'
    BY <1>0, <1>9, <2>1 DEF ReconfigInv, MeasuresAlone, StoreRate, Goto
  <2>4. MinuteMeasured'
    BY <1>0, <1>9, <2>1 DEF ReconfigInv, MinuteMeasured, StoreRate, Goto, limiter
  <2> QED
    BY <2>2, <2>3, <2>4 DEF ReconfigInv
<1>10. CASE RestartNow(t)
  <2>1. UNCHANGED <<fullSpeed, hook, hooksLeft, configured, target>>
    BY <1>10 DEF RestartNow, limiter, locals, hooks
  <2>2. Quiet' /\ ConfiguredOnce'
    BY <1>0, <2>1 DEF ReconfigInv, Quiet, ConfiguredOnce
  <2>3. MeasuresAlone'
    BY <1>0, <1>10, <2>1 DEF ReconfigInv, MeasuresAlone, RestartNow, Goto
  <2>4. MinuteMeasured'
    BY <1>0, <1>10, <2>1 DEF ReconfigInv, MinuteMeasured, RestartNow, Goto, limiter
  <2> QED
    BY <2>2, <2>3, <2>4 DEF ReconfigInv
<1>11. CASE RestartBucket(t)
  <2>1. UNCHANGED <<fullSpeed, hook, hooksLeft, configured, target>>
    BY <1>11 DEF RestartBucket, limiter, locals, hooks
  <2>2. Quiet' /\ ConfiguredOnce'
    BY <1>0, <2>1 DEF ReconfigInv, Quiet, ConfiguredOnce
  <2>3. MeasuresAlone'
    BY <1>0, <1>11, <2>1 DEF ReconfigInv, MeasuresAlone, RestartBucket, Goto
  <2>4. MinuteMeasured'
    BY <1>0, <1>11, <2>1 DEF ReconfigInv, MinuteMeasured, RestartBucket, Goto, limiter
  <2> QED
    BY <2>2, <2>3, <2>4 DEF ReconfigInv
<1>12. CASE ZeroBurst(t)
  <2>1. UNCHANGED <<fullSpeed, hook, hooksLeft, configured, target>>
    BY <1>12 DEF ZeroBurst, limiter, locals, hooks
  <2>2. Quiet' /\ ConfiguredOnce'
    BY <1>0, <2>1 DEF ReconfigInv, Quiet, ConfiguredOnce
  <2>3. MeasuresAlone'
    BY <1>0, <1>12, <2>1 DEF ReconfigInv, MeasuresAlone, ZeroBurst, Goto
  <2>4. MinuteMeasured'
    BY <1>0, <1>12, <2>1 DEF ReconfigInv, MinuteMeasured, ZeroBurst, Goto, limiter
  <2> QED
    BY <2>2, <2>3, <2>4 DEF ReconfigInv
<1>13. CASE EndFullSpeed(t)
  <2>1. ~fullSpeed
    BY <1>13 DEF ReconfigInv, MeasuresAlone, EndFullSpeed
  <2> QED
    BY <1>13, <1>0, <2>1, BystanderKeeps DEF Bystander, TypeInv, TypeOK, EndFullSpeed, Grant, Goto, locals, hooks
<1> QED
  BY <1>1, <1>2, <1>3, <1>4, <1>5, <1>6, <1>7, <1>8, <1>9, <1>10, <1>11, <1>12, <1>13 DEF Breakin

\* The hooks find everybody out, and leave no reconfiguration to the phase.
LEMMA ReconfigHooks ==
  ASSUME Background = {}, TypeInv, ReconfigInv, PrePhaseHooks \/ Tick
  PROVE  ReconfigInv'
<1>1. CASE BeginPhase
  BY <1>1 DEF ReconfigInv, Quiet, MeasuresAlone, ConfiguredOnce, MinuteMeasured, BeginPhase, limiter, locals
<1>2. CASE ResetNow
  BY <1>2 DEF ReconfigInv, Quiet, MeasuresAlone, ConfiguredOnce, MinuteMeasured, ResetNow, limiter, locals
<1>3. CASE ResetLastEmptied
  <2>1. configured' = 0
    BY <1>3 DEF ReconfigInv, ConfiguredOnce, ResetLastEmptied, StartHistory
  <2> QED
    BY <1>3, <2>1 DEF ReconfigInv, Quiet, MeasuresAlone, ConfiguredOnce, MinuteMeasured, ResetLastEmptied, locals
<1>4. CASE ResetIters
  BY <1>4 DEF ReconfigInv, Quiet, MeasuresAlone, ConfiguredOnce, MinuteMeasured, ResetIters, locals
<1>5. CASE ResetFullSpeed
  <2>1. Quiet'
    BY <1>5 DEF ReconfigInv, Quiet, ResetFullSpeed
  <2>2. MeasuresAlone'
    BY <1>5 DEF ReconfigInv, Quiet, MeasuresAlone, ResetFullSpeed, ReconfiguringPlaces
  <2>3. ConfiguredOnce'
    BY <1>5, SomeUsers DEF TypeInv, TypeOK, PlacesOK, ReconfigInv, ConfiguredOnce, ResetFullSpeed
  <2>4. MinuteMeasured'
    BY <1>5 DEF ReconfigInv, Quiet, MinuteMeasured, ResetFullSpeed, locals
  <2> QED
    BY <2>1, <2>2, <2>3, <2>4 DEF ReconfigInv
<1>6. CASE Tick
  BY <1>6 DEF ReconfigInv, Quiet, MeasuresAlone, ConfiguredOnce, MinuteMeasured, Tick, limiter, locals, hooks
<1> QED
  BY <1>1, <1>2, <1>3, <1>4, <1>5, <1>6 DEF PrePhaseHooks

LEMMA ReconfigAlways ==
  ASSUME Background = {}
  PROVE  Spec => []ReconfigInv
<1>1. TypeInv /\ ReconfigInv /\ [Next]_vars => ReconfigInv'
  <2> SUFFICES ASSUME TypeInv, ReconfigInv, [Next]_vars PROVE ReconfigInv'
    OBVIOUS
  <2>1. CASE \E t \in Users : Breakin(t) \/ Consume(t) \/ LimitRate(t)
    BY <2>1, ReconfigBreakin, ReconfigConsume
  <2>2. CASE PrePhaseHooks \/ Tick
    BY <2>2, ReconfigHooks
  <2>3. CASE UNCHANGED vars
    BY <2>3 DEF ReconfigInv, Quiet, MeasuresAlone, ConfiguredOnce, MinuteMeasured,
                vars, limiter, locals, hooks
  <2> QED
    BY <2>1, <2>2, <2>3 DEF Next
<1> QED
  BY <1>1, ReconfigInit, TypeAlways, PTL DEF Spec

\* OneReconfigurer: of any number of blocking threads that end the break-in at
\* the same moment, one takes _fullSpeed and reconfigures, once in a phase.
THEOREM ReconfiguredByOne ==
  ASSUME Background = {}
  PROVE  Spec => []OneReconfigurer
<1>1. ReconfigInv => OneReconfigurer
  <2> SUFFICES ASSUME ReconfigInv PROVE OneReconfigurer
    OBVIOUS
  <2>1. configured <= 1
    BY DEF ReconfigInv, ConfiguredOnce
  <2>2. Cardinality(Reconfiguring) <= 1
    <3>1. CASE Reconfiguring = {}
      BY <3>1, FS_EmptySet
    <3>2. CASE Reconfiguring # {}
      <4>1. PICK t \in Users : t \in Reconfiguring
        BY <3>2 DEF Reconfiguring
      <4>2. Reconfiguring = {t}
        BY <4>1 DEF Reconfiguring, ReconfigInv, MeasuresAlone
      <4>3. Cardinality({t}) = 1
        BY FS_Singleton
      <4> QED
        BY <4>2, <4>3
    <3> QED
      BY <3>1, <3>2
  <2> QED
    BY <2>1, <2>2 DEF OneReconfigurer
<1> QED
  BY <1>1, ReconfigAlways, PTL

-----------------------------------------------------------------------------
(* The first phase of a percentile limiter: the period was 0 before it, so  *)
(* resetLastEmptied() puts the time nowhere back, and what is measured has  *)
(* passed since the phase began.                                            *)

\* Before the phase has begun.
BeforeFirst ==
  /\ phaseStart <= clock
  /\ phase = 0 => \A t \in Users : pc[t] = "out"
  /\ phase = 0 \/ (phase = 1 /\ hook # "none") => rateNS = 0

\* While its hooks run.
FirstResets ==
  phase = 1 /\ hook # "none" =>
    /\ hook \in {"iters", "fullSpeed"} \/ hooksLeft # Cardinality(Users) => phaseStart <= lastEmptied
    /\ hook = "lastEmptied" /\ hooksLeft # Cardinality(Users) => phaseStart <= hookNow

\* What a thread holds in its first phase is a time of that phase.
OfFirst(t) ==
  /\ pc[t] \in {"sinceNow", "refillCas"} => phaseStart <= target[t]
  /\ pc[t] \in {"iters", "breakinCas", "measure", "store", "storeRate"} => target[t] <= clock - phaseStart
  /\ pc[t] = "restart" => rateNS <= now[t] - phaseStart

FirstPhase ==
  phase = 1 /\ hook = "none" =>
    /\ phaseStart <= lastEmptied /\ rateNS <= clock - phaseStart
    /\ \A t \in Users : OfFirst(t)

FirstInv == BeforeFirst /\ FirstResets /\ FirstPhase

LEMMA FirstInit == ASSUME Percent # Unset PROVE Init => FirstInv
BY DEF Init, FirstInv, BeforeFirst, FirstResets, FirstPhase

\* A step of a user, which moves no other.
LEMMA FirstKeeps ==
  ASSUME TypeInv, ReconfigInv, FirstInv, NEW t \in Users, NEW label \in PC, Goto(t, label),
         hook = "none", phase # 0,
         UNCHANGED <<clock, hook, hookNow, hooksLeft, phase, phaseStart>>,
         \A s \in Users \ {t} : target'[s] = target[s] /\ now'[s] = now[s],
         rateNS' = rateNS \/ pc[t] \in ReconfiguringPlaces,
         phase = 1 => phaseStart <= lastEmptied' /\ rateNS' <= clock - phaseStart /\ OfFirst(t)'
  PROVE  FirstInv'
<1>1. \A s \in Users : pc'[s] = IF s = t THEN label ELSE pc[s]
  BY DEF TypeInv, TypeOK, Goto
<1>2. BeforeFirst' /\ FirstResets'
  BY DEF FirstInv, BeforeFirst, FirstResets
<1>3. ASSUME phase = 1, NEW s \in Users \ {t} PROVE OfFirst(s)'
  <2>1. OfFirst(s)
    BY <1>3 DEF FirstInv, FirstPhase
  <2>2. pc[s] = "restart" => rateNS' = rateNS
    BY <1>3 DEF ReconfigInv, MeasuresAlone, ReconfiguringPlaces
  <2> QED
    BY <1>1, <1>3, <2>1, <2>2 DEF OfFirst
<1>4. FirstPhase'
  BY <1>3 DEF FirstPhase
<1> QED
  BY <1>2, <1>4 DEF FirstInv

LEMMA FirstUser ==
  ASSUME Percent # Unset, Background = {}, TypeInv, ReconfigInv, CreditInv, FirstInv,
         NEW t \in Users, LimitRate(t) \/ Consume(t) \/ Breakin(t)
  PROVE  FirstInv'
<1> USE DEF PC
<1>h. hook = "none" /\ phase # 0
  <2>1. CASE Enter(t)
    BY <2>1 DEF Enter, TypeInv, TypeOK
  <2>2. CASE ~Enter(t)
    <3>1. pc[t] # "out"
      BY <2>2 DEF LimitRate, Consume, Breakin, ReadClock, Retry, GiveUp, notifyOfIteration, TestBurstSize,
         LoadBurstCount, BurstCas, LoadLastEmptied, RefillCas, RefillCount, LoadFullSpeed, BreakinCount,
         BreakinNow, BreakinLoad, BreakinTest, BreakinCas, Measure, StoreBurstSize, StoreRate, RestartNow,
         RestartBucket, ZeroBurst, EndFullSpeed
    <3> QED
      BY <3>1, BusyInPhase DEF FirstInv, BeforeFirst
  <2> QED
    BY <2>1, <2>2
<1>n. /\ clock \in Int /\ lastEmptied \in Int /\ rateNS \in Nat /\ phaseStart \in Int
      /\ pc \in [Users -> PC] /\ now \in [Users -> Int] /\ target \in [Users -> Int]
      /\ now[t] <= clock /\ lastEmptied <= clock
  <2>1. clock \in Int /\ phaseStart \in Int
    BY BoundsAssumption DEF TypeInv, TypeOK
  <2> QED
    BY <2>1 DEF TypeInv, TypeOK, CreditInv, NumbersOK, NobodyAhead, NoFutureCredit
<1>f. phase = 1 => phaseStart <= lastEmptied /\ rateNS <= clock - phaseStart /\ OfFirst(t)
  BY <1>h DEF FirstInv, FirstPhase
<1> USE <1>h, <1>n, <1>f DEF OfFirst
<1>1. CASE Enter(t)
  <2>1. PICK label \in PC : Goto(t, label)
    BY <1>1 DEF Enter, Goto
  <2> QED
    BY <1>1, <2>1, FirstKeeps DEF Enter, Goto, limiter, locals, hooks, ReconfiguringPlaces
<1>2. CASE ReadClock(t)
  <2>1. PICK label \in PC : Goto(t, label)
    BY <1>2 DEF ReadClock, Goto
  <2> QED
    BY <1>2, <2>1, FirstKeeps DEF ReadClock, Goto, limiter, locals, hooks, ReconfiguringPlaces
<1>3. CASE Retry(t)
  <2>1. PICK label \in PC : Goto(t, label)
    BY <1>3 DEF Retry, Goto
  <2> QED
    BY <1>3, <2>1, FirstKeeps DEF Retry, Goto, limiter, locals, hooks, ReconfiguringPlaces
<1>4. CASE GiveUp(t)
  <2>1. PICK label \in PC : Goto(t, label)
    BY <1>4 DEF GiveUp, Goto
  <2> QED
    BY <1>4, <2>1, FirstKeeps DEF GiveUp, Goto, limiter, locals, hooks, ReconfiguringPlaces
<1>5. CASE notifyOfIteration(t)
  <2>1. PICK label \in PC : Goto(t, label)
    BY <1>5 DEF notifyOfIteration, Goto
  <2> QED
    BY <1>5, <2>1, FirstKeeps DEF notifyOfIteration, Goto, limiter, locals, hooks, ReconfiguringPlaces
<1>6. CASE TestBurstSize(t)
  <2>1. PICK label \in PC : Goto(t, label)
    BY <1>6 DEF TestBurstSize, Goto
  <2>2. /\ UNCHANGED <<clock, hook, hookNow, hooksLeft, phase, phaseStart, lastEmptied, rateNS>>
        /\ \A s \in Users \ {t} : target'[s] = target[s] /\ now'[s] = now[s]
    BY <1>6 DEF TestBurstSize, limiter, locals, hooks
  <2>3. pc'[t] \in {"burstLoad", "refill"}
    BY <1>6 DEF TestBurstSize, Goto, limiter, locals
  <2>4. phase = 1 => phaseStart <= lastEmptied' /\ rateNS' <= clock - phaseStart /\ OfFirst(t)'
    BY <2>2, <2>3
  <2> QED
    BY <2>1, <2>2, <2>3, <2>4, FirstKeeps DEF ReconfiguringPlaces
<1>7. CASE LoadBurstCount(t)
  <2>1. PICK label \in PC : Goto(t, label)
    BY <1>7 DEF LoadBurstCount, Goto
  <2>2. /\ UNCHANGED <<clock, hook, hookNow, hooksLeft, phase, phaseStart, lastEmptied, rateNS>>
        /\ \A s \in Users \ {t} : target'[s] = target[s] /\ now'[s] = now[s]
    BY <1>7 DEF LoadBurstCount, limiter, locals, hooks
  <2>3. pc'[t] \in {"fpe", "burstCas", "refill"}
    BY <1>7 DEF LoadBurstCount, Goto, limiter, locals
  <2>4. phase = 1 => phaseStart <= lastEmptied' /\ rateNS' <= clock - phaseStart /\ OfFirst(t)'
    BY <2>2, <2>3
  <2> QED
    BY <2>1, <2>2, <2>3, <2>4, FirstKeeps DEF ReconfiguringPlaces
<1>8. CASE BurstCas(t)
  <2>1. PICK label \in PC : Goto(t, label)
    BY <1>8 DEF BurstCas, Goto, Grant
  <2>2. /\ UNCHANGED <<clock, hook, hookNow, hooksLeft, phase, phaseStart, lastEmptied, rateNS>>
        /\ \A s \in Users \ {t} : target'[s] = target[s] /\ now'[s] = now[s]
    BY <1>8 DEF BurstCas, limiter, locals, hooks
  <2>3. pc'[t] \in {"granted", "denied"}
    BY <1>8 DEF BurstCas, Goto, limiter, locals, Grant
  <2>4. phase = 1 => phaseStart <= lastEmptied' /\ rateNS' <= clock - phaseStart /\ OfFirst(t)'
    BY <2>2, <2>3
  <2> QED
    BY <2>1, <2>2, <2>3, <2>4, FirstKeeps DEF ReconfiguringPlaces
<1>9. CASE LoadLastEmptied(t)
  <2>1. PICK label \in PC : Goto(t, label)
    BY <1>9 DEF LoadLastEmptied, Goto, WithinRate
  <2>2. /\ UNCHANGED <<clock, hook, hookNow, hooksLeft, phase, phaseStart, lastEmptied, rateNS>>
        /\ \A s \in Users \ {t} : target'[s] = target[s] /\ now'[s] = now[s]
    BY <1>9 DEF LoadLastEmptied, limiter, locals, hooks
  <2>3. pc'[t] \in {"refillCas", "denied"} /\ target'[t] = lastEmptied + rateNS
    BY <1>9 DEF LoadLastEmptied, Goto, limiter, locals, WithinRate
  <2>4. phase = 1 => phaseStart <= lastEmptied' /\ rateNS' <= clock - phaseStart /\ OfFirst(t)'
    BY <2>2, <2>3
  <2> QED
    BY <2>1, <2>2, <2>3, <2>4, FirstKeeps DEF ReconfiguringPlaces
<1>10. CASE RefillCas(t)
  <2>1. PICK label \in PC : Goto(t, label)
    BY <1>10 DEF RefillCas, Goto
  <2>2. /\ UNCHANGED <<clock, hook, hookNow, hooksLeft, phase, phaseStart, rateNS>>
        /\ \A s \in Users \ {t} : target'[s] = target[s] /\ now'[s] = now[s]
    BY <1>10 DEF RefillCas, limiter, locals, hooks
  <2>3. pc[t] = "refillCas" /\ pc'[t] \in {"refillCount", "denied"} /\ lastEmptied' \in {lastEmptied, target[t]}
    BY <1>10 DEF RefillCas, Goto, limiter, locals
  <2>4. phase = 1 => phaseStart <= lastEmptied' /\ rateNS' <= clock - phaseStart /\ OfFirst(t)'
    BY <2>2, <2>3
  <2> QED
    BY <2>1, <2>2, <2>3, <2>4, FirstKeeps DEF ReconfiguringPlaces
<1>11. CASE RefillCount(t)
  <2>1. PICK label \in PC : Goto(t, label)
    BY <1>11 DEF RefillCount, Goto
  <2> QED
    BY <1>11, <2>1, FirstKeeps DEF RefillCount, Goto, limiter, locals, hooks, ReconfiguringPlaces
<1>12. CASE LoadFullSpeed(t)
  <2>1. PICK label \in PC : Goto(t, label)
    BY <1>12 DEF LoadFullSpeed, Goto
  <2>2. /\ UNCHANGED <<clock, hook, hookNow, hooksLeft, phase, phaseStart, lastEmptied, rateNS>>
        /\ \A s \in Users \ {t} : target'[s] = target[s] /\ now'[s] = now[s]
    BY <1>12 DEF LoadFullSpeed, limiter, locals, hooks
  <2>3. pc'[t] \in {"count", "burst"}
    BY <1>12 DEF LoadFullSpeed, Goto, limiter, locals
  <2>4. phase = 1 => phaseStart <= lastEmptied' /\ rateNS' <= clock - phaseStart /\ OfFirst(t)'
    BY <2>2, <2>3
  <2> QED
    BY <2>1, <2>2, <2>3, <2>4, FirstKeeps DEF ReconfiguringPlaces
<1>13. CASE BreakinCount(t)
  <2>1. PICK label \in PC : Goto(t, label)
    BY <1>13 DEF BreakinCount, Goto
  <2> QED
    BY <1>13, <2>1, FirstKeeps DEF BreakinCount, Goto, limiter, locals, hooks, ReconfiguringPlaces
<1>14. CASE BreakinNow(t)
  <2>1. PICK label \in PC : Goto(t, label)
    BY <1>14 DEF BreakinNow, Goto
  <2>2. /\ UNCHANGED <<clock, hook, hookNow, hooksLeft, phase, phaseStart, lastEmptied, rateNS>>
        /\ \A s \in Users \ {t} : target'[s] = target[s] /\ now'[s] = now[s]
    BY <1>14 DEF BreakinNow, limiter, locals, hooks
  <2>3. pc'[t] = "sinceLoad" \/ (pc[t] = "sinceNow" /\ pc'[t] = "iters" /\ target'[t] = clock - target[t])
    BY <1>14 DEF BreakinNow, Goto, limiter, locals
  <2>4. phase = 1 => phaseStart <= lastEmptied' /\ rateNS' <= clock - phaseStart /\ OfFirst(t)'
    BY <2>2, <2>3
  <2> QED
    BY <2>1, <2>2, <2>3, <2>4, FirstKeeps DEF ReconfiguringPlaces
<1>15. CASE BreakinLoad(t)
  <2>1. PICK label \in PC : Goto(t, label)
    BY <1>15 DEF BreakinLoad, Goto
  <2>2. /\ UNCHANGED <<clock, hook, hookNow, hooksLeft, phase, phaseStart, lastEmptied, rateNS>>
        /\ \A s \in Users \ {t} : target'[s] = target[s] /\ now'[s] = now[s]
    BY <1>15 DEF BreakinLoad, limiter, locals, hooks
  <2>3. (pc'[t] = "sinceNow" /\ target'[t] = lastEmptied) \/ (pc'[t] = "iters" /\ target'[t] = now[t] - lastEmptied)
    BY <1>15 DEF BreakinLoad, Goto, limiter, locals
  <2>4. phase = 1 => phaseStart <= lastEmptied' /\ rateNS' <= clock - phaseStart /\ OfFirst(t)'
    BY <2>2, <2>3
  <2> QED
    BY <2>1, <2>2, <2>3, <2>4, FirstKeeps DEF ReconfiguringPlaces
<1>16. CASE BreakinTest(t)
  <2>1. PICK label \in PC : Goto(t, label)
    BY <1>16 DEF BreakinTest, Goto, Grant
  <2>2. /\ UNCHANGED <<clock, hook, hookNow, hooksLeft, phase, phaseStart, lastEmptied, rateNS>>
        /\ \A s \in Users \ {t} : target'[s] = target[s] /\ now'[s] = now[s]
    BY <1>16 DEF BreakinTest, limiter, locals, hooks
  <2>3. pc[t] = "iters" /\ pc'[t] \in {"breakinCas", "granted"} /\ target' = target
    BY <1>16 DEF BreakinTest, Goto, limiter, locals, Grant
  <2>4. phase = 1 => phaseStart <= lastEmptied' /\ rateNS' <= clock - phaseStart /\ OfFirst(t)'
    BY <2>2, <2>3
  <2> QED
    BY <2>1, <2>2, <2>3, <2>4, FirstKeeps DEF ReconfiguringPlaces
<1>17. CASE BreakinCas(t)
  <2>1. PICK label \in PC : Goto(t, label)
    BY <1>17 DEF BreakinCas, Goto, Grant
  <2> QED
    BY <1>17, <2>1, FirstKeeps DEF BreakinCas, Goto, limiter, locals, hooks, ReconfiguringPlaces, Grant
<1>18. CASE Measure(t)
  <2>1. PICK label \in PC : Goto(t, label)
    BY <1>18 DEF Measure, Goto
  <2> QED
    BY <1>18, <2>1, FirstKeeps DEF Measure, Goto, limiter, locals, hooks, ReconfiguringPlaces
<1>19. CASE StoreBurstSize(t)
  <2>1. PICK label \in PC : Goto(t, label)
    BY <1>19 DEF StoreBurstSize, Goto
  <2>2. /\ UNCHANGED <<clock, hook, hookNow, hooksLeft, phase, phaseStart, lastEmptied, rateNS>>
        /\ \A s \in Users \ {t} : target'[s] = target[s] /\ now'[s] = now[s]
    BY <1>19 DEF StoreBurstSize, limiter, locals, hooks
  <2>3. pc[t] \in {"store", "storeSize"} /\ pc'[t] \in {"storeRate", "restartNow"}
          /\ (pc'[t] = "storeRate" => pc[t] = "store") /\ target' = target
    BY <1>19 DEF StoreBurstSize, Goto, limiter, locals
  <2>4. phase = 1 => phaseStart <= lastEmptied' /\ rateNS' <= clock - phaseStart /\ OfFirst(t)'
    BY <2>2, <2>3
  <2> QED
    BY <2>1, <2>2, <2>3, <2>4, FirstKeeps DEF ReconfiguringPlaces
<1>20. CASE StoreRate(t)
  <2>1. PICK label \in PC : Goto(t, label)
    BY <1>20 DEF StoreRate, Goto
  <2>2. /\ UNCHANGED <<clock, hook, hookNow, hooksLeft, phase, phaseStart, lastEmptied>>
        /\ \A s \in Users \ {t} : target'[s] = target[s] /\ now'[s] = now[s]
    BY <1>20 DEF StoreRate, limiter, locals, hooks
  <2>3. pc[t] \in {"store", "storeRate"} /\ pc'[t] \in {"storeSize", "restartNow"} /\ rateNS' = target[t]
    BY <1>20 DEF StoreRate, Goto, limiter, locals
  <2>4. phase = 1 => phaseStart <= lastEmptied' /\ rateNS' <= clock - phaseStart /\ OfFirst(t)'
    BY <2>2, <2>3
  <2> QED
    BY <2>1, <2>2, <2>3, <2>4, FirstKeeps DEF ReconfiguringPlaces
<1>21. CASE RestartNow(t)
  <2>1. PICK label \in PC : Goto(t, label)
    BY <1>21 DEF RestartNow, Goto
  <2> QED
    BY <1>21, <2>1, FirstKeeps DEF RestartNow, Goto, limiter, locals, hooks, ReconfiguringPlaces
<1>22. CASE RestartBucket(t)
  <2>1. PICK label \in PC : Goto(t, label)
    BY <1>22 DEF RestartBucket, Goto
  <2>2. /\ UNCHANGED <<clock, hook, hookNow, hooksLeft, phase, phaseStart, rateNS>>
        /\ \A s \in Users \ {t} : target'[s] = target[s] /\ now'[s] = now[s]
    BY <1>22 DEF RestartBucket, limiter, locals, hooks
  <2>3. pc[t] = "restart" /\ pc'[t] = "zero" /\ lastEmptied' = now[t] - rateNS
    BY <1>22 DEF RestartBucket, Goto, limiter, locals
  <2>4. phase = 1 => phaseStart <= lastEmptied' /\ rateNS' <= clock - phaseStart /\ OfFirst(t)'
    BY <2>2, <2>3
  <2> QED
    BY <2>1, <2>2, <2>3, <2>4, FirstKeeps DEF ReconfiguringPlaces
<1>23. CASE ZeroBurst(t)
  <2>1. PICK label \in PC : Goto(t, label)
    BY <1>23 DEF ZeroBurst, Goto
  <2> QED
    BY <1>23, <2>1, FirstKeeps DEF ZeroBurst, Goto, limiter, locals, hooks, ReconfiguringPlaces
<1>24. CASE EndFullSpeed(t)
  <2>1. PICK label \in PC : Goto(t, label)
    BY <1>24 DEF EndFullSpeed, Goto, Grant
  <2> QED
    BY <1>24, <2>1, FirstKeeps DEF EndFullSpeed, Goto, limiter, locals, hooks, ReconfiguringPlaces, Grant
<1> QED
  BY <1>1, <1>2, <1>3, <1>4, <1>5, <1>6, <1>7, <1>8, <1>9, <1>10, <1>11, <1>12, <1>13, <1>14, <1>15, <1>16, <1>17, <1>18, <1>19, <1>20, <1>21, <1>22, <1>23, <1>24
     DEF LimitRate, Consume, Breakin

LEMMA FirstHooks ==
  ASSUME Percent # Unset, Background = {}, TypeInv, ReconfigInv, CreditInv, FirstInv, PrePhaseHooks \/ Tick
  PROVE  FirstInv'
<1>n. /\ clock \in Int /\ lastEmptied \in Int /\ rateNS \in Nat /\ phaseStart \in Int /\ hookNow \in Int
      /\ hooksLeft \in 0..Cardinality(Users) /\ phase \in Nat
      /\ pc \in [Users -> PC] /\ now \in [Users -> Int] /\ target \in [Users -> Int]
      /\ hookNow <= clock
      /\ hook # "none" => \A t \in Users : pc[t] = "out"
  <2>1. clock \in Int /\ phaseStart \in Int /\ hookNow \in Int /\ phase \in Nat
    BY BoundsAssumption DEF TypeInv, TypeOK
  <2> QED
    BY <2>1 DEF TypeInv, TypeOK, CreditInv, NobodyAhead, ReconfigInv, Quiet
<1> USE <1>n DEF FirstInv, BeforeFirst, FirstResets, FirstPhase
<1>1. CASE BeginPhase
  <2>1. hook' # "none" /\ hook' = "now" /\ hooksLeft' = Cardinality(Users) /\ phase' = phase + 1
    BY <1>1 DEF BeginPhase
  <2> QED
    BY <1>1, <2>1 DEF BeginPhase, limiter, locals
<1>2. CASE ResetNow
  BY <1>2 DEF ResetNow, limiter, locals
<1>3. CASE ResetLastEmptied
  <2>1. phase # 0 => phaseStart' <= clock
    BY <1>3 DEF ResetLastEmptied, StartHistory
  <2> QED
    BY <1>3, <2>1 DEF ResetLastEmptied, StartHistory, locals
<1>4. CASE ResetIters
  BY <1>4 DEF ResetIters, locals
<1>5. CASE ResetFullSpeed
  <2>1. hooksLeft' # Cardinality(Users)
    BY <1>5, SomeUsers DEF ResetFullSpeed
  <2> QED
    BY <1>5, <2>1 DEF ResetFullSpeed, locals, OfFirst
<1>6. CASE Tick
  <2>1. /\ clock' = clock + 1 /\ UNCHANGED <<lastEmptied, rateNS, pc, now, target>>
        /\ UNCHANGED <<hook, hookNow, hooksLeft, phase, phaseStart>>
    BY <1>6 DEF Tick, limiter, locals, hooks
  <2>2. ASSUME NEW t \in Users, OfFirst(t) PROVE OfFirst(t)'
    BY <2>1, <2>2 DEF OfFirst
  <2> QED
    BY <2>1, <2>2
<1> QED
  BY <1>1, <1>2, <1>3, <1>4, <1>5, <1>6 DEF PrePhaseHooks

\* LimitIsMeasured: outside the hooks, a percentile limiter that limits was
\* reconfigured in this phase, to a period of a minute or more that isBreakin()
\* measured, and in the first phase this is time that passed in the phase.
THEOREM LimitsAreMeasured ==
  ASSUME Background = {}
  PROVE  Spec => []LimitIsMeasured
<1>1. CASE Percent = Unset
  <2>1. LimitIsMeasured
    BY <1>1 DEF LimitIsMeasured
  <2> QED
    BY <2>1, PTL
<1>2. CASE Percent # Unset
  <2>1. ReconfigInv /\ FirstInv => LimitIsMeasured
    BY DEF ReconfigInv, ConfiguredOnce, MinuteMeasured, FirstInv, FirstPhase, LimitIsMeasured,
       Reconfiguring, ReconfiguringPlaces
  <2>2. TypeInv /\ ReconfigInv /\ CreditInv /\ FirstInv /\ [Next]_vars => FirstInv'
    <3> SUFFICES ASSUME TypeInv, ReconfigInv, CreditInv, FirstInv, [Next]_vars PROVE FirstInv'
      OBVIOUS
    <3>1. CASE \E t \in Users : Breakin(t) \/ Consume(t) \/ LimitRate(t)
      BY <1>2, <3>1, FirstUser
    <3>2. CASE PrePhaseHooks \/ Tick
      BY <1>2, <3>2, FirstHooks
    <3>3. CASE UNCHANGED vars
      BY <3>3 DEF FirstInv, BeforeFirst, FirstResets, FirstPhase, OfFirst, vars, limiter, locals, hooks
    <3> QED
      BY <3>1, <3>2, <3>3 DEF Next
  <2>3. Init => FirstInv
    BY <1>2, FirstInit
  <2> QED
    BY <2>1, <2>2, <2>3, ReconfigAlways, TypeAlways, CreditAlways, PTL DEF Spec
<1> QED
  BY <1>1, <1>2

-----------------------------------------------------------------------------
(* Arithmetic of the buckets.                                              *)

\* A number has one remainder.
LEMMA OnlyRemainder ==
  ASSUME NEW b \in Nat \ {0}, NEW n \in Int, NEW q \in Int, NEW r \in 0..(b - 1), n = b * q + r
  PROVE n % b = r
OBVIOUS

LEMMA Carry ==
  ASSUME NEW b \in Nat \ {0}, NEW n \in Int, NEW q \in Int, n = b * q + (b - 1)
  PROVE  n + 1 = b * (q + 1) + 0
OBVIOUS

\* The remainder of the next number.
LEMMA NextRemainder ==
  ASSUME NEW b \in Nat \ {0}, NEW n \in Nat
  PROVE  (n + 1) % b = IF n % b = b - 1 THEN 0 ELSE (n % b) + 1
<1>1. PICK r \in 0..(b - 1) : r = n % b
  OBVIOUS
<1>2. PICK q \in Int : q = n \div b
  OBVIOUS
<1>3. n = b * q + r
  BY <1>1, <1>2, Quotient
<1>4. CASE r = b - 1
  <2>1. n + 1 = b * (q + 1) + 0
    BY <1>3, <1>4, Carry
  <2>2. n + 1 \in Int /\ q + 1 \in Int /\ 0 \in 0..(b - 1)
    OBVIOUS
  <2>3. (n + 1) % b = 0
    BY <2>1, <2>2, OnlyRemainder
  <2> QED
    BY <2>3, <1>1, <1>4
<1>5. CASE r # b - 1
  <2>1. n + 1 = b * q + (r + 1)
    BY <1>3
  <2>2. n + 1 \in Int /\ r + 1 \in 0..(b - 1)
    BY <1>5
  <2>3. (n + 1) % b = r + 1
    BY <2>1, <2>2, OnlyRemainder
  <2> QED
    BY <2>3, <1>1, <1>5
<1> QED
  BY <1>4, <1>5

\* What a bucket of b has left after n were taken.
Rest(b, n) == (b - (n % b)) % b

\* Taking one: a bucket that is not empty has one less, and an empty one is a
\* new one that lacks one.
LEMMA RestStep ==
  ASSUME NEW b \in Nat, b > 1, NEW n \in Nat
  PROVE  /\ Rest(b, n) \in Nat
         /\ n % b # 0 => Rest(b, n + 1) = Rest(b, n) - 1
         /\ n % b = 0 => Rest(b, n) = 0 /\ Rest(b, n + 1) = b - 1
<1>0. b \in Nat \ {0}
  OBVIOUS
<1>1. PICK r \in 0..(b - 1) : r = n % b
  OBVIOUS
<1>2. (n + 1) % b = IF r = b - 1 THEN 0 ELSE r + 1
  BY <1>0, <1>1, NextRemainder
<1>3. \A m \in 0..(b - 1) : m % b = m
  OBVIOUS
<1>4. b % b = 0
  OBVIOUS
<1>5. Rest(b, n) = IF r = 0 THEN 0 ELSE b - r
  BY <1>1, <1>3, <1>4 DEF Rest
<1>6. Rest(b, n + 1) = IF r = b - 1 THEN 0 ELSE b - r - 1
  BY <1>2, <1>3, <1>4 DEF Rest
<1> QED
  BY <1>1, <1>5, <1>6

\* A time since.
LEMMA Since ==
  ASSUME NEW a \in Nat, NEW b \in Nat, NEW c \in Nat, c <= a, a <= b
  PROVE  a - c \in Nat /\ b - c \in Nat /\ a - c <= b - c
OBVIOUS

LEMMA NoRefill ==
  ASSUME NEW a \in Nat, NEW b \in Nat, a <= b, NEW c \in Nat, NEW d \in Nat
  PROVE  0 + a <= b + 0 /\ c - d = c - d + 0
OBVIOUS

\* Whole periods in a time.
LEMMA FullPeriods ==
  ASSUME NEW b \in Nat \ {0}, NEW n \in Nat, NEW k \in Nat, k * b <= n
  PROVE  k <= n \div b
OBVIOUS

LEMMA DivType ==
  ASSUME NEW b \in Nat \ {0}, NEW n \in Nat
  PROVE  n \div b \in Nat
OBVIOUS

LEMMA DivGrows ==
  ASSUME NEW b \in Nat \ {0}, NEW n \in Nat, NEW m \in Nat, n <= m
  PROVE  n \div b <= m \div b
OBVIOUS

-----------------------------------------------------------------------------
(* The rate of an ordinary limiter that only blocking threads use.         *)

\* The specification stays what it was.
FixedRate == burstSize = Operations /\ rateNS = Per

\* A thread about to take a token of a burst saw one there, and one about to
\* refill the bucket will move it by one period.
TokenSeen ==
  \A t \in Users :
    /\ pc[t] \in {"burstLoad", "burstCas"} => Operations > 1
    /\ pc[t] = "burstCas" => seen[t] % Operations # 0
    /\ pc[t] = "refillCas" => target[t] = seen[t] + Per

\* With k refills since the reset, what was given and what is left to give
\* without another is what the phases before had left and k bursts.
Accounted(k) ==
  /\ lastEmptied = hookNow - Per + k * Per
  /\ grants + BurstLeft <= leftover + Operations * k

\* Between the resets of the users' hooks nothing is given.
NothingYet == grants = 0 /\ BurstLeft <= leftover

Balance ==
  /\ hook = "none" => \E k \in Nat : Accounted(k)
  /\ hook \in {"iters", "fullSpeed"} => lastEmptied = hookNow - Per /\ NothingYet
  /\ hook # "none" /\ hooksLeft # Cardinality(Users) => NothingYet

RateInv ==
  /\ FixedRate /\ TokenSeen /\ Balance
  /\ phaseStart <= hookNow
  /\ hook # "none" => RateBound

\* Nothing was given: the bound is kept.
LEMMA NothingIsBounded ==
  ASSUME TypeInv, FixedRate, NothingYet, phaseStart <= clock
  PROVE  RateBound
<1>1. clock - phaseStart \in Nat /\ leftover \in Nat /\ grants = 0 /\ burstSize \in Nat
  BY DEF TypeInv, TypeOK, NothingYet
<1>2. PICK d \in Nat : d = (clock - phaseStart) \div rateNS
  BY <1>1, DivType, RateAssumption DEF FixedRate
<1>3. burstSize * (1 + d) \in Nat
  BY <1>1, <1>2
<1> QED
  BY <1>1, <1>2, <1>3 DEF RateBound

\* The refills of the phase took place in its time, NoFutureCredit says.
LEMMA AccountIsBounded ==
  ASSUME TypeInv, CreditInv, FixedRate, phaseStart <= hookNow,
         NEW k \in Nat, Accounted(k)
  PROVE  RateBound
<1>1. /\ clock \in Nat /\ phaseStart \in Nat /\ hookNow \in Nat
      /\ leftover \in Nat /\ grants \in Nat
      /\ hookNow <= clock /\ lastEmptied <= clock
  BY DEF TypeInv, TypeOK, CreditInv, NobodyAhead, NoFutureCredit
<1>2. PICK time \in Nat : time = clock - phaseStart
  BY <1>1
<1>3. PICK d \in Nat : d = time \div Per
  BY DivType, RateAssumption
<1>4. k <= 1 + d
  <2>1. CASE k = 0
    BY <2>1
  <2>2. CASE k # 0
    <3>1. PICK j \in Nat : k = j + 1
      BY <2>2
    <3>2. k * Per = j * Per + Per
      BY <3>1, RateAssumption
    <3>3. PICK taken \in Nat : taken = j * Per
      BY <3>1, RateAssumption
    <3>4. taken <= time
      BY <1>1, <1>2, <3>2, <3>3, RateAssumption DEF Accounted
    <3>5. j <= d
      BY <1>3, <3>3, <3>4, FullPeriods, RateAssumption
    <3> QED
      BY <3>1, <3>5
  <2> QED
    BY <2>1, <2>2
<1>5. Operations * k <= Operations * (1 + d)
  BY <1>4, TimesGrows, RateAssumption
<1>6. BurstLeft \in Nat
  BY BurstLeftType DEF TypeInv
<1>7. grants <= leftover + Operations * (1 + d)
  <2>1. Operations * k \in Nat /\ Operations * (1 + d) \in Nat
    BY RateAssumption
  <2> QED
    BY <1>1, <1>5, <1>6, <2>1 DEF Accounted
<1> QED
  BY <1>2, <1>3, <1>7 DEF RateBound, FixedRate

\* The threads that took the first token of a refill and have yet to count it.
Opening == {t \in Users : pc[t] = "refillCount"}

LEMMA OpeningType == IsFiniteSet(Opening) /\ Cardinality(Opening) \in Nat
BY UsersAssumption, FS_Subset, FS_CardinalityType DEF Opening

\* What is left, of a limiter whose bursts are of more than one.
LEMMA LeftIs ==
  ASSUME FixedRate, Operations > 1
  PROVE  BurstLeft = Rest(Operations, burstCount) + (Operations - 1) * Cardinality(Opening)
BY RateAssumption DEF FixedRate, BurstLeft, Rest, Opening

LEMMA LeftWillBe ==
  ASSUME FixedRate', Operations > 1
  PROVE  BurstLeft' = Rest(Operations, burstCount') + (Operations - 1) * Cardinality(Opening')
BY RateAssumption DEF FixedRate, BurstLeft, Rest, Opening

\* Single operations have no bursts.
LEMMA NoneLeft ==
  ASSUME FixedRate, ~(Operations > 1)
  PROVE  BurstLeft = 0
BY RateAssumption DEF FixedRate, BurstLeft

LEMMA NoneWillBeLeft ==
  ASSUME FixedRate', ~(Operations > 1)
  PROVE  BurstLeft' = 0
BY RateAssumption DEF FixedRate, BurstLeft

\* A step of a user that neither takes nor counts a token.
Idle(t) ==
  /\ pc[t] # "refillCount"
  /\ \E label \in PC \ {"refillCount"} :
       /\ Goto(t, label)
       /\ label \in {"burstLoad", "burstCas"} => Operations > 1
       /\ label = "burstCas" => seen'[t] % Operations # 0
       /\ label = "refillCas" => target'[t] = seen'[t] + Per
  /\ \A s \in Users \ {t} : seen'[s] = seen[s] /\ target'[s] = target[s]
  /\ UNCHANGED <<clock, lastEmptied, burstCount, burstSize, rateNS, hook, hookNow, hooksLeft,
                 phaseStart, leftover, grants>>

LEMMA IdleKeeps ==
  ASSUME TypeInv, RateInv, NEW t \in Users, Idle(t)
  PROVE  RateInv'
<1>0. pc \in [Users -> PC]
  BY DEF TypeInv, TypeOK
<1>1. PICK label \in PC \ {"refillCount"} :
        /\ Goto(t, label)
        /\ label \in {"burstLoad", "burstCas"} => Operations > 1
        /\ label = "burstCas" => seen'[t] % Operations # 0
        /\ label = "refillCas" => target'[t] = seen'[t] + Per
  BY DEF Idle
<1>2. \A s \in Users : pc'[s] = IF s = t THEN label ELSE pc[s]
  BY <1>0, <1>1 DEF Goto
<1>3. {s \in Users : pc'[s] = "refillCount"} = {s \in Users : pc[s] = "refillCount"}
  BY <1>2 DEF Idle
<1>4. BurstLeft' = BurstLeft
  BY <1>3 DEF BurstLeft, Idle
<1>5. FixedRate' /\ (phaseStart <= hookNow)' /\ (hook # "none" => RateBound)'
  BY DEF RateInv, FixedRate, RateBound, Idle
<1>6. TokenSeen'
  BY <1>1, <1>2 DEF RateInv, TokenSeen, Idle
<1>7. Balance'
  BY <1>4 DEF RateInv, Balance, Accounted, NothingYet, Idle
<1> QED
  BY <1>5, <1>6, <1>7 DEF RateInv

\* A token of the burst: one more given, one less left.
LEMMA TakeFromBurst ==
  ASSUME TypeInv, RateInv, hook = "none", NEW t \in Users,
         pc[t] = "burstCas", burstCount = seen[t], burstCount' = burstCount + 1,
         Grant(t),
         UNCHANGED <<clock, lastEmptied, burstSize, rateNS, locals, hooks>>
  PROVE  RateInv'
<1>0. /\ pc \in [Users -> PC] /\ burstCount \in Nat /\ grants \in Nat /\ leftover \in Nat
      /\ lastEmptied \in Int /\ hookNow \in Int
  BY DEF TypeInv, TypeOK
<1>1. \A s \in Users : pc'[s] = IF s = t THEN "granted" ELSE pc[s]
  BY <1>0 DEF Grant, Goto
<1>2. Operations > 1 /\ burstCount % Operations # 0
  BY DEF RateInv, TokenSeen
<1>3. FixedRate /\ FixedRate'
  BY DEF RateInv, FixedRate
<1>4. Opening' = Opening
  BY <1>1 DEF Opening
<1>5. BurstLeft' = BurstLeft - 1
  <2>0. Rest(Operations, burstCount) \in Nat
        /\ Rest(Operations, burstCount + 1) = Rest(Operations, burstCount) - 1
    BY <1>0, <1>2, RestStep, RateAssumption
  <2>1. PICK left \in Nat : left = Rest(Operations, burstCount) /\ Rest(Operations, burstCount') = left - 1
    BY <2>0
  <2>2. PICK open \in Nat : open = Cardinality(Opening)
    BY OpeningType
  <2>3. PICK more \in Nat : more = (Operations - 1) * open
    BY <1>2, RateAssumption
  <2>4. BurstLeft = left + more
    BY <1>2, <1>3, <2>1, <2>2, <2>3, LeftIs
  <2>5. BurstLeft' = (left - 1) + more
    BY <1>2, <1>3, <1>4, <2>1, <2>2, <2>3, LeftWillBe
  <2> QED
    BY <2>4, <2>5
<1>6. BurstLeft \in Nat
  BY BurstLeftType DEF TypeInv
<1>7. PICK k \in Nat : Accounted(k)
  BY DEF RateInv, Balance
<1>8. Accounted(k)'
  <2>1. Operations * k \in Nat
    BY RateAssumption
  <2> QED
    BY <1>0, <1>5, <1>6, <1>7, <2>1 DEF Accounted, Grant, hooks
<1>9. (phaseStart <= hookNow)' /\ hook' = "none"
  BY DEF RateInv, hooks
<1>10. TokenSeen'
  BY <1>1 DEF RateInv, TokenSeen, locals
<1>11. Balance'
  BY <1>8, <1>9 DEF Balance
<1> QED
  BY <1>3, <1>9, <1>10, <1>11 DEF RateInv

\* The token that refills the bucket: one more given, and a burst to open.
LEMMA TakeByRefill ==
  ASSUME TypeInv, RateInv, hook = "none", NEW t \in Users,
         pc[t] = "refillCas", lastEmptied = seen[t], lastEmptied' = target[t],
         grants' = grants + 1, Goto(t, "refillCount"),
         UNCHANGED <<clock, burstCount, burstSize, rateNS, locals, hooks>>
  PROVE  RateInv'
<1>0. /\ pc \in [Users -> PC] /\ burstCount \in Nat /\ grants \in Nat /\ leftover \in Nat
      /\ lastEmptied \in Int /\ hookNow \in Int
  BY DEF TypeInv, TypeOK
<1>1. \A s \in Users : pc'[s] = IF s = t THEN "refillCount" ELSE pc[s]
  BY <1>0 DEF Goto
<1>2. lastEmptied' = lastEmptied + Per
  BY DEF RateInv, TokenSeen
<1>3. FixedRate /\ FixedRate'
  BY DEF RateInv, FixedRate
<1>4. Opening' = Opening \cup {t} /\ t \notin Opening
  BY <1>1 DEF Opening
<1>5. PICK open \in Nat : open = Cardinality(Opening) /\ Cardinality(Opening') = open + 1
  <2>1. Cardinality(Opening \cup {t}) = Cardinality(Opening) + 1
    BY <1>4, OpeningType, FS_AddElement
  <2> QED
    BY <1>4, <2>1, OpeningType
<1>6. BurstLeft \in Nat
  BY BurstLeftType DEF TypeInv
<1>7. BurstLeft' = BurstLeft + (Operations - 1)
  <2>1. CASE Operations > 1
    <3>1. PICK left \in Nat : left = Rest(Operations, burstCount)
      BY <1>0, <2>1, RestStep, RateAssumption
    <3>2. PICK more \in Nat : more = (Operations - 1) * open
      BY <2>1, RateAssumption
    <3>3. (Operations - 1) * (open + 1) = more + (Operations - 1)
      BY <3>2, RateAssumption
    <3>4. BurstLeft = left + more
      BY <1>3, <1>5, <2>1, <3>1, <3>2, LeftIs
    <3>5. BurstLeft' = left + (more + (Operations - 1))
      BY <1>3, <1>5, <2>1, <3>1, <3>3, LeftWillBe
    <3> QED
      BY <3>4, <3>5, RateAssumption
  <2>2. CASE ~(Operations > 1)
    BY <1>3, <2>2, NoneLeft, NoneWillBeLeft, RateAssumption
  <2> QED
    BY <2>1, <2>2
<1>8. PICK k \in Nat : Accounted(k)
  BY DEF RateInv, Balance
<1>9. PICK j \in Nat : j = k + 1
  OBVIOUS
<1>10. Accounted(j)'
  <2>1. PICK given \in Nat : given = Operations * k
    BY RateAssumption
  <2>2. Operations * j = given + Operations
    BY <1>9, <2>1, RateAssumption
  <2>3. PICK time \in Nat : time = k * Per
    BY RateAssumption
  <2>4. j * Per = time + Per
    BY <1>9, <2>3, RateAssumption
  <2>5. UNCHANGED <<hookNow, leftover>>
    BY DEF hooks
  <2>6. (grants + BurstLeft)' <= (leftover + Operations * j)'
    BY <1>0, <1>6, <1>7, <1>8, <2>1, <2>2, <2>5, RateAssumption DEF Accounted
  <2>7. (lastEmptied = hookNow - Per + j * Per)'
    BY <1>0, <1>2, <1>8, <2>3, <2>4, <2>5, RateAssumption DEF Accounted
  <2> QED
    BY <2>6, <2>7 DEF Accounted
<1>11. (phaseStart <= hookNow)' /\ hook' = "none"
  BY DEF RateInv, hooks
<1>12. TokenSeen'
  BY <1>1 DEF RateInv, TokenSeen, locals
<1>13. Balance'
  BY <1>10, <1>11 DEF Balance
<1> QED
  BY <1>3, <1>11, <1>12, <1>13 DEF RateInv

\* Counting that token opens the burst, or shortens one that another opened.
LEMMA CountRefill ==
  ASSUME TypeInv, RateInv, hook = "none", NEW t \in Users, RefillCount(t)
  PROVE  RateInv'
<1>0. /\ pc \in [Users -> PC] /\ burstCount \in Nat /\ grants \in Nat /\ leftover \in Nat
      /\ lastEmptied \in Int /\ hookNow \in Int
  BY DEF TypeInv, TypeOK
<1>1. \A s \in Users : pc'[s] = IF s = t THEN "granted" ELSE pc[s]
  BY <1>0 DEF RefillCount, Goto
<1>2. /\ pc[t] = "refillCount" /\ burstCount' = burstCount + 1
      /\ UNCHANGED <<clock, lastEmptied, burstSize, rateNS, locals, hooks, grants>>
  BY DEF RefillCount
<1>3. FixedRate /\ FixedRate'
  BY <1>2 DEF RateInv, FixedRate
<1>4. Opening' = Opening \ {t} /\ t \in Opening
  BY <1>1, <1>2 DEF Opening
<1>5. PICK open \in Nat : open = Cardinality(Opening') /\ Cardinality(Opening) = open + 1
  <2>1. Cardinality(Opening \ {t}) = Cardinality(Opening) - 1 /\ IsFiniteSet(Opening \ {t})
    BY <1>4, OpeningType, FS_RemoveElement
  <2>2. Cardinality(Opening \ {t}) \in Nat
    BY <2>1, FS_CardinalityType
  <2> QED
    BY <1>4, <2>1, <2>2, OpeningType
<1>6. BurstLeft \in Nat
  BY BurstLeftType DEF TypeInv
<1>7. BurstLeft' \in Int /\ BurstLeft' <= BurstLeft
  <2>1. CASE Operations > 1
    <3>0. /\ Rest(Operations, burstCount) \in Nat
          /\ \/ Rest(Operations, burstCount + 1) = Rest(Operations, burstCount) - 1
             \/ /\ Rest(Operations, burstCount) = 0
                /\ Rest(Operations, burstCount + 1) = Operations - 1
      BY <1>0, <2>1, RestStep, RateAssumption
    <3>1. PICK left \in Nat : left = Rest(Operations, burstCount)
      BY <3>0
    <3>2. PICK after \in Int : after = Rest(Operations, burstCount') /\ after <= left + (Operations - 1)
      BY <1>2, <3>0, <3>1, RateAssumption
    <3>3. PICK more \in Nat : more = (Operations - 1) * open
      BY <2>1, RateAssumption
    <3>4. (Operations - 1) * (open + 1) = more + (Operations - 1)
      BY <3>3, RateAssumption
    <3>5. BurstLeft = left + (more + (Operations - 1))
      BY <1>3, <1>5, <2>1, <3>1, <3>4, LeftIs
    <3>6. BurstLeft' = after + more
      BY <1>3, <1>5, <2>1, <3>2, <3>3, LeftWillBe
    <3> QED
      BY <3>2, <3>5, <3>6, RateAssumption
  <2>2. CASE ~(Operations > 1)
    BY <1>3, <2>2, NoneLeft, NoneWillBeLeft
  <2> QED
    BY <2>1, <2>2
<1>8. PICK k \in Nat : Accounted(k)
  BY DEF RateInv, Balance
<1>9. Accounted(k)'
  <2>1. PICK given \in Nat : given = Operations * k
    BY RateAssumption
  <2>2. PICK time \in Nat : time = k * Per
    BY RateAssumption
  <2> QED
    BY <1>0, <1>2, <1>6, <1>7, <1>8, <2>1, <2>2 DEF Accounted, hooks
<1>10. (phaseStart <= hookNow)' /\ hook' = "none"
  BY <1>2 DEF RateInv, hooks
<1>11. TokenSeen'
  BY <1>1, <1>2 DEF RateInv, TokenSeen, locals
<1>12. Balance'
  BY <1>9, <1>10 DEF Balance
<1> QED
  BY <1>3, <1>10, <1>11, <1>12 DEF RateInv

\* A limiter before its first phase: as after one refill of which nothing was
\* given, since the bucket starts at the clock's zero.
LEMMA RateInit ==
  ASSUME Percent = Unset, Init
  PROVE  RateInv
<1> USE RateAssumption DEF Init
<1>1. FixedRate
  BY DEF FixedRate
<1>2. Opening = {} /\ Cardinality(Opening) = 0
  BY FS_EmptySet DEF Opening
<1>3. BurstLeft = 0
  <2>1. CASE Operations > 1
    <3>1. 0 % Operations = 0
      OBVIOUS
    <3>2. Rest(Operations, burstCount) = 0
      BY <2>1, <3>1, RestStep
    <3> QED
      BY <1>1, <1>2, <2>1, <3>2, LeftIs
  <2>2. CASE ~(Operations > 1)
    BY <1>1, <2>2, NoneLeft
  <2> QED
    BY <2>1, <2>2
<1>4. Accounted(1)
  BY <1>3 DEF Accounted
<1>5. Balance
  BY <1>4 DEF Balance
<1>6. TokenSeen
  BY DEF TokenSeen
<1> QED
  BY <1>1, <1>5, <1>6 DEF RateInv

\* The bound, in every state the invariant allows.
LEMMA RateInvBounds ==
  ASSUME TypeInv, CreditInv, RateInv
  PROVE  RateBound
<1>1. CASE hook = "none"
  BY <1>1, AccountIsBounded DEF RateInv, Balance
<1>2. CASE hook # "none"
  BY <1>2 DEF RateInv
<1> QED
  BY <1>1, <1>2

\* A user's step keeps the account.
LEMMA RateUser ==
  ASSUME Percent = Unset, Background = {}, TypeInv, ReconfigInv, RateInv, NEW t \in Users,
         Breakin(t) \/ Consume(t) \/ LimitRate(t)
  PROVE  RateInv'
<1> USE DEF PC
<1>0. pc \in [Users -> PC] /\ now \in [Users -> 0..MaxClock]
      /\ seen \in [Users -> Int] /\ target \in [Users -> Int]
  BY DEF TypeInv, TypeOK
<1>1. CASE Breakin(t)
  <2>1. LoadFullSpeed(t) /\ ~fullSpeed
    BY <1>1 DEF TypeInv, PlacesOK, ReconfiguringPlaces, Breakin, LoadFullSpeed, BreakinCount, BreakinNow,
       BreakinLoad, BreakinTest, BreakinCas, Measure, StoreBurstSize, StoreRate, RestartNow, RestartBucket,
       ZeroBurst, EndFullSpeed
  <2>2. pc[t] = "fullSpeed" /\ Goto(t, "burst")
    BY <2>1 DEF LoadFullSpeed
  <2>3. UNCHANGED <<seen, target>>
    BY <2>1 DEF LoadFullSpeed, locals
  <2>4. Idle(t)
    BY <2>1, <2>2, <2>3 DEF Idle, LoadFullSpeed, limiter, hooks
  <2> QED
    BY <2>4, IdleKeeps
<1>2. CASE Enter(t)
  BY <1>2, <1>0, IdleKeeps DEF Idle, Enter, limiter, locals, hooks
<1>3. CASE ReadClock(t)
  BY <1>3, <1>0, IdleKeeps DEF Idle, ReadClock, limiter, locals, hooks
<1>4. CASE Retry(t)
  BY <1>4, <1>0, IdleKeeps DEF Idle, Retry, limiter, locals, hooks
<1>5. CASE GiveUp(t)
  BY <1>5, <1>0, IdleKeeps DEF Idle, GiveUp, limiter, locals, hooks
<1>6. CASE notifyOfIteration(t)
  BY <1>6, <1>0, IdleKeeps DEF Idle, notifyOfIteration, limiter, locals, hooks
<1>7. CASE TestBurstSize(t)
  BY <1>7, <1>0, IdleKeeps DEF Idle, TestBurstSize, RateInv, FixedRate, limiter, locals, hooks
<1>8. CASE LoadBurstCount(t)
  <2>1. Operations > 1 /\ burstSize = Operations
    BY <1>8 DEF RateInv, TokenSeen, FixedRate, LoadBurstCount
  <2>2. CASE burstCount % burstSize # 0
    BY <1>8, <1>0, <2>1, <2>2, IdleKeeps DEF Idle, LoadBurstCount, limiter, hooks
  <2>3. CASE ~(burstCount % burstSize # 0)
    BY <1>8, <1>0, <2>1, <2>3, IdleKeeps DEF Idle, LoadBurstCount, limiter, hooks
  <2> QED
    BY <2>2, <2>3
<1>9. CASE BurstCas(t)
  <2>1. hook = "none"
    BY <1>9, BusyInPhase DEF BurstCas
  <2>2. CASE burstCount = seen[t] /\ burstCount' = burstCount + 1 /\ Grant(t)
    BY <1>9, <2>1, <2>2, TakeFromBurst DEF BurstCas
  <2>3. CASE Goto(t, "denied") /\ UNCHANGED <<burstCount, grants>>
    BY <1>9, <1>0, <2>3, IdleKeeps DEF Idle, BurstCas, locals, hooks
  <2> QED
    BY <1>9, <2>2, <2>3 DEF BurstCas
<1>10. CASE LoadLastEmptied(t)
  <2>1. seen'[t] = lastEmptied /\ target'[t] = lastEmptied + Per
    BY <1>10, <1>0 DEF LoadLastEmptied, RateInv, FixedRate
  <2>2. \E label \in {"refillCas", "denied"} : Goto(t, label)
    BY <1>10 DEF LoadLastEmptied
  <2>3. pc[t] = "refill" /\ \A s \in Users \ {t} : seen'[s] = seen[s] /\ target'[s] = target[s]
    BY <1>10, <1>0 DEF LoadLastEmptied
  <2> QED
    BY <1>10, <2>1, <2>2, <2>3, IdleKeeps DEF Idle, LoadLastEmptied, limiter, hooks
<1>11. CASE RefillCas(t)
  <2>1. hook = "none"
    BY <1>11, BusyInPhase DEF RefillCas
  <2>2. CASE lastEmptied = seen[t] /\ lastEmptied' = target[t] /\ grants' = grants + 1 /\ Goto(t, "refillCount")
    BY <1>11, <2>1, <2>2, TakeByRefill DEF RefillCas
  <2>3. CASE Goto(t, "denied") /\ UNCHANGED <<lastEmptied, grants>>
    BY <1>11, <1>0, <2>3, IdleKeeps DEF Idle, RefillCas, locals, hooks
  <2> QED
    BY <1>11, <2>2, <2>3 DEF RefillCas
<1>12. CASE RefillCount(t)
  <2>1. hook = "none"
    BY <1>12, BusyInPhase DEF RefillCount
  <2> QED
    BY <1>12, <2>1, CountRefill
<1> QED
  BY <1>1, <1>2, <1>3, <1>4, <1>5, <1>6, <1>7, <1>8, <1>9, <1>10, <1>11, <1>12 DEF Consume, LimitRate

\* A later reading of the clock allows no less.
LEMMA BoundOverTime ==
  ASSUME TypeInv, FixedRate, RateBound, phaseStart <= clock,
         clock' \in Nat, clock <= clock', UNCHANGED <<grants, leftover, burstSize, phaseStart, rateNS>>
  PROVE  RateBound'
<1>1. clock \in Nat /\ phaseStart \in Nat /\ leftover \in Nat /\ grants \in Nat
  BY DEF TypeInv, TypeOK
<1>2. PICK m \in Nat, n \in Nat : m = clock - phaseStart /\ n = clock' - phaseStart /\ m <= n
  <2>1. PICK before \in Nat, after \in Nat, start \in Nat :
          before = clock /\ after = clock' /\ start = phaseStart /\ start <= before /\ before <= after
    BY <1>1
  <2>2. before - start \in Nat /\ after - start \in Nat /\ before - start <= after - start
    BY <2>1, Since
  <2> QED
    BY <2>1, <2>2
<1>3. PICK d, e \in Nat : d = m \div Per /\ e = n \div Per
  BY DivType, RateAssumption
<1>4. d <= e
  BY <1>2, <1>3, DivGrows, RateAssumption
<1>5. Operations * (1 + d) <= Operations * (1 + e)
  BY <1>4, TimesGrows, RateAssumption
<1>6. Operations * (1 + d) \in Nat /\ Operations * (1 + e) \in Nat
  BY RateAssumption
<1>7. CASE Percent = Unset /\ Background = {}
  <2>1. grants <= leftover + Operations * (1 + d)
    BY <1>2, <1>3, <1>7 DEF RateBound, FixedRate
  <2>2. grants <= leftover + Operations * (1 + e)
    BY <1>1, <1>5, <1>6, <2>1
  <2>3. burstSize' = Operations /\ rateNS' = Per /\ clock' - phaseStart' = n
    BY <1>2 DEF FixedRate
  <2> QED
    BY <1>3, <2>2, <2>3 DEF RateBound
<1>8. CASE ~(Percent = Unset /\ Background = {})
  BY <1>8 DEF RateBound
<1> QED
  BY <1>7, <1>8

\* The hooks begin a new account, and the clock raises the bound.
LEMMA RateHooks ==
  ASSUME Percent = Unset, Background = {}, TypeInv, TypeInv', CreditInv, ReconfigInv, RateInv,
         PrePhaseHooks \/ Tick
  PROVE  RateInv'
<1>0. /\ clock \in Nat /\ hookNow \in Nat /\ phaseStart \in Nat /\ hookNow <= clock
      /\ phaseStart <= hookNow /\ phaseStart <= clock
  BY DEF TypeInv, TypeOK, CreditInv, NobodyAhead, RateInv
<1>1. CASE BeginPhase
  <2>1. RateBound
    BY RateInvBounds
  <2>2. RateBound'
    BY <1>1, <2>1 DEF RateBound, BeginPhase, limiter
  <2>3. FixedRate' /\ TokenSeen' /\ Balance' /\ (phaseStart <= hookNow)'
    BY <1>1 DEF RateInv, FixedRate, TokenSeen, Balance, BeginPhase, limiter, locals
  <2> QED
    BY <2>2, <2>3 DEF RateInv
<1>2. CASE ResetNow
  <2>1. UNCHANGED <<clock, limiter, pc, locals, grants, leftover, phaseStart, hooksLeft>> /\ hookNow' = clock
        /\ hook = "now" /\ hook' = "lastEmptied"
    BY <1>2 DEF ResetNow
  <2>2. BurstLeft' = BurstLeft
    BY <2>1 DEF BurstLeft, limiter
  <2>3. FixedRate' /\ TokenSeen' /\ (phaseStart <= hookNow)' /\ RateBound'
    BY <1>0, <2>1 DEF RateInv, FixedRate, TokenSeen, RateBound, limiter, locals
  <2>4. Balance'
    BY <2>1, <2>2 DEF RateInv, Balance, NothingYet
  <2> QED
    BY <2>3, <2>4 DEF RateInv
<1>3. CASE ResetLastEmptied
  <2>1. /\ hook = "lastEmptied" /\ hook' = "iters" /\ lastEmptied' = hookNow - Per
        /\ UNCHANGED <<clock, burstCount, burstSize, rateNS, pc, locals, hookNow, hooksLeft>>
    BY <1>3 DEF ResetLastEmptied, RateInv, FixedRate
  <2>2. BurstLeft' = BurstLeft
    BY <2>1 DEF BurstLeft
  <2>3. NothingYet' /\ (phaseStart' = hookNow \/ phaseStart' = phaseStart)
    <3>1. CASE hooksLeft = Cardinality(Users)
      <4>1. leftover' = BurstLeft /\ grants' = 0 /\ phaseStart' = hookNow
        BY <1>3, <3>1 DEF ResetLastEmptied, StartHistory
      <4>2. BurstLeft \in Nat
        BY BurstLeftType DEF TypeInv
      <4> QED
        BY <2>2, <4>1, <4>2 DEF NothingYet
    <3>2. CASE hooksLeft # Cardinality(Users)
      <4>1. UNCHANGED <<leftover, grants, phaseStart>>
        BY <1>3, <3>2 DEF ResetLastEmptied, StartHistory
      <4>2. NothingYet
        BY <2>1, <3>2 DEF RateInv, Balance
      <4> QED
        BY <2>2, <4>1, <4>2 DEF NothingYet
    <3> QED
      BY <3>1, <3>2
  <2>4. FixedRate' /\ TokenSeen' /\ (phaseStart <= hookNow)'
    BY <1>0, <2>1, <2>3 DEF RateInv, FixedRate, TokenSeen, locals
  <2>5. Balance'
    BY <2>1, <2>3 DEF Balance
  <2>6. RateBound'
    <3>1. PICK rest \in Nat : rest = leftover' /\ grants' = 0
      BY <2>3 DEF TypeInv, TypeOK, NothingYet
    <3>2. PICK time \in Nat : time = clock' - phaseStart'
      <4>1. PICK start \in Nat : start = phaseStart' /\ start <= clock
        BY <1>0, <2>3
      <4>2. PICK tick \in Nat : tick = clock /\ start <= tick
        BY <1>0, <4>1
      <4>3. tick <= tick
        BY <4>2
      <4>4. tick - start \in Nat
        BY <4>2, <4>3, Since
      <4>5. clock' = clock
        BY <2>1
      <4> QED
        BY <4>1, <4>2, <4>4, <4>5
    <3>3. PICK d \in Nat : d = time \div Per
      BY DivType, RateAssumption
    <3>4. PICK most \in Nat : most = Operations * (1 + d)
      BY RateAssumption
    <3>5. 0 <= rest + most
      OBVIOUS
    <3> QED
      BY <2>4, <3>1, <3>2, <3>3, <3>4, <3>5 DEF RateBound, FixedRate
  <2> QED
    BY <2>4, <2>5, <2>6 DEF RateInv
<1>4. CASE ResetIters
  <2>1. /\ hook = "iters" /\ hook' = "fullSpeed"
        /\ UNCHANGED <<clock, lastEmptied, burstCount, burstSize, rateNS, pc, locals, hookNow, hooksLeft,
                       grants, leftover, phaseStart>>
    BY <1>4 DEF ResetIters
  <2>2. BurstLeft' = BurstLeft
    BY <2>1 DEF BurstLeft
  <2>3. FixedRate' /\ TokenSeen' /\ (phaseStart <= hookNow)' /\ RateBound'
    BY <1>0, <2>1 DEF RateInv, FixedRate, TokenSeen, RateBound, locals
  <2>4. Balance'
    BY <2>1, <2>2 DEF RateInv, Balance, NothingYet
  <2> QED
    BY <2>3, <2>4 DEF RateInv
<1>5. CASE ResetFullSpeed
  <2>1. /\ hook = "fullSpeed" /\ hook' \in {"now", "none"}
        /\ UNCHANGED <<clock, lastEmptied, burstCount, burstSize, rateNS, pc, locals, hookNow,
                       grants, leftover, phaseStart>>
    BY <1>5 DEF ResetFullSpeed
  <2>2. BurstLeft' = BurstLeft
    BY <2>1 DEF BurstLeft
  <2>3. FixedRate' /\ TokenSeen' /\ (phaseStart <= hookNow)' /\ RateBound'
    BY <1>0, <2>1 DEF RateInv, FixedRate, TokenSeen, RateBound, locals
  <2>4. NothingYet' /\ lastEmptied' = hookNow' - Per
    BY <2>1, <2>2 DEF RateInv, Balance, NothingYet
  <2>5. Accounted(0)'
    <3>1. PICK left \in Nat, rest \in Nat, time \in Nat :
            left = BurstLeft' /\ rest = leftover' /\ time = hookNow' /\ left <= rest /\ grants' = 0
      BY <2>1, <2>2, <2>4, BurstLeftType DEF TypeInv, TypeOK, NothingYet
    <3>2. Operations * 0 = 0 /\ 0 * Per = 0
      BY RateAssumption
    <3>3. 0 + left <= rest + 0 /\ time - Per = time - Per + 0
      BY <3>1, RateAssumption, NoRefill
    <3> QED
      BY <2>4, <3>1, <3>2, <3>3 DEF Accounted
  <2>6. Balance'
    BY <2>1, <2>4, <2>5 DEF Balance
  <2> QED
    BY <2>3, <2>6 DEF RateInv
<1>6. CASE Tick
  <2>1. clock' = clock + 1 /\ UNCHANGED <<limiter, pc, locals, hooks, grants>>
    BY <1>6 DEF Tick
  <2>2. BurstLeft' = BurstLeft
    BY <2>1 DEF BurstLeft, limiter
  <2>3. FixedRate' /\ TokenSeen' /\ (phaseStart <= hookNow)'
    BY <2>1 DEF RateInv, FixedRate, TokenSeen, limiter, locals, hooks
  <2>4. (hook # "none" => RateBound)'
    BY <1>0, <2>1, BoundOverTime DEF RateInv, limiter, hooks
  <2>5. Balance'
    BY <2>1, <2>2 DEF RateInv, Balance, Accounted, NothingYet, limiter, hooks
  <2> QED
    BY <2>3, <2>4, <2>5 DEF RateInv
<1> QED
  BY <1>1, <1>2, <1>3, <1>4, <1>5, <1>6 DEF PrePhaseHooks

\* RateBound: whatever the blocking threads' races for the two buckets, a phase
\* gives no more tokens than the burst bucket had left and _burstSize for its
\* first refill and for every period that passed, for every rate.
THEOREM RateIsKept == Spec => []RateBound
<1>1. CASE Percent = Unset /\ Background = {}
  <2>1. Init => RateInv
    BY <1>1, RateInit
  <2>2. TypeInv /\ TypeInv' /\ CreditInv /\ ReconfigInv /\ RateInv /\ [Next]_vars => RateInv'
    <3> SUFFICES ASSUME TypeInv, TypeInv', CreditInv, ReconfigInv, RateInv, [Next]_vars PROVE RateInv'
      OBVIOUS
    <3>1. CASE \E t \in Users : Breakin(t) \/ Consume(t) \/ LimitRate(t)
      BY <1>1, <3>1, RateUser
    <3>2. CASE PrePhaseHooks \/ Tick
      BY <1>1, <3>2, RateHooks
    <3>3. CASE UNCHANGED vars
      <4>1. BurstLeft' = BurstLeft
        BY <3>3 DEF BurstLeft, vars, limiter
      <4> QED
        BY <3>3, <4>1 DEF RateInv, FixedRate, TokenSeen, Balance, Accounted, NothingYet, RateBound,
                          vars, limiter, locals, hooks
    <3> QED
      BY <3>1, <3>2, <3>3 DEF Next
  <2>3. TypeInv /\ CreditInv /\ RateInv => RateBound
    BY RateInvBounds
  <2>4. Spec => []ReconfigInv
    BY <1>1, ReconfigAlways
  <2> QED
    BY <2>1, <2>2, <2>3, <2>4, TypeAlways, CreditAlways, PTL DEF Spec
<1>2. CASE ~(Percent = Unset /\ Background = {})
  <2>1. RateBound
    BY <1>2 DEF RateBound
  <2> QED
    BY <2>1, PTL
<1> QED
  BY <1>1, <1>2

=============================================================================
