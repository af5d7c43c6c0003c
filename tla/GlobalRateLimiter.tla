-------------------------- MODULE GlobalRateLimiter --------------------------
(***************************************************************************)
(* The rate limiter that threads share without a lock: a token bucket held *)
(* in _lastEmptiedTimeNS, and a second bucket in _burstCount that deals    *)
(* each refill of _burstSize tokens out to whichever threads come.  A      *)
(* percentile limiter first runs at full speed to measure the throughput   *)
(* and then turns itself into an ordinary one.                             *)
(*                                                                         *)
(* Every load, store, compare-exchange and reading of the clock is a step  *)
(* of its own.  The Orchestrator appears as what it guarantees here: its   *)
(* pre-phase hooks run resetLastEmptied() once for each user, while the    *)
(* blocking users wait for the phase and the background ones may be        *)
(* anywhere.                                                               *)
(***************************************************************************)
EXTENDS Integers, FiniteSets

CONSTANTS
  Users,          \* the threads that called addUser()
  Background,     \* those of them that do not block the phase
  Operations,     \* RateSpec "<Operations> per <Per>"
  Per,
  Percent,        \* RateSpec "<Percent>%", or Unset
  Minute,         \* _nsPerMinute, in ticks
  MaxClock, MaxPhases, MaxGrants, MaxIters     \* bounds of the instance

Unset == -1

\* PhaseLoop adds a user and its pre-phase hook together: no limiter without.
ASSUME UsersAssumption ==
  IsFiniteSet(Users) /\ Users # {} /\ Background \subseteq Users
ASSUME RateAssumption == Operations \in Nat \ {0} /\ Per \in Nat \ {0}
ASSUME PercentAssumption == Percent \in (1..100) \cup {Unset} /\ Minute \in Nat \ {0}
ASSUME BoundsAssumption == {MaxClock, MaxPhases, MaxGrants, MaxIters} \subseteq Nat

VARIABLES
  clock,          \* ClockT::now()
  lastEmptied,    \* _lastEmptiedTimeNS
  burstCount,     \* _burstCount
  iters,          \* _iters
  burstSize,      \* _burstSize
  rateNS,         \* _rateNS
  fullSpeed,      \* _fullSpeed
  pc,             \* per user: its next step
  now,            \* per user: the time it read last
  seen,           \* per user: the atomic value it loaded last
  target,         \* per user: newEmptiedTime, or nsSincePhaseStarted
  hook,           \* the next step of resetLastEmptied(), or "none"
  hookNow,        \* the time that resetLastEmptied() read
  hooksLeft,      \* calls of resetLastEmptied() still to make in this phase
  phase,          \* history: phases begun
  phaseStart,     \* history: when this phase's first reset was
  grants,         \* history: tokens given in this phase
  leftover,       \* history: what the phases before had left to give
  configured      \* history: reconfigurations begun in this phase

limiter == <<lastEmptied, burstCount, iters, burstSize, rateNS, fullSpeed>>
locals == <<now, seen, target>>
hooks == <<hook, hookNow, hooksLeft, phase, phaseStart, leftover>>
vars == <<clock, limiter, pc, locals, hooks, grants, configured>>

PC == {"out", "call", "fullSpeed", "count", "since", "sinceNow", "sinceLoad",
       "iters", "breakinCas", "measure", "store", "storeSize", "storeRate",
       "restartNow", "restart", "zero", "limit", "burst", "burstLoad", "burstCas", "refill", "refillCas", "refillCount",
       "granted", "denied", "fpe"}

TypeOK ==
  /\ clock \in 0..MaxClock
  /\ lastEmptied \in Int /\ burstCount \in Nat /\ iters \in Nat
  /\ burstSize \in Nat /\ rateNS \in Nat /\ fullSpeed \in BOOLEAN
  /\ pc \in [Users -> PC]
  /\ now \in [Users -> 0..MaxClock]
  /\ seen \in [Users -> Int] /\ target \in [Users -> Int]
  /\ hook \in {"none", "now", "lastEmptied", "iters", "fullSpeed"}
  /\ hookNow \in 0..MaxClock
  /\ hooksLeft \in 0..Cardinality(Users)
  /\ phase \in 0..MaxPhases /\ phaseStart \in 0..MaxClock
  /\ grants \in Nat /\ leftover \in Nat /\ configured \in Nat

\* The constructor: a base specification, or a percentile one at full speed.
Init ==
  /\ clock = 0
  /\ lastEmptied = 0 /\ burstCount = 0 /\ iters = 0
  /\ burstSize = IF Percent = Unset THEN Operations ELSE 0
  /\ rateNS = IF Percent = Unset THEN Per ELSE 0
  /\ fullSpeed = (Percent # Unset)
  /\ pc = [t \in Users |-> "out"]
  /\ now = [t \in Users |-> 0]
  /\ seen = [t \in Users |-> 0]
  /\ target = [t \in Users |-> 0]
  /\ hook = "none" /\ hookNow = 0 /\ hooksLeft = 0
  /\ phase = 0 /\ phaseStart = 0
  /\ grants = 0 /\ leftover = 0 /\ configured = 0

Goto(t, label) == pc' = [pc EXCEPT ![t] = label]

\* consumeIfWithinRate() returns true; notifyOfIteration() comes next.
Grant(t) ==
  /\ Goto(t, "granted")
  /\ grants' = grants + 1

-----------------------------------------------------------------------------
(* limitRate() and simpleLimitRate(): read the clock, try, sleep, retry.   *)

\* A thread enters the loop in its inner loop, that is once its phase began;
\* only a background thread is there while the hooks of the next phase run.
Enter(t) ==
  /\ pc[t] = "out"
  /\ phase > 0 /\ grants < MaxGrants /\ iters < MaxIters
  /\ hook = "none" \/ (t \in Background /\ phase > 1)
  /\ Goto(t, "call")
  /\ UNCHANGED <<clock, limiter, locals, hooks, grants, configured>>

ReadClock(t) ==
  /\ pc[t] = "call"
  /\ Goto(t, "fullSpeed")
  /\ now' = [now EXCEPT ![t] = clock]
  /\ UNCHANGED <<clock, limiter, seen, target, hooks, grants, configured>>

\* Denied: sleep and retry ...
Retry(t) ==
  /\ pc[t] = "denied"
  /\ Goto(t, "call")
  /\ UNCHANGED <<clock, limiter, locals, hooks, grants, configured>>

\* ... unless the phase is over for a blocking thread: the loop is left, and
\* the iteration counted, without a token.
GiveUp(t) ==
  /\ pc[t] = "denied"
  /\ t \notin Background
  /\ Goto(t, "out")
  /\ iters' = iters + 1
  /\ UNCHANGED <<clock, lastEmptied, burstCount, burstSize, rateNS, fullSpeed,
                 locals, hooks, grants, configured>>

notifyOfIteration(t) ==
  /\ pc[t] = "granted"
  /\ Goto(t, "out")
  /\ iters' = iters + 1
  /\ UNCHANGED <<clock, lastEmptied, burstCount, burstSize, rateNS, fullSpeed,
                 locals, hooks, grants, configured>>

-----------------------------------------------------------------------------
(* isBreakin().                                                            *)

LoadFullSpeed(t) ==
  /\ pc[t] = "fullSpeed"
  /\ Goto(t, IF fullSpeed THEN "count" ELSE "burst")
  /\ UNCHANGED <<clock, limiter, locals, hooks, grants, configured>>

BreakinCount(t) ==
  /\ pc[t] = "count"
  /\ Goto(t, "since")
  /\ burstCount' = burstCount + 1
  /\ UNCHANGED <<clock, lastEmptied, iters, burstSize, rateNS, fullSpeed,
                 locals, hooks, grants, configured>>

\* nsSincePhaseStarted: the clock and the bucket are read in either order.
BreakinNow(t) ==
  /\ pc[t] \in {"since", "sinceNow"}
  /\ now' = [now EXCEPT ![t] = clock]
  /\ IF pc[t] = "since"
     THEN Goto(t, "sinceLoad") /\ UNCHANGED target
     ELSE Goto(t, "iters") /\ target' = [target EXCEPT ![t] = clock - target[t]]
  /\ UNCHANGED <<clock, limiter, seen, hooks, grants, configured>>

BreakinLoad(t) ==
  /\ pc[t] \in {"since", "sinceLoad"}
  /\ IF pc[t] = "since"
     THEN Goto(t, "sinceNow") /\ target' = [target EXCEPT ![t] = lastEmptied]
     ELSE Goto(t, "iters") /\ target' = [target EXCEPT ![t] = now[t] - lastEmptied]
  /\ UNCHANGED <<clock, limiter, now, seen, hooks, grants, configured>>

\* Fault: a minute or three iterations, whichever is shorter.
BreakinOver_Shorter(t) == iters >= 3 * Cardinality(Users) \/ target[t] >= Minute

BreakinOver(t) == iters >= 3 * Cardinality(Users) /\ target[t] >= Minute

BreakinTest(t) ==
  /\ pc[t] = "iters"
  /\ IF BreakinOver(t)
     THEN Goto(t, "breakinCas") /\ UNCHANGED grants
     ELSE Grant(t)
  /\ UNCHANGED <<clock, limiter, locals, hooks, configured>>

\* Fault: a plain store of false instead of the compare-exchange.
BreakinCas_Store(t) ==
  /\ pc[t] = "breakinCas"
  /\ fullSpeed' = FALSE
  /\ configured' = configured + 1
  /\ Goto(t, "measure") /\ UNCHANGED grants
  /\ UNCHANGED <<clock, lastEmptied, burstCount, iters, burstSize, rateNS, locals, hooks>>

\* compare_exchange_weak may fail although the value is the expected one.
BreakinCas(t) ==
  /\ pc[t] = "breakinCas"
  /\ \/ /\ fullSpeed
        /\ fullSpeed' = FALSE
        /\ configured' = configured + 1
        /\ Goto(t, "measure") /\ UNCHANGED grants
     \/ Grant(t) /\ UNCHANGED <<fullSpeed, configured>>
  /\ UNCHANGED <<clock, lastEmptied, burstCount, iters, burstSize, rateNS, locals, hooks>>

\* Reconfigure.  _burstSize and _rateNS are plain fields that other threads
\* read meanwhile: the two stores may become visible in either order.
Measure(t) ==
  /\ pc[t] = "measure"
  /\ Goto(t, "store")
  /\ seen' = [seen EXCEPT ![t] = burstCount]
  /\ UNCHANGED <<clock, limiter, now, target, hooks, grants, configured>>

StoreBurstSize(t) ==
  /\ pc[t] \in {"store", "storeSize"}
  /\ Goto(t, IF pc[t] = "store" THEN "storeRate" ELSE "restartNow")
  /\ burstSize' = (seen[t] * Percent) \div 100
  /\ UNCHANGED <<clock, lastEmptied, burstCount, iters, rateNS, fullSpeed,
                 locals, hooks, grants, configured>>

StoreRate(t) ==
  /\ pc[t] \in {"store", "storeRate"}
  /\ Goto(t, IF pc[t] = "store" THEN "storeSize" ELSE "restartNow")
  /\ rateNS' = target[t]
  /\ UNCHANGED <<clock, lastEmptied, burstCount, iters, burstSize, fullSpeed,
                 locals, hooks, grants, configured>>

RestartNow(t) ==
  /\ pc[t] = "restartNow"
  /\ Goto(t, "restart")
  /\ now' = [now EXCEPT ![t] = clock]
  /\ UNCHANGED <<clock, limiter, seen, target, hooks, grants, configured>>

RestartBucket(t) ==
  /\ pc[t] = "restart"
  /\ Goto(t, "zero")
  /\ lastEmptied' = now[t] - rateNS
  /\ UNCHANGED <<clock, burstCount, iters, burstSize, rateNS, fullSpeed,
                 locals, hooks, grants, configured>>

ZeroBurst(t) ==
  /\ pc[t] = "zero"
  /\ Goto(t, "limit")
  /\ burstCount' = 0
  /\ UNCHANGED <<clock, lastEmptied, iters, burstSize, rateNS, fullSpeed,
                 locals, hooks, grants, configured>>

EndFullSpeed(t) ==
  /\ pc[t] = "limit"
  /\ fullSpeed' = FALSE
  /\ Grant(t)
  /\ UNCHANGED <<clock, lastEmptied, burstCount, iters, burstSize, rateNS,
                 locals, hooks, configured>>

-----------------------------------------------------------------------------
(* The rest of consumeIfWithinRate(): first the burst bucket ...           *)

TestBurstSize(t) ==
  /\ pc[t] = "burst"
  /\ Goto(t, IF burstSize > 1 THEN "burstLoad" ELSE "refill")
  /\ UNCHANGED <<clock, limiter, locals, hooks, grants, configured>>

\* _burstSize is read a second time, for the modulus.
LoadBurstCount(t) ==
  /\ pc[t] = "burstLoad"
  /\ seen' = [seen EXCEPT ![t] = burstCount]
  /\ Goto(t, IF burstSize = 0 THEN "fpe"
             ELSE IF burstCount % burstSize # 0 THEN "burstCas" ELSE "refill")
  /\ UNCHANGED <<clock, limiter, now, target, hooks, grants, configured>>

\* Fault: the loaded count plus one is stored whatever the count is by now.
BurstCas_Store(t) ==
  /\ pc[t] = "burstCas"
  /\ burstCount' = seen[t] + 1
  /\ Grant(t)
  /\ UNCHANGED <<clock, lastEmptied, iters, burstSize, rateNS, fullSpeed,
                 locals, hooks, configured>>

BurstCas(t) ==
  /\ pc[t] = "burstCas"
  /\ \/ /\ burstCount = seen[t]
        /\ burstCount' = burstCount + 1
        /\ Grant(t)
     \/ Goto(t, "denied") /\ UNCHANGED <<burstCount, grants>>
  /\ UNCHANGED <<clock, lastEmptied, iters, burstSize, rateNS, fullSpeed,
                 locals, hooks, configured>>

(* ... then the bucket that the clock fills.                               *)

\* Fault: the bucket may be emptied up to one period ahead of the clock.
WithinRate_Early(t) == lastEmptied <= now[t]

\* The bucket's next emptying is not in the future.
WithinRate(t) == lastEmptied + rateNS <= now[t]

\* getRate() is read with the same step: a change of _rateNS between the two
\* reads is seen by a load that comes later, with the same outcome.
LoadLastEmptied(t) ==
  /\ pc[t] = "refill"
  /\ seen' = [seen EXCEPT ![t] = lastEmptied]
  /\ target' = [target EXCEPT ![t] = lastEmptied + rateNS]
  /\ Goto(t, IF WithinRate(t) THEN "refillCas" ELSE "denied")
  /\ UNCHANGED <<clock, limiter, now, hooks, grants, configured>>

RefillCas(t) ==
  /\ pc[t] = "refillCas"
  /\ \/ /\ lastEmptied = seen[t]
        /\ lastEmptied' = target[t]
        /\ grants' = grants + 1
        /\ Goto(t, "refillCount")
     \/ Goto(t, "denied") /\ UNCHANGED <<lastEmptied, grants>>
  /\ UNCHANGED <<clock, burstCount, iters, burstSize, rateNS, fullSpeed,
                 locals, hooks, configured>>

\* The token is spent before the count says so: not atomic with RefillCas.
RefillCount(t) ==
  /\ pc[t] = "refillCount"
  /\ burstCount' = burstCount + 1
  /\ Goto(t, "granted")
  /\ UNCHANGED <<clock, lastEmptied, iters, burstSize, rateNS, fullSpeed,
                 locals, hooks, grants, configured>>

-----------------------------------------------------------------------------
(* The pre-phase hooks: resetLastEmptied(), for each user.                 *)

\* What the burst bucket gives without a refill: the rest of the last one,
\* and the burst each thread at its RefillCount is about to open.
BurstLeft ==
  IF burstSize <= 1 THEN 0
  ELSE ((burstSize - (burstCount % burstSize)) % burstSize)
       + (burstSize - 1) * Cardinality({t \in Users : pc[t] = "refillCount"})

\* All blocking users are at the barrier, so the next phase may begin.
BeginPhase ==
  /\ hook = "none" /\ phase < MaxPhases
  /\ \A t \in Users \ Background : pc[t] = "out"
  /\ hook' = "now"
  /\ hooksLeft' = Cardinality(Users)
  /\ phase' = phase + 1
  /\ UNCHANGED <<clock, limiter, pc, locals, hookNow, phaseStart, leftover, grants, configured>>

ResetNow ==
  /\ hook = "now"
  /\ hook' = "lastEmptied"
  /\ hookNow' = clock
  /\ UNCHANGED <<clock, limiter, pc, locals, hooksLeft, phase, phaseStart, leftover,
                 grants, configured>>

\* The history variables begin anew with a phase's first reset.
StartHistory ==
  IF hooksLeft = Cardinality(Users)
  THEN /\ phaseStart' = hookNow /\ leftover' = BurstLeft
       /\ grants' = 0 /\ configured' = 0
  ELSE UNCHANGED <<phaseStart, leftover, grants, configured>>

ResetLastEmptied ==
  /\ hook = "lastEmptied"
  /\ hook' = "iters"
  /\ lastEmptied' = hookNow - rateNS
  /\ StartHistory
  /\ UNCHANGED <<clock, burstCount, iters, burstSize, rateNS, fullSpeed, pc, locals,
                 hookNow, hooksLeft, phase>>

ResetIters ==
  /\ hook = "iters"
  /\ hook' = "fullSpeed"
  /\ iters' = 0
  /\ UNCHANGED <<clock, lastEmptied, burstCount, burstSize, rateNS, fullSpeed, pc, locals,
                 hookNow, hooksLeft, phase, phaseStart, leftover, grants, configured>>

\* Fault: the hooks run once too often.
ResetFullSpeed_OnceMore ==
  /\ hook = "fullSpeed"
  /\ fullSpeed' = IF Percent # Unset THEN TRUE ELSE fullSpeed
  /\ hooksLeft' = hooksLeft - 1
  /\ hook' = IF hooksLeft >= 0 THEN "now" ELSE "none"
  /\ UNCHANGED <<clock, lastEmptied, burstCount, iters, burstSize, rateNS, pc, locals,
                 hookNow, phase, phaseStart, leftover, grants, configured>>

ResetFullSpeed ==
  /\ hook = "fullSpeed"
  /\ fullSpeed' = IF Percent # Unset THEN TRUE ELSE fullSpeed
  /\ hooksLeft' = hooksLeft - 1
  /\ hook' = IF hooksLeft > 1 THEN "now" ELSE "none"
  /\ UNCHANGED <<clock, lastEmptied, burstCount, iters, burstSize, rateNS, pc, locals,
                 hookNow, phase, phaseStart, leftover, grants, configured>>

Tick ==
  /\ clock < MaxClock
  /\ clock' = clock + 1
  /\ UNCHANGED <<limiter, pc, locals, hooks, grants, configured>>

-----------------------------------------------------------------------------
Breakin(t) ==
  \/ LoadFullSpeed(t) \/ BreakinCount(t) \/ BreakinNow(t) \/ BreakinLoad(t) \/ BreakinTest(t)
  \/ BreakinCas(t) \/ Measure(t) \/ StoreBurstSize(t) \/ StoreRate(t)
  \/ RestartNow(t) \/ RestartBucket(t) \/ ZeroBurst(t) \/ EndFullSpeed(t)

Consume(t) ==
  \/ TestBurstSize(t) \/ LoadBurstCount(t) \/ BurstCas(t)
  \/ LoadLastEmptied(t) \/ RefillCas(t) \/ RefillCount(t)

LimitRate(t) ==
  Enter(t) \/ ReadClock(t) \/ Retry(t) \/ GiveUp(t) \/ notifyOfIteration(t)

PrePhaseHooks ==
  BeginPhase \/ ResetNow \/ ResetLastEmptied \/ ResetIters \/ ResetFullSpeed

Next ==
  \/ \E t \in Users : Breakin(t) \/ Consume(t) \/ LimitRate(t)
  \/ PrePhaseHooks
  \/ Tick

Spec == Init /\ [][Next]_vars

-----------------------------------------------------------------------------
(* Properties.                                                             *)

\* The bucket is never emptied ahead of the clock, whatever races with it: no
\* thread's stale time or stale load hands out the future's tokens.
NoFutureCredit == lastEmptied <= clock

\* The rate is kept.  In a phase no more tokens are given than the burst
\* bucket had left, plus _burstSize for the first refill and for each period
\* that has passed.  (A background thread takes tokens between the resets of
\* the users' hooks, and each of those resets grants another burst.)
RateBound ==
  Percent = Unset /\ Background = {} =>
    grants <= leftover + burstSize * (1 + (clock - phaseStart) \div rateNS)

ReconfiguringPlaces ==
  {"measure", "store", "storeSize", "storeRate", "restartNow", "restart", "zero", "limit"}

Reconfiguring == {t \in Users : pc[t] \in ReconfiguringPlaces}

\* A percentile limiter is reconfigured by one thread, and once in a phase.
OneReconfigurer == Cardinality(Reconfiguring) <= 1 /\ configured <= 1

\* A percentile limiter that limits was reconfigured in this phase, and its
\* period is a minute or more of the time that isBreakin() takes for the
\* phase's.  In the first phase the period has indeed passed in it; from the
\* second on resetLastEmptied() has put the time one period back, and this
\* says nothing of the time since the phase began (see BreakinLastsAMinute).
LimitIsMeasured ==
  Percent # Unset /\ hook = "none" /\ ~fullSpeed /\ Reconfiguring = {} =>
    /\ configured = 1 /\ rateNS >= Minute
    /\ phase = 1 => rateNS <= clock - phaseStart

-----------------------------------------------------------------------------
(* What the comments say.                                                  *)

\* "The rate limiter should be reset to allow one thread to run _burstSize
\* number of times before the start of each phase": no more than that many
\* tokens are given before the first period is over.
OneBurstAtPhaseStart ==
  Percent = Unset /\ clock - phaseStart < rateNS => grants <= burstSize

\* "We "break in" the rate limiter for 1 minutes or 3 iterations, whichever is
\* longer": a thread that reconfigures does so a minute into the phase.  It is
\* so in the first phase only.
BreakinLastsAMinute ==
  \A t \in Users : pc[t] = "measure" => clock - phaseStart >= Minute
=============================================================================
