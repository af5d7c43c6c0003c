---------------------------- MODULE WorkloadContext ----------------------------
(***************************************************************************)
(* The construction of a workload: the Cast is filled by static            *)
(* registrations, the contexts of the actors are made one after the other  *)
(* from the configuration, the actors by one thread for each context, and  *)
(* the hook of the external coordinator is the last to be added.  Then the *)
(* hooks run, phase after phase.                                           *)
(*                                                                         *)
(* An actor's configuration is a record [name, type, threads, hasPhases,   *)
(* phases]; a phase is a record: null, range (<<>> or <<first, last>>),    *)
(* nop, metrics (MetricsName or ""), limiter (RateLimiterName with a       *)
(* GlobalRate, or ""), bad (the constructor of its PhaseConfig throws).    *)
(***************************************************************************)
EXTENDS Naturals, Sequences, FiniteSets, SequencesExt

CONSTANTS
  Casts,              \* sets of pairs <<cast name, producer>>: the static objects
  Workloads,          \* records [schema, format, actors]
  Limiters,           \* the names of their rate limiters
  PhaseNumbers        \* 2^32: a phase number wraps around here

Coordinator == "coordinator"

ASSUME WorkloadAssumption == PhaseNumbers \in Nat \ {0} /\ {"", Coordinator} \cap Limiters = {}

VARIABLES
  workload, stage,
  cast,               \* _producers: cast names
  registrations,      \* those to come
  contexts,           \* _actorContexts: [phases, firstId]
  maxPhase,           \* of the Orchestrator
  nextWorkloadActorId, rngs,
  nextActorId,        \* of each context
  maker,              \* the thread of each context: [at, made, id, todo]
  bucket,             \* pairs <<context, id>>
  exceptions,
  ops,                \* the registry: <<actor, operation, id>>
  streams,            \* the streams of the gRPC client, in the order of creation
  users, hooks,       \* of the rate limiters; the pre-phase-start hooks
  phase, ran,         \* of the Orchestrator: hooks that ran in this phase
  coordinator         \* [up, waiting, sent]

setupVars == <<workload, cast, registrations, contexts, maxPhase, nextWorkloadActorId, rngs>>
makeVars == <<nextActorId, maker, bucket, exceptions, ops, streams, users>>
runVars == <<phase, ran, coordinator>>
workloadVars == <<stage, setupVars, makeVars, hooks, runVars>>

Actors == workload.actors
Contexts == DOMAIN Actors

WorkloadTypeOK ==
  /\ workload \in Workloads
  /\ stage \in {"cast", "contexts", "make", "done", "failed"}
  /\ Len(contexts) <= Len(Actors) /\ maxPhase \in 0..(PhaseNumbers - 1)
  /\ nextWorkloadActorId \in Nat /\ rngs \in 0..nextWorkloadActorId
  /\ \A c \in DOMAIN maker : maker[c].at \in {"produce", "phases", "limiter", "add", "ended"}
  /\ bucket \subseteq Contexts \X Nat
  /\ users \in [Limiters -> Nat]
  /\ phase \in 0..PhaseNumbers

WorkloadInit ==
  /\ workload \in Workloads /\ stage = "cast"
  /\ cast = {} /\ registrations \in Casts
  /\ contexts = <<>> /\ maxPhase = 0
  /\ nextWorkloadActorId = 1 /\ rngs = 0
  /\ nextActorId = <<>> /\ maker = <<>>
  /\ bucket = {} /\ exceptions = 0
  /\ ops = {} /\ streams = <<>>
  /\ users = [l \in Limiters |-> 0] /\ hooks = <<>>
  /\ phase = 0 /\ ran = 0
  /\ coordinator \in [up : BOOLEAN, waiting : {FALSE}, sent : {<<>>}]

-----------------------------------------------------------------------------
(* Cast, and the checks before the first actor's context.                  *)

\* The static objects register in any order; a name taken twice ends the
\* program before main().
Register ==
  /\ stage = "cast"
  /\ \E r \in registrations :
       /\ registrations' = registrations \ {r}
       /\ IF r[1] \in cast THEN stage' = "failed" /\ UNCHANGED cast
          ELSE cast' = cast \cup {r[1]} /\ UNCHANGED stage
  /\ UNCHANGED <<workload, contexts, maxPhase, nextWorkloadActorId, rngs, makeVars, hooks, runVars>>

MetricsFormats == {"csv", "cedar-csv", "ftdc", "csv-ftdc"}
UseGrpc == workload.format \in {"ftdc", "csv-ftdc"}

BeginContexts ==
  /\ stage = "cast" /\ registrations = {}
  /\ stage' = IF workload.schema /\ workload.format \in MetricsFormats THEN "contexts" ELSE "failed"
  /\ UNCHANGED <<setupVars, makeVars, hooks, runVars>>

-----------------------------------------------------------------------------
(* ActorContext.                                                           *)

\* A phase context: where its phase is in the list, and the number it is
\* given, which counts the contexts and is not its key.
AddContext(out, k, r) ==
  IF out.error \/ r \in DOMAIN out.phases THEN [out EXCEPT !.error = TRUE]
  ELSE [error |-> FALSE, last |-> out.last + 1,
        phases |-> [p \in DOMAIN out.phases \cup {r} |->
                      IF p = r THEN [of |-> k, number |-> out.last] ELSE out.phases[p]]]

RangeOf(p, last) == IF p.range = <<>> THEN <<last, last>> ELSE p.range

AddPhase(out, k, p) ==
  LET range == RangeOf(p, out.last)
      Keys == [i \in 1..(range[2] - range[1] + 1) |-> range[1] + i - 1]
      Add(o, r) == AddContext(o, k, r)
  IN IF p.null \/ range[1] > range[2] THEN [out EXCEPT !.error = TRUE]
     ELSE FoldLeft(Add, out, Keys)

constructPhaseContexts(phases) ==
  LET Add(out, k) == AddPhase(out, k, phases[k])
  IN FoldLeft(Add, [error |-> FALSE, last |-> 0, phases |-> <<>>], [k \in DOMAIN phases |-> k])

\* The phase contexts of a workload's actors, by their phase numbers: none
\* without Phases, and at least one for a list that has a phase.
ASSUME PhasesAssumption ==
  \A w \in Workloads :
    /\ DOMAIN w.actors = 1..Len(w.actors) /\ Len(w.actors) \in Nat
    /\ \A c \in DOMAIN w.actors :
         LET out == constructPhaseContexts(w.actors[c].phases)  keys == DOMAIN out.phases IN
         /\ w.actors[c].threads \in Nat
         /\ ~out.error => /\ IsFiniteSet(keys) /\ Cardinality(keys) <= PhaseNumbers
                          /\ ~w.actors[c].hasPhases => keys = {}
                          /\ w.actors[c].phases # <<>> => keys # {}

\* Fault: the size, which is one more than the last index.
LastPhase_Size(out) == Cardinality(DOMAIN out.phases)

\* out.size() - 1, of unsigned numbers
LastPhase(out) == (Cardinality(DOMAIN out.phases) + PhaseNumbers - 1) % PhaseNumbers

Larger(i, j) == IF i > j THEN i ELSE j

phasesAtLeastTo(minPhase) == Larger(maxPhase, minPhase)

claimActorIds(n) == nextWorkloadActorId' = nextWorkloadActorId + n

\* Without Phases there are no phase contexts, and the Orchestrator is not told.
NewActorContext ==
  /\ stage = "contexts" /\ Len(contexts) < Len(Actors)
  /\ LET a == Actors[Len(contexts) + 1]
         out == constructPhaseContexts(a.phases)
     IN IF out.error
        THEN stage' = "failed" /\ UNCHANGED <<contexts, maxPhase, nextWorkloadActorId, rngs>>
        ELSE /\ contexts' = Append(contexts, [phases |-> out.phases, firstId |-> nextWorkloadActorId])
             /\ maxPhase' = IF a.hasPhases THEN phasesAtLeastTo(LastPhase(out)) ELSE maxPhase
             /\ claimActorIds(a.threads)
             /\ rngs' = Larger(rngs, nextWorkloadActorId')
             /\ UNCHANGED stage
  /\ UNCHANGED <<workload, cast, registrations, makeVars, hooks, runVars>>

-----------------------------------------------------------------------------
(* parallelRun() of _constructActors().                                    *)

BeginMake ==
  /\ stage = "contexts" /\ Len(contexts) = Len(Actors)
  /\ stage' = "make"
  /\ nextActorId' = [c \in Contexts |-> contexts[c].firstId]
  /\ maker' = [c \in Contexts |-> [at |-> "produce", made |-> <<>>, id |-> 0, todo |-> {}]]
  /\ UNCHANGED <<setupVars, bucket, exceptions, ops, streams, users, hooks, runVars>>

Making(c, at) == stage = "make" /\ maker[c].at = at

\* The exception of a thread: its actors are gone with it.
MakerThrows(c) ==
  /\ maker' = [maker EXCEPT ![c].at = "ended"]
  /\ exceptions' = exceptions + 1

\* There is no producer; or the next actor is begun; or all are made.
Produce(c) ==
  /\ Making(c, "produce")
  /\ IF Actors[c].type \notin cast
     THEN MakerThrows(c) /\ UNCHANGED nextActorId
     ELSE IF Len(maker[c].made) < Actors[c].threads
     THEN /\ maker' = [maker EXCEPT ![c].at = "phases", ![c].id = nextActorId[c],
                                    ![c].todo = DOMAIN contexts[c].phases]
          /\ nextActorId' = [nextActorId EXCEPT ![c] = @ + 1]
          /\ UNCHANGED exceptions
     ELSE maker' = [maker EXCEPT ![c].at = "add"] /\ UNCHANGED <<nextActorId, exceptions>>
  /\ UNCHANGED <<stage, setupVars, bucket, ops, streams, users, hooks, runVars>>

PhaseOf(c, r) == Actors[c].phases[contexts[c].phases[r].of]

\* PhaseContext::operation(): the name of a metric has the number of its
\* phase context in it, unless the configuration gives the name.
OperationName(c, r) ==
  IF PhaseOf(c, r).metrics # "" THEN <<PhaseOf(c, r).metrics>>
  ELSE <<"default", contexts[c].phases[r].number>>

operation(key) ==
  /\ ops' = ops \cup {key}
  /\ streams' = IF UseGrpc /\ key \notin ops THEN Append(streams, key) ELSE streams

\* The value of an ActorPhase, if the phase is not a Nop.
ConstructValue(c) ==
  /\ Making(c, "phases")
  /\ \E r \in maker[c].todo :
       IF PhaseOf(c, r).nop
       THEN /\ maker' = [maker EXCEPT ![c].at = "limiter", ![c].todo = <<r, @>>]
            /\ UNCHANGED <<exceptions, ops, streams>>
       ELSE /\ operation(<<Actors[c].name, OperationName(c, r), maker[c].id>>)
            /\ IF PhaseOf(c, r).bad THEN MakerThrows(c)
               ELSE /\ maker' = [maker EXCEPT ![c].at = "limiter", ![c].todo = <<r, @>>]
                    /\ UNCHANGED exceptions
  /\ UNCHANGED <<stage, setupVars, nextActorId, bucket, users, hooks, runVars>>

\* Fault: only the thread that makes a limiter is a user of it.
getRateLimiter_First(l) ==
  /\ users' = [users EXCEPT ![l] = IF @ = 0 THEN 1 ELSE @]
  /\ hooks' = Append(hooks, l)

getRateLimiter(l) ==
  /\ users' = [users EXCEPT ![l] = @ + 1]
  /\ hooks' = Append(hooks, l)

\* Its IterationChecker, of a Nop too.
ConstructChecker(c) ==
  LET r == maker[c].todo[1]  left == maker[c].todo[2] \ {r}
  IN /\ Making(c, "limiter")
     /\ IF PhaseOf(c, r).limiter # "" THEN getRateLimiter(PhaseOf(c, r).limiter)
        ELSE UNCHANGED <<users, hooks>>
     /\ maker' = [maker EXCEPT ![c].at = "phases", ![c].todo = left]
     /\ UNCHANGED <<stage, setupVars, nextActorId, bucket, exceptions, ops, streams, runVars>>

ActorMade(c) ==
  /\ Making(c, "phases") /\ maker[c].todo = {}
  /\ maker' = [maker EXCEPT ![c].at = "produce", ![c].made = Append(@, maker[c].id)]
  /\ UNCHANGED <<stage, setupVars, nextActorId, bucket, exceptions, ops, streams, users, hooks, runVars>>

addItem(c) ==
  /\ Making(c, "add")
  /\ IF maker[c].made = <<>>
     THEN maker' = [maker EXCEPT ![c].at = "ended"] /\ UNCHANGED bucket
     ELSE /\ bucket' = bucket \cup {<<c, Head(maker[c].made)>>}
          /\ maker' = [maker EXCEPT ![c].made = Tail(@)]
  /\ UNCHANGED <<stage, setupVars, nextActorId, exceptions, ops, streams, users, hooks, runVars>>

\* Fault: what the threads threw is forgotten.
JoinMakers_Forget ==
  /\ stage = "make" /\ \A c \in Contexts : maker[c].at = "ended"
  /\ stage' = "done" /\ hooks' = Append(hooks, Coordinator)
  /\ UNCHANGED <<setupVars, makeVars, runVars>>

\* throwIfExceptions(), and the rest of the WorkloadContext's constructor.
JoinMakers ==
  /\ stage = "make" /\ \A c \in Contexts : maker[c].at = "ended"
  /\ IF exceptions > 0 THEN stage' = "failed" /\ UNCHANGED hooks
     ELSE stage' = "done" /\ hooks' = Append(hooks, Coordinator)
  /\ UNCHANGED <<setupVars, makeVars, runVars>>

-----------------------------------------------------------------------------
(* The hooks of a phase.  The coordinator's peer answers each message, or   *)
(* closes the connection, which is an answer to read() as well.             *)

Send(event) == [coordinator EXCEPT !.waiting = @ \/ coordinator.up, !.sent = IF coordinator.up THEN Append(@, event) ELSE @]

StartHook ==
  /\ stage = "done" /\ phase <= maxPhase /\ ran < Len(hooks) /\ ~coordinator.waiting
  /\ ran' = ran + 1
  /\ coordinator' = IF hooks[ran + 1] = Coordinator THEN Send(<<"Beginning", phase>>) ELSE coordinator
  /\ UNCHANGED <<stage, setupVars, makeVars, hooks, phase>>

StopHook ==
  /\ stage = "done" /\ phase <= maxPhase /\ ran = Len(hooks) /\ ~coordinator.waiting
  /\ coordinator' = Send(<<"Ended", phase>>)
  /\ phase' = phase + 1 /\ ran' = 0
  /\ UNCHANGED <<stage, setupVars, makeVars, hooks>>

PeerAnswers ==
  /\ coordinator.waiting
  /\ coordinator' = [coordinator EXCEPT !.waiting = FALSE]
  /\ UNCHANGED <<stage, setupVars, makeVars, hooks, phase, ran>>

WorkloadNext ==
  \/ Register \/ BeginContexts \/ NewActorContext \/ BeginMake \/ JoinMakers
  \/ \E c \in DOMAIN maker : Produce(c) \/ ConstructValue(c) \/ ConstructChecker(c) \/ ActorMade(c) \/ addItem(c)
  \/ StartHook \/ StopHook \/ PeerAnswers

WorkloadSpec == WorkloadInit /\ [][WorkloadNext]_workloadVars

-----------------------------------------------------------------------------
(* Properties.                                                             *)

\* No two actors have one id, whatever the order in which the threads of their
\* contexts construct them, and the RNG of each id was made beforehand.
IdsUnique ==
  /\ \A x, y \in bucket : x[2] = y[2] => x = y
  /\ \A c, d \in DOMAIN maker : c # d /\ maker[c].id = maker[d].id => maker[c].id = 0
  /\ \A c \in DOMAIN maker : maker[c].id <= rngs

\* The workload is constructed with every actor of its configuration, or not
\* at all: the exception of one thread is not lost among the others.
AllActors ==
  stage = "done" => \A c \in Contexts : Cardinality({x \in bucket : x[1] = c}) = Actors[c].threads

\* The threads that construct the actors make all of them, each once, or the
\* workload is not constructed.
AllOrNothing == IdsUnique /\ AllActors

\* A metric has one stream for each actor thread, though its phases ask for
\* it again when they share a MetricsName.
OneStreamPerOperation ==
  /\ UseGrpc => Len(streams) = Cardinality(ops)
  /\ ~UseGrpc => streams = <<>>

\* Phases numbered without a gap.
Contiguous(c) == LET keys == DOMAIN contexts[c].phases IN keys = 0..(Cardinality(keys) - 1)

\* The Orchestrator goes through each phase of an actor whose phases have no
\* gap; and through no phase that nobody has, unless a list of phases is empty.
EveryPhaseRuns ==
  stage = "done" =>
    /\ \A c \in Contexts : Contiguous(c) => \A r \in DOMAIN contexts[c].phases : r <= maxPhase
    /\ (\A c \in Contexts : Actors[c].hasPhases => Actors[c].phases # <<>>) =>
         maxPhase = 0 \/ \E c \in Contexts : Cardinality(DOMAIN contexts[c].phases) = maxPhase + 1

\* The phases of the actors that name a limiter: context, and in it the number
\* of the actor and the phase.
Uses(l) ==
  {u \in UNION {{c} \X ((1..Actors[c].threads) \X DOMAIN contexts[c].phases) : c \in Contexts} :
     PhaseOf(u[1], u[2][2]).limiter = l}

\* Each phase of each thread that names a limiter is a user of it, and resets
\* it when a phase starts; the coordinator is told of the phase after that.
LimitersComplete ==
  stage = "done" =>
    /\ hooks[Len(hooks)] = Coordinator
    /\ \A l \in Limiters :
         /\ users[l] = Cardinality(Uses(l))
         /\ users[l] = Cardinality({i \in DOMAIN hooks : hooks[i] = l})

\* What the phases of all the threads share is registered once each: streams,
\* users of limiters, and the hooks in their order.
RegisteredOnce == OneStreamPerOperation /\ LimitersComplete
=============================================================================
