--------------------------- MODULE MCDefaultDriver ---------------------------
(***************************************************************************)
(* Small workloads for TLC.                                                *)
(***************************************************************************)
EXTENDS DefaultDriver, TLC

Nop        == [repeat |-> 0, duration |-> FALSE]
Once       == [repeat |-> 1, duration |-> FALSE]
Timed      == [repeat |-> Unset, duration |-> TRUE]
OnceTimed  == [repeat |-> 1, duration |-> TRUE]
Background == [repeat |-> Unset, duration |-> FALSE]

\* The phase maps with the given sets of phase numbers and kinds of phases.
Maps(domains, kinds) == UNION {[d -> kinds] : d \in domains}

NoPhases == [p \in {} |-> Nop]

\* Actors that agree on two phases, of every kind.
RegularPlans ==
  [Threads -> Maps({{0, 1}}, {Nop, Once, Timed, OnceTimed, Background})]

\* Actors that disagree on which phases there are: too few, a gap, none.
RaggedPlans ==
  [Threads -> Maps({{}, {0}, {1}, {0, 1}, {0, 2}}, {Once, Background})]

TwoActorPlans == RegularPlans \cup RaggedPlans

\* Next to a PhaseTimingRecorder, one actor that is in the foreground or in the
\* background, and others that are timed or in the background and may have a
\* phase less.
One == CHOOSE t \in Threads \ Recorders : TRUE
RecordedPlans ==
  {p \in [Threads -> Maps({{}, {0}, {0, 1}}, {Once, Timed, Background})] :
     \A t \in Threads : p[t] \in IF t \in Recorders THEN {NoPhases}
                               ELSE IF t = One THEN Maps({{0, 1}}, {Once, Background})
                               ELSE Maps({{0}, {0, 1}}, {Timed, Background})}

ThreadSymmetry == Permutations(Threads)
=============================================================================
