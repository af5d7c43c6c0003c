SPECIFICATION Spec
CONSTANTS
  t1 = t1
  t2 = t2
  Threads = {t1, t2}
  Recorders = {}
  Plans <- TwoActorPlans
  IterCap = 1
SYMMETRY ThreadSymmetry
INVARIANTS
  TypeOK TokenConservation AssertionsHold PhaseExclusion NoLostWakeup
  HooksInOrder SuccessMeansComplete PhasesInLockStep
