SPECIFICATION FairSpec
CONSTANTS
  t1 = t1
  t2 = t2
  t3 = t3
  Threads = {t1, t2, t3}
  Recorders = {t3}
  Plans <- RecordedPlans
  IterCap = 1
PROPERTIES
  ImplementsBarrier Termination
