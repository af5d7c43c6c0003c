SPECIFICATION Spec
CONSTANTS
  Users = {u1, u2}
  u1 = u1
  u2 = u2
  Background = {}
  Operations = 2
  Per = 2
  Percent <- NoPercent
  Minute = 1
  MaxClock = 4
  MaxPhases = 2
  MaxGrants = 8
  MaxIters = 3
SYMMETRY UserSymmetry
INVARIANTS TypeOK NoFutureCredit RateBound
CHECK_DEADLOCK FALSE
