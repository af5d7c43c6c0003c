SPECIFICATION Spec
CONSTANTS
  Users = {u1}
  u1 = u1
  Background = {}
  Operations = 1
  Per = 1
  Percent = 50
  Minute = 1
  MaxClock = 3
  MaxPhases = 2
  MaxGrants = 9
  MaxIters = 8
INVARIANT BreakinLastsAMinute
CHECK_DEADLOCK FALSE
