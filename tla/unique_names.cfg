SPECIFICATION RollingSpec
CONSTANTS
  Setups = {s, s2}
  Writers = {}
  Readers = {}
  s = s
  s2 = s2
  Manager = m
  CollectionWindowSize = 2
  MaxCreated = 5
  MaxClock = 1
INVARIANT NamesUnique
CHECK_DEADLOCK FALSE
