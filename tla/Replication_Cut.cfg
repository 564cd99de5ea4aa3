SPECIFICATION Spec
CONSTANTS
  Id = {1, 2}
  Fields <- Position
  Budget = 1
  RingCap = 2
  KeepCap = 4
  Late = 2
  MaxSeq = 4
  MaxSessions = 1
  MaxRejoins = 0
INVARIANT NewerIncludesOlder
CHECK_DEADLOCK FALSE
