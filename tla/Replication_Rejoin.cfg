SPECIFICATION Spec
CONSTANTS
  Id = {1}
  Fields <- Still
  Budget = 2
  RingCap = 2
  KeepCap = 4
  Late = 2
  MaxSeq = 4
  MaxSessions = 1
  MaxRejoins = 1
INVARIANT NewestDecodes
CHECK_DEADLOCK FALSE
