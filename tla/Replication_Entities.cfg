SPECIFICATION MCSpec
CONSTANTS
  Id = {1, 2}
  Fields <- Still
  Budget = 1
  RingCap = 2
  KeepCap = 4
  Late = 1
  MaxSeq = 4
  MaxSessions = 2
  MaxRejoins = 1
INVARIANTS ToldUntilGone NewestDecodes
PROPERTY NoResurrection
CHECK_DEADLOCK FALSE
