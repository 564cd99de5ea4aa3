SPECIFICATION MCSpec
CONSTANTS
  Id = {1}
  Fields <- PositionAndGround
  Budget = 2
  RingCap = 2
  KeepCap = 4
  Late = 2
  MaxSeq = 3
  MaxSessions = 1
  MaxRejoins = 1
  Pose = {0, 1}
  Origin = 0
  Stick = {0, 1}
  Centre = 0
  Move <- Circle
  SnapTicks = 2
  HistoryCap = 3
  SampleCap = 1
  InputCap = 2
  Behind = 0
  Recent = 2
  KeepButtons = 1
  KeepStick = 1
  MaxAhead = 2
  MaxTick = 6
  MaxOdd = 1
INVARIANTS TypeOK StampsAgree SceneIsTheWorld Agrees StaleStops InTimeIsUsed
CHECK_DEADLOCK FALSE
