SPECIFICATION MCSpec
CONSTANTS
  Texture <- Textures
  Material <- Materials
  Map <- Maps
  Content <- Contents
  ParseCap = 1
  HandoffFrames = 2
  ReloadCap = 1
  MaxActs = 2
  Value = {"a", "b"}
  MaxDepth = 2
  MaxEntities = 4
  MaxPushes = 3
INVARIANTS StaleIsNoticed Forest
PROPERTIES Lands IsUndoStack
CHECK_DEADLOCK FALSE
