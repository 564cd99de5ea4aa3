SPECIFICATION Spec
CONSTANTS
  Client = Client
  Server = Server
  Half = 8
  AckBits = 2
  SentCap = 3
  MaxSpan = 1
  Window = 2
  MaxSeq <- OneWaySeq
  MaxId <- OneWayIds
  MaxInFlight = 2
INVARIANT LateArrivalsWereCharged
CHECK_DEADLOCK FALSE
