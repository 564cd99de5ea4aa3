SPECIFICATION Spec
CONSTANTS
  Client = Client
  Server = Server
  Half = 8
  AckBits = 2
  SentCap = 3
  MaxSpan = 1
  Window = 2
  MaxSeq <- BothSeq
  MaxId <- BothIds
  MaxInFlight = 2
INVARIANT AcksAreTrue
PROPERTY ImplementsFifo
CHECK_DEADLOCK FALSE
