SPECIFICATION Spec
CONSTANTS
  Client = Client
  Server = Server
  Half = 3
  AckBits = 2
  SentCap = 1
  MaxSpan = 0
  Window = 1
  MaxSeq <- WrapSeq
  MaxId <- WrapIds
  MaxInFlight = 1
INVARIANTS TypeOK InOrder NoneForgotten NeverRefused
CHECK_DEADLOCK FALSE
