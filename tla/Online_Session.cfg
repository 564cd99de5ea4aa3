SPECIFICATION MCSpec
CONSTANTS
  QueueTries = 2
  JoinFailures = 2
  JoinAttempts = 2
  MaxDrops = 2
  Script <- Scripts
INVARIANTS OneRecovery RefreshTokenOnce RetryIsFresh CancelReaches PushReturns
PROPERTIES RequestsAndJoinsEnd
CHECK_DEADLOCK FALSE
