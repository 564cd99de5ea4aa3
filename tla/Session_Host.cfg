CONSTANTS
  Ann = Ann  Bob = Bob  proc1 = proc1  proc2 = proc2
  Proc = {proc1, proc2}
  Account = {Ann, Bob}
  SessionId = {1, 2, 3}
  Nobody = Nobody
  NoSession = 0
  Timeout = 2
  MaxAttempts = 2
  Lifetime = 1
  MaxInFlight = 3
SPECIFICATION MCSpec
INVARIANTS OneSession SessionKeepsAccount
PROPERTIES ClientSettles GhostEnds
CHECK_DEADLOCK FALSE
