SPECIFICATION MCSpec
CONSTANTS
  Ann = Ann
  Bob = Bob
  Eve = Eve
  NonceA = NonceA
  NonceB = NonceB
  NonceC = NonceC
  NonceD = NonceD
  Token <- Tokens
  Players <- Match
  Address = {A1, A2}
  Nobody = Nobody
  Leeway = 1
  MaxAttempts = 3
  MaxTime = 3
  MaxHellos = 3
  SpawnCap = 1
  MaxMinted = 4
  MaxChanges = 3
  Entity = {"wheel", "door"}
  View = {"world", "sound"}
  MaxLogged = 4
INVARIANTS TypeOK JoinedBeforeClose ResultIsOfAMatch OneShutdown SeenWhileValid
INVARIANTS WorldIsCurrent TreesAreSound InstancesAreScripts NothingIsLost
PROPERTIES NoAdmissionAfterResult StopAndMatchEnd
CHECK_DEADLOCK FALSE
