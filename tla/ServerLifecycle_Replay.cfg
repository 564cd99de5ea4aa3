SPECIFICATION Spec
CONSTANTS
  Ann = Ann
  Bob = Bob
  Eve = Eve
  NonceA = NonceA
  NonceB = NonceB
  NonceC = NonceC
  NonceD = NonceD
  Token <- Tokens
  Players <- Match
  Address = {A1, A2}
  Nobody = Nobody
  Leeway = 1
  MaxAttempts = 3
  MaxTime = 3
  MaxHellos = 3
INVARIANT TokenAdmitsOnce
CHECK_DEADLOCK FALSE
