------------------------- MODULE MCServerLifecycle -------------------------
(***************************************************************************)
(* A TLC instance of ServerLifecycle: two players, one of whom holds two   *)
(* tokens, and a stranger.                                                 *)
(***************************************************************************)
EXTENDS ServerLifecycle

CONSTANTS Ann, Bob, Eve, NonceA, NonceB, NonceC, NonceD

T(account, nonce, exp) == [account |-> account, nonce |-> nonce, iat |-> 0, exp |-> exp]

Tokens == {T(Ann, NonceA, 0), T(Ann, NonceB, 1), T(Bob, NonceC, 1), T(Eve, NonceD, 1)}

Match == {Ann, Bob}
=============================================================================
