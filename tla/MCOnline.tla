----------------------------- MODULE MCOnline -----------------------------
(***************************************************************************)
(* A TLC instance of Online: a script beside a match whose push socket     *)
(* holds, or without a match beside a push socket that fails.              *)
(***************************************************************************)
EXTENDS Online

Scripts == {"script"}

MCInit == Init /\ drops = IF match.state = "Gone" THEN MaxDrops ELSE 0

MCSpec == MCInit /\ [][Next]_vars /\ Fairness
=============================================================================
