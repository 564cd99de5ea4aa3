----------------------------- MODULE MCSession -----------------------------
(***************************************************************************)
(* A TLC instance of Session: two processes, of one account or of two.     *)
(***************************************************************************)
EXTENDS Session

CONSTANTS Ann, Bob, proc1, proc2

\* The names of the accounts do not matter: the first process is Ann's.
MCInit == Init /\ owner[proc1] = Ann

MCSpec == MCInit /\ [][Next]_vars /\ Fairness
=============================================================================
