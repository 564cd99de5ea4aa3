---------------------------- MODULE MCConnection ----------------------------
(***************************************************************************)
(* TLC instances of Connection.                                            *)
(***************************************************************************)
EXTENDS Connection, TLC

\* Messages one way, acknowledgements the other.
OneWaySeq == Client :> 3 @@ Server :> 2
OneWayIds == Client :> 3 @@ Server :> 0

\* Messages both ways.
BothSeq == Client :> 3 @@ Server :> 2
BothIds == Client :> 2 @@ Server :> 1

\* With Half 3 the numbers are 1 to 5, then 7, which is 1 on the wire: enough
\* packets and messages for sequences and ids to wrap.
WrapSeq == Client :> 7 @@ Server :> 4
WrapIds == Client :> 7 @@ Server :> 0

=============================================================================
