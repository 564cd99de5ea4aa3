--------------------------- MODULE MCReplication ---------------------------
(***************************************************************************)
(* TLC instances of Replication.  Fields are written as functions from     *)
(* names to numbers; where a run is about entities, they have one field.   *)
(***************************************************************************)
EXTENDS Replication

\* A position that moves, and a ground state that may be missing.
Position == [{"pos"} -> {0, 1}]
PositionAndGround == Position \cup [{"pos", "ground"} -> {0, 1}]
Still == [{"pos"} -> {0}]

\* A process takes over while nothing the one before it received is acknowledged: after
\* that the baselines are not the new one's (Replication_Rejoin).
MCNext ==
  \/ \E w \in State : ChooseBaseline(w)
  \/ SendSnapshot
  \/ \E s \in heard \ acked : AckArrives(s)
  \/ \E s \in oldest..seq : Forget(s)
  \/ \E p \in net : ApplyPacket(p)
  \/ NewSession
  \/ acked = {} /\ Rejoin

MCSpec == Init /\ [][MCNext]_vars
=============================================================================
