------------------------------ MODULE MCWorld ------------------------------
(***************************************************************************)
(* A TLC instance of the two parts of Net/World.cpp that work on the same  *)
(* snapshots: Replication, of the fields of an entity, or Prediction, of   *)
(* one pawn.  A behaviour moves one of them: the snapshots of the one are  *)
(* what the other shows they are.                                          *)
(***************************************************************************)
EXTENDS Replication, Prediction

VARIABLE part    \* which of the two moves

\* A position that moves, and a ground state that may be missing.
PositionAndGround == [{"pos"} -> {0, 1}] \cup [{"pos", "ground"} -> {0, 1}]

\* A circle of two poses: a tick with the stick goes to the other one.
Circle == [x \in Pose \X Stick |-> (x[1] + x[2]) % Cardinality(Pose)]

\* Poses are alike, and so is walking with and without the trigger.
PawnNext ==
  \/ ServerStep \/ LosePawn \/ \E pose \in Pose : AssignPawn(pose)
  \/ \E packet \in packets : IngestCommands(packet)
  \/ \E snap \in snaps : ReceiveSnapshot(snap)
  \/ StartPrediction \/ Reconcile
  \/ \E command \in Command : (command.fire => command.stick # Centre) /\ PredictTick(command)

MCInit ==
  /\ Init /\ PredictionInit /\ pawn.pose = Origin
  /\ part \in {"replication", "prediction"}

MCNext ==
  \/ part = "replication" /\ Next /\ UNCHANGED <<predictionVars, part>>
  \/ part = "prediction" /\ PawnNext /\ UNCHANGED <<vars, part>>

MCSpec == MCInit /\ [][MCNext]_<<vars, predictionVars, part>>
=============================================================================
