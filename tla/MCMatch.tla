------------------------------ MODULE MCMatch ------------------------------
(***************************************************************************)
(* A TLC instance of a process and of the scene it plays: ServerLifecycle, *)
(* or SceneFrame, of what a frame makes of the entities, or ChangeViews,   *)
(* of who reads what was logged.  They share no state, so a behaviour      *)
(* moves one of them; the fairness is that of ServerLifecycle.             *)
(***************************************************************************)
EXTENDS MCServerLifecycle, SceneFrame, ChangeViews

VARIABLE part    \* which of them moves

matchVars == <<vars, frameVars, viewVars, part>>

MCInit ==
  /\ Init /\ FrameInit /\ ViewsInit
  /\ part \in {"lifecycle", "frame", "views"}
  /\ part # "lifecycle" => ~dev
  /\ part # "frame" => Scripted = {}

MCNext ==
  \/ part = "lifecycle" /\ Next /\ UNCHANGED <<frameVars, viewVars, part>>
  \/ part = "frame" /\ FrameNext /\ UNCHANGED <<vars, viewVars, part>>
  \/ part = "views" /\ ViewsNext /\ UNCHANGED <<vars, frameVars, part>>

MCSpec == MCInit /\ [][MCNext]_matchVars /\ Fairness
=============================================================================
