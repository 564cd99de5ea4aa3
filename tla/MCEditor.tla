------------------------------ MODULE MCEditor ------------------------------
(***************************************************************************)
(* A TLC instance of what goes on in an editor beside its panels: Assets,  *)
(* with a texture and a material that captures it, or EditorUndo, with a   *)
(* parent and two children.  The two share no state, so a behaviour moves  *)
(* one of them; the fairness is that of Assets.                            *)
(***************************************************************************)
EXTENDS Assets, EditorUndo

VARIABLE part    \* which of the two moves

Textures  == {"albedo"}
Materials == {"steel"}
Maps      == [m \in Materials |-> "albedo"]
Contents  == {"a", "b"}

\* The frame's asks begin with the texture; what else the main thread does comes before
\* them; what is reloaded is loaded; an edit changes what is read.
AskInOrder(h) ==
  Ask(h) /\ (h \in Material => manager.ref[Map[h]] = "unset" \/ Map[h] \in frame.asked)

AssetsNext ==
  \/ Main
  \/ \E h \in Handle : AskInOrder(h) \/ Work(h)
  \/ \E h \in Handle : WaitFor(h) /\ frame.asked = {}
  \/ \E h \in Handle : Drop(h) /\ frame.asked = {}
  \/ \E h \in Handle : Resident(manager, h) /\ Reload(h) /\ frame.asked = {}
  \/ \E h \in Handle, c \in Content \cup {"bad"} : Edit(h, c) /\ c # file[h].content
  \/ \E j \in manager.jobs : NotPersisted(j)
  \/ Crash /\ frame.asked = {}

\* Everything becomes "b"; the parent's widgets are the ones held, for all that have the
\* component; an opened scene is looked at.
Others(id) == {o \in DOMAIN scene \ {id} : Has(scene, o)}

Panels ==
  \/ CommitPendingEdit \/ Drag("b") \/ CreateEntity
  \/ savedDepth <= 0 /\ (undo # <<>> \/ pending.edited) /\ Save
  \/ savedDepth > 0 /\ pushes = 0 /\ Open
  \/ 1 \in DOMAIN scene /\ Grab(1, Others(1))
  \/ Toggle({2}, "b") \/ AddComponent(3, "b") \/ LinkPrefab(2, "b")
  \/ \E id \in DOMAIN scene \cap {1, 2} : RevertInstance(id, "b")
  \/ \E id \in DOMAIN scene :
       \/ id # 1 /\ RemoveComponent(id)
       \/ DuplicateSelectedEntity(id) \/ DeleteEntity(id)
       \/ \E parent \in DOMAIN scene \cup {0} : Reparent(id, parent)

\* A scene that strayed is only undone and redone.
EditorNext == Undo \/ Redo \/ (~strayed /\ Panels)

MCInit ==
  /\ Init /\ \A h \in Handle : file[h].content = "a"
  /\ UndoInit /\ \A id \in DOMAIN scene : scene[id].value = IF id = 3 THEN None ELSE "a"
  /\ part \in {"assets", "undo"}

MCNext ==
  \/ part = "assets" /\ AssetsNext /\ UNCHANGED <<undoVars, part>>
  \/ part = "undo" /\ EditorNext /\ UNCHANGED <<vars, part>>

MCSpec == MCInit /\ [][MCNext]_<<vars, undoVars, part>> /\ Fairness
=============================================================================
