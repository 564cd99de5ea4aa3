----------------------------- MODULE EditorUndo -----------------------------
(***************************************************************************)
(* Undo in the editor (EditorUndo.cpp, and what Panels/                    *)
(* SceneHierarchyPanel.cpp and EditorLayer.cpp record): every change of    *)
(* the scene goes on a capped stack as commands, and whether the scene is  *)
(* saved is a depth of that stack.                                         *)
(*                                                                         *)
(* An entity has its place in the hierarchy and one component; that stands *)
(* for any, the link to a prefab included.  A prefab is a single entity.   *)
(* While a widget is held only shortcuts reach the scene: the click that   *)
(* would do anything else makes the widget let go.  Scenes that play, the  *)
(* gizmo, placing, scattering and joints are left out.                     *)
(***************************************************************************)
EXTENDS Integers, FiniteSets, SequencesExt

CONSTANTS
  Value,        \* what a component may hold
  MaxDepth,     \* EditorUndoStack::MaxDepth: 100
  MaxEntities,  \* bound: ids ever minted
  MaxPushes     \* bound: commands pushed, and changes beside the stack

None == "none"   \* no component

ASSUME EditorUndoAssumption ==
  /\ None \notin Value
  /\ MaxDepth \in Nat \ {0} /\ MaxEntities \in Nat /\ MaxPushes \in Nat

VARIABLES
  scene,       \* the live entities: parent, children and component
  undo, redo,  \* m_Undo and m_Redo: entries, each of one command or of two
  savedDepth,  \* m_SavedDepth
  pending,     \* m_Pending: the entity whose widget is held, 0 without one
  saved,       \* the scene as it was saved or opened
  minted,      \* ids minted so far
  pushes,      \* bound: pushes still to happen
  shots,       \* history: the scene at every depth of the two stacks
  strayed,     \* history: the scene was changed without the stack
  lost         \* history: the saved scene is at no depth of the stacks any more

undoVars ==
  <<scene, undo, redo, savedDepth, pending, saved, minted, pushes, shots, strayed, lost>>

NoEdit == [primary |-> 0, before |-> [id \in {} |-> None], edited |-> FALSE]

UndoInit ==
  /\ scene \in {[id \in 1..3 |->
                  [parent |-> IF id = 1 THEN 0 ELSE 1,
                   children |-> IF id = 1 THEN <<2, 3>> ELSE <<>>,
                   value |-> v[id]]] : v \in [1..3 -> Value \cup {None}]}
  /\ undo = <<>> /\ redo = <<>> /\ savedDepth = 0 /\ pending = NoEdit
  /\ saved = scene /\ minted = 3 /\ pushes = MaxPushes
  /\ shots = <<scene>> /\ strayed = FALSE /\ lost = FALSE

-----------------------------------------------------------------------------
(* The hierarchy (Scene/Scene.cpp); S is a scene, 0 is no parent. *)

Has(S, id) == id \in DOMAIN S /\ S[id].value # None

NewEntity(id, value) == [new \in {id} |-> [parent |-> 0, children |-> <<>>, value |-> value]]

\* The scene with the entities of N, as they are in N.
With(S, N) == [id \in DOMAIN S \cup DOMAIN N |-> IF id \in DOMAIN N THEN N[id] ELSE S[id]]

\* An entity, its parent, and so on up.
Above(S, id) ==
  {a \in DOMAIN S :
     \A X \in SUBSET DOMAIN S :
       id \in X /\ (\A x \in X : {S[x].parent} \cap DOMAIN S \subseteq X) => a \in X}

\* An entity and what is under it.
CollectSubtree(S, root) ==
  {d \in DOMAIN S :
     \A X \in SUBSET DOMAIN S :
       root \in X /\ (\A x \in X : ToSet(S[x].children) \cap DOMAIN S \subseteq X) => d \in X}

Place(children, child) == CHOOSE i \in DOMAIN children : children[i] = child

\* RemoveChildFromParent, of a child that is listed once (Forest).
Without(children, child) ==
  IF child \in ToSet(children) THEN RemoveAt(children, Place(children, child)) ELSE children

\* Unparent, and the last of the other parent's.
Under(S, child, parent) ==
  [id \in DOMAIN S |->
     LET rest == IF id = S[child].parent THEN Without(S[id].children, child) ELSE S[id].children
     IN  [S[id] EXCEPT !.parent   = IF id = child THEN parent ELSE @,
                       !.children = IF id = parent THEN Append(rest, child) ELSE rest]]

\* Silent where it would make a circle.
SetParent(S, child, parent) ==
  IF parent # 0 /\ child \in Above(S, parent) THEN S ELSE Under(S, child, parent)

\* New entities with what the old ones have, and the old ones' links among themselves; the
\* first is a sibling of the entity it is a copy of.
DuplicateEntity(S, source, copy) ==
  LET old(new) == CHOOSE id \in DOMAIN copy : copy[id] = new
      copies   == [new \in {copy[id] : id \in DOMAIN copy} |->
                     [S[old(new)] EXCEPT !.parent   = IF old(new) = source THEN 0 ELSE copy[@],
                                         !.children = [i \in DOMAIN @ |-> copy[@[i]]]]]
      parent   == S[source].parent
      T        == With(S, copies)
  IN  IF parent = 0 THEN T ELSE SetParent(T, copy[source], parent)

-----------------------------------------------------------------------------
(* Snapshots and commands (EditorUndo.cpp) *)

\* Where an entity is among its siblings, from 0.
SiblingIndexOf(S, id) ==
  IF S[id].parent = 0 THEN 0 ELSE Place(S[S[id].parent].children, id) - 1

CaptureSubtree(S, root) ==
  [root |-> root, index |-> SiblingIndexOf(S, root), nodes |-> Restrict(S, CollectSubtree(S, root))]

PutAt(children, child, index) ==
  InsertAt(children, 1 + IF index < Len(children) THEN index ELSE Len(children), child)

\* Mutant of RestoreSubtree: the surviving parent is not told.
RestoreSubtree_Alone(S, snapshot) == With(S, snapshot.nodes)

\* The entities come back as they were, and the first is put back among the children of
\* its parent, or becomes a root if that is gone.
RestoreSubtree(S, snapshot) ==
  LET R      == With(S, snapshot.nodes)
      root   == snapshot.root
      parent == R[root].parent
  IN  CASE parent = 0 \/ (parent \in DOMAIN R /\ root \in ToSet(R[parent].children)) -> R
        [] parent # 0 /\ parent \notin DOMAIN R -> [R EXCEPT ![root].parent = 0]
        [] OTHER -> [R EXCEPT ![parent].children = PutAt(@, root, snapshot.index)]

\* DestroyEntity of each, the last ones first: what was under one that goes becomes a root.
\* Only the first may have a parent that stays: what goes is all that is under it (Forest).
RemoveSubtree(S, snapshot) ==
  LET gone == DOMAIN snapshot.nodes IN
  [id \in DOMAIN S \ gone |->
     [S[id] EXCEPT !.parent   = IF @ \in gone THEN 0 ELSE @,
                   !.children = Without(@, snapshot.root)]]

\* Mutant of SetParentAtIndex: SetParent is enough.
SetParentAtIndex_Last(S, child, parent, index) == SetParent(S, child, parent)

SetParentAtIndex(S, child, parent, index) ==
  LET T == SetParent(S, child, parent) IN
  IF parent = 0 \/ T[child].parent # parent
  THEN T
  ELSE [T EXCEPT ![parent].children = PutAt(Without(@, child), child, index)]

\* The edits of a gesture, of one entity or of several.
Edits(before, after) == [kind |-> "edit", before |-> before, after |-> after]
Add(snapshot)    == [kind |-> "add entities", snapshot |-> snapshot]
Delete(snapshot) == [kind |-> "delete entities", snapshot |-> snapshot]

\* Only onto entities that have the component.
Replaced(S, values) ==
  [id \in DOMAIN S |->
     IF id \in DOMAIN values /\ Has(S, id) THEN [S[id] EXCEPT !.value = values[id]] ELSE S[id]]

Taken(S, id) == Replaced(S, [bare \in {id} |-> None])

\* Only onto one that has not.
Added(S, id, value) ==
  IF id \in DOMAIN S /\ ~Has(S, id) THEN [S EXCEPT ![id].value = value] ELSE S

Moved(S, id, parent, index) ==
  IF id \in DOMAIN S
  THEN SetParentAtIndex(S, id, IF parent \in DOMAIN S THEN parent ELSE 0, index)
  ELSE S

UndoOne(S, c) ==
  CASE c.kind = "edit"             -> Replaced(S, c.before)
    [] c.kind = "add component"    -> Taken(S, c.id)
    [] c.kind = "remove component" -> Added(S, c.id, c.value)
    [] c.kind = "reparent"         -> Moved(S, c.id, c.oldParent, c.oldIndex)
    [] c.kind = "add entities"     -> RemoveSubtree(S, c.snapshot)
    [] c.kind = "delete entities"  -> RestoreSubtree(S, c.snapshot)

RedoOne(S, c) ==
  CASE c.kind = "edit"             -> Replaced(S, c.after)
    [] c.kind = "add component"    -> Added(S, c.id, c.value)
    [] c.kind = "remove component" -> Taken(S, c.id)
    [] c.kind = "reparent"         -> Moved(S, c.id, c.newParent, c.newIndex)
    [] c.kind = "add entities"     -> RestoreSubtree(S, c.snapshot)
    [] c.kind = "delete entities"  -> RemoveSubtree(S, c.snapshot)

\* CompositeCommand: the children run forward, and in reverse to undo.
UndoAll(S, entry) ==
  IF Len(entry) = 2 THEN UndoOne(UndoOne(S, entry[2]), entry[1]) ELSE UndoOne(S, entry[1])
RedoAll(S, entry) ==
  IF Len(entry) = 2 THEN RedoOne(RedoOne(S, entry[1]), entry[2]) ELSE RedoOne(S, entry[1])

-----------------------------------------------------------------------------
(* The stack *)

\* The scene without what a held widget has changed so far.
Settled(S) ==
  [id \in DOMAIN S |->
     IF id \in DOMAIN pending.before THEN [S[id] EXCEPT !.value = pending.before[id]] ELSE S[id]]

\* EditorUndoStack::Push.  What could be redone is gone; the oldest entry goes when there
\* are too many, and the saved depth with it.
Push(entry, shot) ==
  LET grown == Append(undo, entry)
      seen  == Append(SubSeq(shots, 1, Len(undo) + 1), shot)
      full  == Len(grown) > MaxDepth
  IN
  /\ pushes > 0 /\ pushes' = pushes - 1
  /\ undo' = (IF full THEN Tail(grown) ELSE grown) /\ redo' = <<>>
  /\ savedDepth' = (IF ~full THEN savedDepth ELSE IF savedDepth > 0 THEN savedDepth - 1 ELSE -1)
  /\ shots' = (IF full THEN Tail(seen) ELSE seen)
  /\ lost' = (lost \/ savedDepth > Len(undo))

\* A change that is recorded as one entry, of which `new` ids are new.
RecordChange(entry, after, new) ==
  /\ scene' = after /\ Push(entry, Settled(after))
  /\ minted + new <= MaxEntities /\ minted' = minted + new

\* The entities whose components a command sets or takes away.
Touched(c) ==
  CASE c.kind = "edit"                                       -> DOMAIN c.before
    [] c.kind \in {"add component", "remove component"}      -> {c.id}
    [] c.kind = "reparent"                                   -> {}
    [] c.kind \in {"add entities", "delete entities"}        -> DOMAIN c.snapshot.nodes

\* An entry that does so to what a held widget is editing.
Disturbs(entry) == \E i \in 1..Len(entry) : DOMAIN pending.before \cap Touched(entry[i]) # {}

Undo ==
  /\ undo # <<>>
  /\ scene' = UndoAll(scene, Last(undo))
  /\ undo' = Front(undo) /\ redo' = Append(redo, Last(undo))
  /\ strayed' = (strayed \/ Disturbs(Last(undo)))
  /\ UNCHANGED <<savedDepth, pending, saved, minted, pushes, shots, lost>>

Redo ==
  /\ redo # <<>>
  /\ scene' = RedoAll(scene, Last(redo))
  /\ redo' = Front(redo) /\ undo' = Append(undo, Last(redo))
  /\ strayed' = (strayed \/ Disturbs(Last(redo)))
  /\ UNCHANGED <<savedDepth, pending, saved, minted, pushes, shots, lost>>

\* SaveSceneTo.  The change of a widget that is still held is saved with it, and will be
\* at a depth of its own.
Save ==
  /\ saved' = scene /\ savedDepth' = Len(undo)
  /\ lost' = pending.edited
  /\ UNCHANGED <<scene, undo, redo, pending, minted, pushes, shots, strayed>>

\* OpenScene, of the file that was saved or opened: Clear, and the panel lets go of what is pending.
Open ==
  /\ scene' = saved /\ undo' = <<>> /\ redo' = <<>> /\ savedDepth' = 0 /\ pending' = NoEdit
  /\ shots' = <<saved>> /\ strayed' = FALSE /\ lost' = FALSE
  /\ UNCHANGED <<saved, minted, pushes>>

-----------------------------------------------------------------------------
(* The inspector *)

Idle == pending.primary = 0

\* A widget of the component's section is grabbed, with others selected that have it too.
Grab(primary, others) ==
  /\ Idle /\ pushes > 0 /\ \A id \in {primary} \cup others : Has(scene, id)
  /\ pending' = [primary |-> primary, edited |-> FALSE,
                 before |-> [id \in {primary} \cup others |-> scene[id].value]]
  /\ UNCHANGED <<scene, undo, redo, savedDepth, saved, minted, pushes, shots, strayed, lost>>

\* It is dragged, and the others follow.
Drag(value) ==
  /\ Has(scene, pending.primary)
  /\ scene' = [id \in DOMAIN scene |->
       IF id \in DOMAIN pending.before /\ Has(scene, id)
       THEN [scene[id] EXCEPT !.value = value] ELSE scene[id]]
  /\ pending' = [pending EXCEPT !.edited = TRUE]
  /\ UNCHANGED <<undo, redo, savedDepth, saved, minted, pushes, shots, strayed, lost>>

\* CommitPendingEdit: the widget lets go, or its section is not drawn any more.  One
\* entry for the gesture, and none if nothing was edited.
CommitPendingEdit ==
  LET after == [id \in DOMAIN pending.before |->
                  IF Has(scene, id) THEN scene[id].value ELSE pending.before[id]]
  IN
  /\ ~Idle /\ pending' = NoEdit
  /\ \/ /\ pending.edited
        /\ Push(<<Edits(pending.before, after)>>, scene)
     \/ ~pending.edited /\ UNCHANGED <<undo, redo, savedDepth, pushes, shots, lost>>
  /\ UNCHANGED <<scene, saved, minted, strayed>>

\* TrackCommitBoundary of a check box: changed and recorded within one frame.
Toggle(ids, value) ==
  /\ Idle /\ \A id \in ids : Has(scene, id)
  /\ LET after == [id \in ids |-> value]
     IN  RecordChange(<<Edits([id \in ids |-> scene[id].value], after)>>, Replaced(scene, after), 0)
  /\ UNCHANGED <<pending, saved, strayed>>

AddComponent(id, value) ==
  /\ Idle /\ id \in DOMAIN scene /\ ~Has(scene, id)
  /\ RecordChange(<<[kind |-> "add component", id |-> id, value |-> value]>>, Added(scene, id, value), 0)
  /\ UNCHANGED <<pending, saved, strayed>>

RemoveComponent(id) ==
  /\ Idle /\ Has(scene, id)
  /\ RecordChange(<<[kind |-> "remove component", id |-> id, value |-> scene[id].value]>>,
                  Taken(scene, id), 0)
  /\ UNCHANGED <<pending, saved, strayed>>

\* CreatePrefabFrom.  A link that was there is replaced, and recorded as if it was not.
LinkPrefab(id, value) ==
  /\ Idle /\ id \in DOMAIN scene
  /\ RecordChange(<<[kind |-> "add component", id |-> id, value |-> value]>>,
                  [scene EXCEPT ![id].value = value], 0)
  /\ strayed' = (strayed \/ Has(scene, id))
  /\ UNCHANGED <<pending, saved>>

-----------------------------------------------------------------------------
(* The outliner *)

CreateEntity ==
  LET after == With(scene, NewEntity(minted + 1, None)) IN
  /\ Idle
  /\ RecordChange(<<Add(CaptureSubtree(after, minted + 1))>>, after, 1)
  /\ UNCHANGED <<pending, saved, strayed>>

DuplicateSelectedEntity(id) ==
  LET old == CollectSubtree(scene, id)
      n   == Cardinality(old)
  IN
  /\ id \in DOMAIN scene /\ (Idle \/ id = pending.primary)
  /\ minted + n <= MaxEntities
  /\ \E copy \in Bijection(old, minted + 1..minted + n) :
       LET after == DuplicateEntity(scene, id, copy)
       IN  RecordChange(<<Add(CaptureSubtree(after, copy[id]))>>, after, n)
  /\ UNCHANGED <<pending, saved, strayed>>

\* With the subtree; the shortcut deletes what is selected.  A pending edit in it is
\* dropped: what it changed is in the snapshots, and on no stack.
DeleteEntity(id) ==
  LET gone == CaptureSubtree(scene, id)
  IN
  /\ id \in DOMAIN scene /\ (Idle \/ id \in DOMAIN pending.before)
  /\ RecordChange(<<Delete(gone)>>, RemoveSubtree(scene, gone), 0)
  /\ pending' = IF pending.primary \in DOMAIN gone.nodes THEN NoEdit ELSE pending
  /\ strayed' = (strayed \/ pending.edited)
  /\ UNCHANGED saved

\* Dropped on another entity, or on nothing.  A drop on the parent it has moves it to the
\* end of the children, which is not recorded.
Reparent(child, parent) ==
  LET after == SetParent(scene, child, parent) IN
  /\ Idle /\ child \in DOMAIN scene /\ parent \in DOMAIN scene \cup {0} /\ child # parent
  /\ \/ /\ after[child].parent # scene[child].parent
        /\ RecordChange(
             <<[kind |-> "reparent", id |-> child,
                oldParent |-> scene[child].parent, oldIndex |-> SiblingIndexOf(scene, child),
                newParent |-> after[child].parent, newIndex |-> SiblingIndexOf(after, child)]>>,
             after, 0)
        /\ UNCHANGED strayed
     \/ /\ after[child].parent = scene[child].parent /\ after # scene
        /\ pushes > 0 /\ pushes' = pushes - 1
        /\ scene' = after /\ strayed' = TRUE
        /\ UNCHANGED <<undo, redo, savedDepth, minted, shots, lost>>
  /\ UNCHANGED <<pending, saved>>

\* The subtree goes, and the prefab comes in its place, under the id of the root.
RevertInstance(id, value) ==
  LET before  == CaptureSubtree(scene, id)
      rebuilt == With(RemoveSubtree(scene, before), NewEntity(id, value))
      parent  == scene[id].parent
      after   == IF parent = 0 THEN rebuilt
                 ELSE SetParentAtIndex(rebuilt, id, parent, SiblingIndexOf(scene, id))
  IN
  /\ Idle /\ Has(scene, id)
  /\ RecordChange(<<Delete(before), Add(CaptureSubtree(after, id))>>, after, 0)
  /\ UNCHANGED <<pending, saved, strayed>>

-----------------------------------------------------------------------------
UndoNext ==
  \/ Undo \/ Redo \/ Save \/ Open \/ CommitPendingEdit \/ CreateEntity
  \/ \E v \in Value : Drag(v)
  \/ \E id \in DOMAIN scene :
       \/ RemoveComponent(id) \/ DuplicateSelectedEntity(id) \/ DeleteEntity(id)
       \/ \E others \in SUBSET (DOMAIN scene \ {id}) :
            Grab(id, others) \/ \E v \in Value : Toggle({id} \cup others, v)
       \/ \E v \in Value : AddComponent(id, v) \/ LinkPrefab(id, v) \/ RevertInstance(id, v)
       \/ \E parent \in DOMAIN scene \cup {0} : Reparent(id, parent)

UndoSpec == UndoInit /\ [][UndoNext]_undoVars

-----------------------------------------------------------------------------
\* A child and its parent name each other, once, and the way up ends: no entities have all
\* their parents among them.
IsForest(S) ==
  /\ \A id \in DOMAIN S :
       /\ \A i, j \in DOMAIN S[id].children : i # j => S[id].children[i] # S[id].children[j]
       /\ \A c \in ToSet(S[id].children) : c \in DOMAIN S /\ S[c].parent = id
       /\ S[id].parent # 0 => S[id].parent \in DOMAIN S /\ id \in ToSet(S[S[id].parent].children)
  /\ \A X \in (SUBSET DOMAIN S) \ {{}} : \E x \in X : S[x].parent \notin X

\* The scene is a forest whatever is undone, redone, deleted and restored in which order.
\* (Restoring and removing subtrees write the links directly.)
Forest == DOMAIN scene \subseteq 1..minted /\ IsForest(scene)

\* What is on the stack beside the commands: the abstract stack, of which a step is an
\* undo only if the commands bring back the scene there was.
Stack == INSTANCE UndoStack WITH now <- Settled(scene), depth <- Len(undo)

\* The commands and the panels implement it: every entry, undone and redone from wherever
\* it is, leads from the one recorded scene to the other, and a save marks what it saves.
\* So undoing and redoing lead to the scenes there were, and a clean scene is the file.
IsUndoStack == Stack!StackSpec
=============================================================================
