----------------------------- MODULE SceneFrame -----------------------------
(***************************************************************************)
(* A frame of a scene (Scene/Scene.cpp, ECS/): what scripts may only queue *)
(* is done when the next frame begins, the scripts that came and went are  *)
(* told to Lua, and the world transforms are brought up to date from what  *)
(* was logged as changed.                                                  *)
(*                                                                         *)
(* An entity is known by its handle and by its UUID: a ghost that comes    *)
(* back has its UUID, and a handle of its own.  It has a local transform,  *)
(* of two values, its place in the hierarchy, its cached world transform   *)
(* (what it was computed of: the locals from the root down) and perhaps a  *)
(* script.  Transforms and relationships are logged alike and read         *)
(* together: one ChangeBuffer stands for both.  The scene has been updated *)
(* before, so every view has been read.  Bones, native scripts, audio and  *)
(* physics are left out.                                                   *)
(***************************************************************************)
EXTENDS ChangeBuffer, ScriptInstances, FiniteSets, SequencesExt

CONSTANTS
  SpawnCap,   \* CommandQueue::MaxSpawnsPerFrame: 64
  MaxMinted,  \* bound: entities ever created
  MaxChanges  \* bound: changes and commands

VARIABLES
  minted,    \* handles ever given
  uuids,     \* UUIDs ever given
  changes,   \* the ChangeBuffer
  read,      \* the cursor of TransformSystem's view
  commands,  \* CommandQueue: UUIDs to create, handles to destroy with what is under them
  at,        \* "between" frames, or after FrameBegin, LuaScriptSystem, TransformSystem
  left       \* bound: changes and commands to come

frameVars == <<live, instanceVars, minted, uuids, changes, read, commands, at, left>>

-----------------------------------------------------------------------------
(* The registry; L is what is live, 0 is no parent. *)

NewEntity(uuid, script) ==
  [uuid |-> uuid, parent |-> 0, children |-> {}, local |-> 0, world |-> <<>>, script |-> script]

\* The entity, if there is one.
FindEntityByUUID(L, uuid) == {h \in DOMAIN L : L[h].uuid = uuid}

\* An entity, its parent, and so on up.
Above(L, h) ==
  {a \in DOMAIN L :
     \A X \in SUBSET DOMAIN L :
       h \in X /\ (\A x \in X : FindEntityByUUID(L, L[x].parent) \subseteq X) => a \in X}

WorldFromLocals(L, h) ==
  [a \in Above(L, h) |-> [parent |-> L[a].parent, local |-> L[a].local]]

\* Entities and what is under them.
CollectSubtree(L, roots) ==
  {d \in DOMAIN L :
     \A X \in SUBSET DOMAIN L :
       roots \subseteq X /\ (\A x \in X : \A c \in L[x].children : FindEntityByUUID(L, c) \subseteq X)
         => d \in X}

-----------------------------------------------------------------------------
(* The operations of a scene; S is what is live, and the log. *)

Scene == [live |-> live, changes |-> changes]

\* What is live becomes L, and MarkChanged of each of the handles.
Marked(S, L, handles) ==
  [live |-> L, changes |-> [S.changes EXCEPT !.current = @ \o SetToSeq(handles)]]

\* CreateEntityWithUUID, and a script of its prefab.  Constructing counts as a change.
CreateEntities(S, created) ==
  Marked(S, [h \in DOMAIN S.live \cup DOMAIN created |->
               IF h \in DOMAIN created THEN created[h] ELSE S.live[h]],
         DOMAIN created)

\* Unparent, and under the other parent.
PutUnder(S, child, parent) ==
  LET L    == S.live
      uuid == L[child].uuid
      old  == FindEntityByUUID(L, L[child].parent)
      new  == IF parent = 0 THEN {} ELSE {parent}
  IN
  Marked(S, [h \in DOMAIN L |->
               [L[h] EXCEPT
                  !.parent   = IF h # child THEN @ ELSE IF parent = 0 THEN 0 ELSE L[parent].uuid,
                  !.children = IF h \in new THEN @ \cup {uuid}
                               ELSE IF h \in old THEN @ \ {uuid} ELSE @]],
         {child} \cup old \cup new)

\* Mutant of SetParent: an entity may come under what is under it.
SetParent_Circles(S, child, parent) == PutUnder(S, child, parent)

\* Nothing where that would make a circle.
SetParent(S, child, parent) ==
  IF parent # 0 /\ child \in Above(S.live, parent) THEN S ELSE PutUnder(S, child, parent)

\* Mutant of DestroyEntities: the children that become roots are not marked.
DestroyEntities_Silent(S, gone) ==
  LET L       == S.live
      parents == {h \in DOMAIN L \ gone : \E g \in gone : L[g].parent = L[h].uuid}
      orphans == {h \in DOMAIN L \ gone : \E g \in gone : L[h].uuid \in L[g].children}
  IN
  Marked(S, [h \in DOMAIN L \ gone |->
            [L[h] EXCEPT !.parent   = IF h \in orphans THEN 0 ELSE @,
                         !.children = IF h \in parents THEN @ \ {L[g].uuid : g \in gone} ELSE @]],
         parents)

\* DestroyEntity of each, the deepest first.  The children that stay become roots, and are
\* marked: they lost what the parent contributed.  What is marked and goes too is left out,
\* because views skip it.
DestroyEntities(S, gone) ==
  LET L       == S.live
      parents == {h \in DOMAIN L \ gone : \E g \in gone : L[g].parent = L[h].uuid}
      orphans == {h \in DOMAIN L \ gone : \E g \in gone : L[h].uuid \in L[g].children}
  IN
  Marked(S, [h \in DOMAIN L \ gone |->
            [L[h] EXCEPT !.parent   = IF h \in orphans THEN 0 ELSE @,
                         !.children = IF h \in parents THEN @ \ {L[g].uuid : g \in gone} ELSE @]],
         parents \cup orphans)

\* DestroyTree, and DestroyEntityTree, of each root.
DestroyTrees(S, roots) == DestroyEntities(S, CollectSubtree(S.live, roots))

-----------------------------------------------------------------------------
FrameInit ==
  /\ \E script \in [1..2 -> BOOLEAN] :
       LET L == [h \in 1..2 |-> IF h = 1 THEN [NewEntity(1, script[1]) EXCEPT !.children = {2}]
                                ELSE [NewEntity(2, script[2]) EXCEPT !.parent = 1]]
       IN  live = [h \in 1..2 |-> [L[h] EXCEPT !.world = WorldFromLocals(L, h)]]
  /\ InstancesInit
  /\ minted = 2 /\ uuids = 2
  /\ changes = NewBuffer /\ read = 1
  /\ commands = [create |-> <<>>, destroy |-> {}]
  /\ at = "between" /\ left = MaxChanges

(* Between frames: panels, and Net/World.cpp *)

Become(S) == live' = S.live /\ changes' = S.changes /\ Signals

Change(S) ==
  /\ left > 0 /\ left' = left - 1
  /\ Become(S)
  /\ UNCHANGED <<read, commands, at>>

\* A panel, a snapshot, the simulation before the scripts, or a script moves an entity.
Move(h) ==
  /\ at # "drawn" /\ h \in DOMAIN live
  /\ Change(Marked(Scene, [live EXCEPT ![h].local = 1 - @], {h}))
  /\ UNCHANGED <<minted, uuids>>

Reparent(child, parent) ==
  /\ at = "between" /\ child \in DOMAIN live /\ parent \in DOMAIN live \cup {0}
  /\ Change(SetParent(Scene, child, parent))
  /\ UNCHANGED <<minted, uuids>>

\* An entity goes, alone or with what is under it.
Destroy(h) ==
  /\ at = "between" /\ h \in DOMAIN live
  /\ Change(DestroyEntities(Scene, {h})) \/ Change(DestroyTrees(Scene, {h}))
  /\ UNCHANGED <<minted, uuids>>

\* SpawnGhostEntity: the UUID is the server's, new or of an entity that went.
Spawn(uuid, script) ==
  /\ at = "between" /\ minted < MaxMinted
  /\ FindEntityByUUID(live, uuid) = {} /\ uuid \notin ToSet(commands.create)
  /\ Change(CreateEntities(Scene, [h \in {minted + 1} |-> NewEntity(uuid, script)]))
  /\ minted' = minted + 1 /\ uuids' = (IF uuid > uuids THEN uuid ELSE uuids)

\* A panel adds or removes the script.
ToggleScript(h) ==
  /\ at = "between" /\ h \in DOMAIN live
  /\ Change(Marked(Scene, [live EXCEPT ![h].script = ~@], {}))
  /\ UNCHANGED <<minted, uuids>>

-----------------------------------------------------------------------------
(* The frame *)

\* CommandQueue::Flush: what is to be created, then what is to be destroyed, if it is
\* still there.
Flush(S) ==
  LET created == [h \in minted + 1..minted + Len(commands.create) |->
                    NewEntity(commands.create[h - minted], TRUE)]
      C == CreateEntities(S, created)
  IN  DestroyTrees(C, commands.destroy \cap DOMAIN C.live)

FrameBegin ==
  /\ at = "between" /\ at' = "begun"
  /\ Become(Flush([live |-> live, changes |-> NextFrame(changes)]))
  /\ minted' = minted + Len(commands.create)
  /\ commands' = [create |-> <<>>, destroy |-> {}]
  /\ UNCHANGED <<uuids, read, left>>

\* LuaScriptSystem: the scripts run once the views are drained.
UpdateScripts ==
  /\ at = "begun" /\ at' = "updating"
  /\ DrainReactiveViews
  /\ UNCHANGED <<live, minted, uuids, changes, read, commands, left>>

\* A script destroys what it has a handle of, gone or not, or spawns a prefab: the UUID is
\* new, and the script is given it at once.
Queue(queued) ==
  /\ at = "updating" /\ lua.byUUID # {}
  /\ left > 0 /\ left' = left - 1
  /\ commands' = queued
  /\ UNCHANGED <<live, instanceVars, minted, changes, read, at>>

QueueDestroy(h) ==
  /\ h \in 1..minted
  /\ Queue([commands EXCEPT !.destroy = @ \cup {h}])
  /\ UNCHANGED uuids

QueueSpawn ==
  /\ Len(commands.create) < SpawnCap /\ minted + Len(commands.create) < MaxMinted
  /\ Queue([commands EXCEPT !.create = Append(@, uuids + 1)])
  /\ uuids' = uuids + 1

\* TransformSystem::RecomputeDirty: what changed and is still there, and all that is under
\* it.  What is passed down to a child is what is above it (TreesAreSound).
RecomputeDirty ==
  LET changed == ToSet(CollectSince(changes, read)) \cap DOMAIN live
      dirty   == CollectSubtree(live, changed)
  IN
  /\ at = "updating" /\ at' = "drawn"
  /\ live' = [h \in DOMAIN live |->
                IF h \in dirty THEN [live[h] EXCEPT !.world = WorldFromLocals(live, h)] ELSE live[h]]
  /\ read' = HeadOf(changes)
  /\ UNCHANGED <<instanceVars, minted, uuids, changes, commands, left>>

FrameEnd ==
  /\ at = "drawn" /\ at' = "between"
  /\ ClearEvents
  /\ UNCHANGED <<live, minted, uuids, changes, read, commands, left>>

FrameNext ==
  \/ FrameBegin \/ UpdateScripts \/ RecomputeDirty \/ FrameEnd \/ QueueSpawn
  \/ \E h \in 1..minted :
       \/ Move(h) \/ Destroy(h) \/ ToggleScript(h) \/ QueueDestroy(h)
       \/ \E parent \in 0..minted : Reparent(h, parent)
  \/ \E uuid \in 1..uuids + 1, script \in BOOLEAN : Spawn(uuid, script)

FrameSpec == FrameInit /\ [][FrameNext]_frameVars

-----------------------------------------------------------------------------
\* A parent is there and lists the entity.
Linked(L) ==
  /\ \A g, h \in DOMAIN L : L[g].uuid = L[h].uuid => g = h
  /\ \A h \in DOMAIN L :
       L[h].parent # 0 =>
         \E p \in DOMAIN L : L[p].uuid = L[h].parent /\ L[h].uuid \in L[p].children

\* A child that is listed is there and names its parent.
Listed(L) ==
  \A p \in DOMAIN L : \A c \in L[p].children :
    \E h \in DOMAIN L : L[h].uuid = c /\ L[h].parent = L[p].uuid

\* The way up ends: no entities have all their parents among them.
Rooted(L) ==
  \A X \in SUBSET DOMAIN L :
    X # {} => \E x \in X : FindEntityByUUID(L, L[x].parent) \cap X = {}

\* Parents and children agree and the way up ends, whoever reparents, orphans, destroys or
\* spawns with the UUID of an entity that went: so every walk up or down a tree comes to its
\* end, and from whichever end it starts it meets the same entities.
TreesAreSound == Linked(live) /\ Listed(live) /\ Rooted(live)

\* What is drawn is where it is: after the transform pass every cached world transform is
\* the composition of the locals above it, whoever moved, orphaned, destroyed or spawned
\* something since the last one, and no change fell out of the log unread.
WorldIsCurrent ==
  /\ read >= changes.prevStart
  /\ at = "drawn" => \A h \in DOMAIN live : live[h].world = WorldFromLocals(live, h)

\* Once the views are drained Lua has the instances of the scripts there are, whoever
\* creates, destroys, toggles and spawns, directly or through the command queue, between
\* frames or within them.
InstancesAreScripts == at \in {"updating", "drawn"} => OneEach
=============================================================================
