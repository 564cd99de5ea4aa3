-------------------------- MODULE ScriptInstances --------------------------
(***************************************************************************)
(* The instances Lua has of a scene's scripts (Scripting/ScriptEngine.cpp, *)
(* Scene/Systems/LuaScriptSystem.cpp), and the events it learns of them    *)
(* by (Scene/Scene.cpp).  How entities come and go is SceneFrame's.        *)
(***************************************************************************)
EXTENDS Integers, Functions

VARIABLES
  live,    \* the registry: entities by handle, each with its UUID and perhaps a script
  init,    \* handles that were given a script since FrameEnd
  fini,    \* handles that lost theirs since, with the UUID they had
  lua,     \* ScriptEngine's SceneInstances: ByUUID and EntityToUUID
  reborn   \* history: scripted, and since the last drain also rid of a script

instanceVars == <<init, fini, lua, reborn>>

WithScript == {h \in DOMAIN live : live[h].script}
Scripted   == {live[h].uuid : h \in WithScript}

\* Every script that is there when the scene starts is instantiated.
InstancesInit ==
  /\ init = {} /\ fini = {} /\ reborn = {}
  /\ lua = [byUUID |-> Scripted, names |-> [h \in WithScript |-> live[h].uuid]]

\* Mutant of Signals: a destroyed entity does not say that its script went.
Signals_OfSurvivors ==
  /\ init' = init \cup (WithScript' \ WithScript)
  /\ fini' = fini \cup {[handle |-> h, uuid |-> live[h].uuid] :
                          h \in (WithScript \cap DOMAIN live') \ WithScript'}
  /\ UNCHANGED <<lua, reborn>>

\* OnInitConstruct and OnFiniDestroy, which the registry calls for every script that is
\* given and for every one that goes, with its entity or without.
Signals ==
  /\ init' = init \cup (WithScript' \ WithScript)
  /\ fini' = fini \cup {[handle |-> h, uuid |-> live[h].uuid] : h \in WithScript \ WithScript'}
  /\ UNCHANGED <<lua, reborn>>

\* DrainReactiveViews.  Instantiate goes by the UUID, and an instance that is there stays;
\* DestroyInstance goes by the handle, after it.
DrainReactiveViews ==
  LET made  == {h \in init \cap WithScript : live[h].uuid \notin lua.byUUID}
      names == [h \in DOMAIN lua.names \cup made |->
                  IF h \in made THEN live[h].uuid ELSE lua.names[h]]
      gone  == {f.handle : f \in fini} \cap DOMAIN names
  IN
  /\ lua' = [byUUID |-> (lua.byUUID \cup {names[h] : h \in made}) \ {names[h] : h \in gone},
             names  |-> Restrict(names, DOMAIN names \ gone)]
  /\ reborn' = Scripted \cap (reborn \cup {f.uuid : f \in fini})
  /\ UNCHANGED <<init, fini>>

\* FrameEnd: what happened in the frame has been told.
ClearEvents == init' = {} /\ fini' = {} /\ UNCHANGED <<lua, reborn>>

\* Lua has one instance for every script and no other, and finds it by the handle the
\* entity has now; but a script that went and came back within one frame may have lost
\* its instance.
OneEach ==
  /\ lua.byUUID \subseteq Scripted /\ Scripted \ reborn \subseteq lua.byUUID
  /\ \A h \in DOMAIN lua.names : h \in WithScript /\ lua.names[h] = live[h].uuid
  /\ \A uuid \in lua.byUUID : \E h \in DOMAIN lua.names : lua.names[h] = uuid
=============================================================================
