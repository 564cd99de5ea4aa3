------------------------------- MODULE Assets -------------------------------
(***************************************************************************)
(* The asset layer: the managers (Assets/AssetManagerRegistry.h) with      *)
(* their parses on workers, the compiled cache those go through            *)
(* (Assets/CompiledCache.cpp), references (Assets/AssetRef.h) that ask     *)
(* every frame, and the watcher (Assets/AssetWatcher.cpp) that turns an    *)
(* edited file into an eviction.                                           *)
(*                                                                         *)
(* The main thread takes turns: the watcher's poll, the texture manager's  *)
(* update, the material manager's, then everybody asks.  Workers, and      *)
(* whoever edits the files, run at any moment between.  A texture is       *)
(* compiled and cached on disk, a material is read as it is; a material    *)
(* stands for everything that captures a texture.  One reference stands    *)
(* for all that hold the same asset.                                       *)
(***************************************************************************)
EXTENDS Naturals, FiniteSets

CONSTANTS
  Texture, Material,  \* handles
  Map,                \* the texture a material captures
  Content,            \* what a source that can be parsed may hold
  ParseCap,           \* kMaxParsesInFlight: 8
  HandoffFrames,      \* kHandoffFrames: 4
  ReloadCap,          \* kMaxReloadsPerPoll: 16
  MaxActs             \* bound: edits, reloads, drops, waits, failures and crashes

Handle == Texture \cup Material

ASSUME AssetsAssumption ==
  /\ Texture \cap Material = {} /\ Map \in [Material -> Texture]
  /\ Content \cap {"bad", "none"} = {}
  /\ {ParseCap, HandoffFrames, ReloadCap} \subseteq Nat \ {0} /\ MaxActs \in Nat

VARIABLES
  file,     \* on disk: a stamp, and what is read, "bad" if half written or gone
  disk,     \* a texture's compiled output, the file that is renamed to it, and the
            \* source stamp and hash of its record
  watch,    \* Entries: the stamp known, and the one that settles
  manager,  \* what Load, Finish and Evict work on
  frame,    \* where the main thread is, who has asked, was anything applied
  acts,     \* bound: what is still to happen
  missed,   \* history: loaded from other bytes than the watcher's first look saw
  torn      \* history: two parses met in the compiled output's files, or its record was
            \* not written or is of other bytes

vars == <<file, disk, watch, manager, frame, acts, missed, torn>>

NoMap    == [content |-> "none", live |-> FALSE]
NoObject == [content |-> "none", map |-> NoMap]
NoOutput == [out |-> "none", temp |-> "none", stamp |-> 0, source |-> "none"]

\* A parse; out is what it read of the source, and then what it made.  It is cancelled
\* once it is not pending: it drains.
NewJob(h) ==
  [handle |-> h, at |-> "queued", stamp |-> 0, source |-> "none", out |-> "none", pending |-> TRUE]

\* m_Cache (what is alive of it), m_Failed, m_Handoff, m_Pending with m_Draining, and
\* the references: "unset", "none", "live" (the cached object) or "old" (an evicted
\* one; "keeps" if it captured a texture that is cached).
NewManager ==
  [cached  |-> [h \in Handle |-> NoObject],
   failed  |-> {},
   handoff |-> [h \in Handle |-> 0],
   jobs    |-> {},
   ref     |-> [h \in Handle |-> "none"]]

NewFrame == [at |-> "poll", asked |-> {}, applied |-> FALSE, waits |-> {}]

Init ==
  /\ file \in [Handle -> {[stamp |-> 1, content |-> c] : c \in Content}]
  /\ disk = [t \in Texture |-> NoOutput]
  /\ watch = [h \in Handle |-> [known |-> 0, candidate |-> 0]]
  /\ manager = NewManager /\ frame = NewFrame
  /\ acts = MaxActs /\ missed = {} /\ torn = {}

-----------------------------------------------------------------------------
(* The managers *)

Resident(S, h) == S.cached[h].content # "none"
Pending(S)     == {j \in S.jobs : j.pending}
IsPending(S, h) == \E j \in Pending(S) : j.handle = h

\* What nobody holds is gone from the weak cache.
Collected(S) ==
  LET holds(h)   == S.ref[h] = "live" \/ S.handoff[h] > 0
      captures(t) == \E m \in Material :
        /\ Map[m] = t
        /\ S.ref[m] = "keeps" \/ (holds(m) /\ S.cached[m].map.live)
  IN  [S EXCEPT !.cached = [h \in Handle |->
         IF holds(h) \/ (h \in Texture /\ captures(h)) THEN @[h] ELSE NoObject]]

Load(S, h, mayDefer) ==
  IF \/ Resident(S, h) \/ h \in S.failed \/ IsPending(S, h)
     \/ mayDefer /\ Cardinality(Pending(S)) >= ParseCap
  THEN S
  ELSE [S EXCEPT !.jobs = @ \cup {NewJob(h)}]

\* A material that has no map asks for it, as it is built and whenever it is bound.
Captured(S, m) ==
  IF S.cached[m].map.content # "none"
  THEN S
  ELSE LET L == Load(S, Map[m], TRUE)
           t == L.cached[Map[m]].content
       IN  [L EXCEPT !.cached[m].map = [content |-> t, live |-> t # "none"]]

Finish(S, j) ==
  LET h == j.handle
      D == [S EXCEPT !.jobs = @ \ {j}]
      A == [D EXCEPT !.cached[h] = [content |-> j.out, map |-> NoMap],
                     !.handoff[h] = HandoffFrames]
  IN  IF j.out = "bad"
      THEN [D EXCEPT !.failed = @ \cup {h}]
      ELSE IF h \in Texture THEN A ELSE Captured(A, h)

\* Every reference asks again after an eviction; parses are set aside to drain.
Evict(S, H) ==
  LET gone(m) == Map[m] \in H
      old(h)  == IF h \in Material /\ S.cached[h].map.live THEN "keeps" ELSE "old"
      kept(h, r) == IF r = "keeps" /\ gone(h) THEN "old" ELSE r
      parted(m) == [S.cached[m] EXCEPT !.map.live = @ /\ ~gone(m)]
  IN  [S EXCEPT
        !.cached  = [h \in Handle |->
                       IF h \in H THEN NoObject
                       ELSE IF h \in Material THEN parted(h) ELSE @[h]],
        !.failed  = @ \ H,
        !.handoff = [h \in Handle |-> IF h \in H THEN 0 ELSE @[h]],
        !.jobs    = {[j EXCEPT !.pending = @ /\ j.handle \notin H] : j \in @},
        !.ref     = [h \in Handle |-> kept(h, IF h \in H /\ @[h] = "live" THEN old(h) ELSE @[h])]]

-----------------------------------------------------------------------------
(* The main thread *)

\* TypedAssetManager::Update for the handles of one manager: what is ready is applied
\* while the budget lasts, the first of a frame whatever it costs; then the hand-off
\* ages and drained parses are let go.
Update(at, H, next) ==
  LET done  == {j \in manager.jobs : j.handle \in H /\ j.at = "done"}
      ready == {j \in done : j.pending}
  IN
  /\ frame.at = at
  /\ \/ \E j \in ready :
          /\ manager' = Finish(manager, j)
          /\ frame' = [frame EXCEPT !.applied = TRUE]
     \/ /\ ready = {} \/ frame.applied
        /\ manager' = Collected([manager EXCEPT
             !.jobs = @ \ (done \ ready),
             !.handoff = [h \in Handle |-> IF h \in H /\ @[h] > 0 THEN @[h] - 1 ELSE @[h]]])
        /\ frame' = [frame EXCEPT !.at = next]
  /\ UNCHANGED <<file, disk, watch, acts, missed, torn>>

UpdateTextures  == Update("textures", Texture, "materials")
UpdateMaterials == Update("materials", Material, "frame")

\* Loaded before the watcher's first look, from something else than it now sees.
Missed(h) ==
  \/ h \in manager.failed /\ file[h].content # "bad"
  \/ Resident(manager, h) /\ manager.cached[h].content # file[h].content
  \/ \E j \in Pending(manager) :
       j.handle = h /\ j.at # "queued" /\ j.stamp # file[h].stamp
  \/ \E m \in Material :
       Map[m] = h /\ manager.cached[m].map.content \notin {"none", file[h].content}

\* A reload evicts what captured the texture, too.
WithDependents(H) ==
  H \cup {m \in Material : Resident(manager, m) /\ Map[m] \in H}

\* Mutant of PollFiles: the materials that captured a texture are left alone.
PollFiles_Alone ==
  LET unknown == {h \in Handle : watch[h].known = 0}
      moved   == {h \in Handle \ unknown : watch[h].known # file[h].stamp}
      settled == {h \in moved : watch[h].candidate = file[h].stamp}
  IN
  /\ \E reload \in SUBSET settled :
       /\ Cardinality(reload) = IF Cardinality(settled) < ReloadCap
                                THEN Cardinality(settled) ELSE ReloadCap
       /\ watch' = [h \in Handle |->
            CASE h \in moved \ reload -> [watch[h] EXCEPT !.candidate = file[h].stamp]
              [] OTHER -> [known |-> file[h].stamp, candidate |-> 0]]
       /\ manager' = Collected(Evict(manager, reload))
  /\ missed' = missed \cup {h \in unknown : Missed(h)}

\* AssetWatcher::Poll.  A change counts once a second look finds it unchanged; the
\* new stamp is accepted, then the asset evicted.  What a first look finds is taken
\* as what was loaded.
PollFiles ==
  LET unknown == {h \in Handle : watch[h].known = 0}
      moved   == {h \in Handle \ unknown : watch[h].known # file[h].stamp}
      settled == {h \in moved : watch[h].candidate = file[h].stamp}
  IN
  /\ \E reload \in SUBSET settled :
       /\ Cardinality(reload) = IF Cardinality(settled) < ReloadCap
                                THEN Cardinality(settled) ELSE ReloadCap
       /\ watch' = [h \in Handle |->
            CASE h \in moved \ reload -> [watch[h] EXCEPT !.candidate = file[h].stamp]
              [] OTHER -> [known |-> file[h].stamp, candidate |-> 0]]
       /\ manager' = Collected(Evict(manager, WithDependents(reload)))
  /\ missed' = missed \cup {h \in unknown : Missed(h)}

Poll ==
  /\ frame.at = "poll" /\ frame' = [frame EXCEPT !.at = "textures"]
  /\ PollFiles
  /\ UNCHANGED <<file, disk, acts, torn>>

\* The quarter of a second is not over.
PollLater ==
  /\ frame.at = "poll" /\ frame' = [frame EXCEPT !.at = "textures"]
  /\ UNCHANGED <<file, disk, watch, manager, acts, missed, torn>>

\* AssetRef::Get, once a frame; a material that is there is bound.
Ask(h) ==
  LET L == Load(manager, h, TRUE)
      R == [L EXCEPT !.ref[h] = IF Resident(L, h) THEN "live" ELSE "none"]
  IN
  /\ frame.at = "frame" /\ h \notin frame.asked /\ manager.ref[h] # "unset"
  /\ manager' = Collected(IF h \in Material /\ Resident(R, h) THEN Captured(R, h) ELSE R)
  /\ frame' = [frame EXCEPT !.asked = @ \cup {h}]
  /\ UNCHANGED <<file, disk, watch, acts, missed, torn>>

EndFrame ==
  /\ frame.at = "frame"
  /\ \A h \in Handle : manager.ref[h] = "unset" \/ h \in frame.asked
  /\ frame' = NewFrame
  /\ UNCHANGED <<file, disk, watch, manager, acts, missed, torn>>

\* WaitFor may exceed the cap; the main thread goes on when the parse is done.
WaitFor(h) ==
  /\ frame.at = "frame" /\ acts > 0 /\ acts' = acts - 1
  /\ manager' = Load(manager, h, FALSE)
  /\ frame' = IF IsPending(manager', h) THEN [frame EXCEPT !.at = "wait", !.waits = {h}] ELSE frame
  /\ UNCHANGED <<file, disk, watch, missed, torn>>

WaitOver ==
  /\ frame.at = "wait"
  /\ \E j \in Pending(manager) :
       /\ j.handle \in frame.waits /\ j.at = "done"
       /\ manager' = Collected(Finish(manager, j))
  /\ frame' = [frame EXCEPT !.at = "frame", !.waits = {}]
  /\ UNCHANGED <<file, disk, watch, acts, missed, torn>>

\* A component is destroyed, or another takes up the asset.
Drop(h) ==
  /\ frame.at = "frame" /\ acts > 0 /\ acts' = acts - 1
  /\ manager' = Collected([manager EXCEPT
       !.ref[h] = IF @ = "unset" THEN "none" ELSE "unset"])
  /\ UNCHANGED <<file, disk, watch, frame, missed, torn>>

\* AssetManager::Reload, from the editor: a texture's compiled output and its record go,
\* or a material's map is evicted, and only then the asset itself.
Reload(h) ==
  LET map == {Map[m] : m \in {m \in {h} \cap Material : Resident(manager, m)}} IN
  /\ frame.at = "frame" /\ acts > 0 /\ acts' = acts - 1
  /\ manager' = Collected(Evict(manager, map))
  /\ disk' = [t \in Texture |-> IF t = h THEN [NoOutput EXCEPT !.temp = disk[t].temp] ELSE disk[t]]
  /\ frame' = [frame EXCEPT !.at = "reload", !.waits = {h}]
  /\ UNCHANGED <<file, watch, missed, torn>>

ReloadOver ==
  /\ frame.at = "reload"
  /\ \E h \in Handle : frame.waits = {h} /\ manager' = Collected(Evict(manager, {h}))
  /\ frame' = [frame EXCEPT !.at = "frame", !.waits = {}]
  /\ UNCHANGED <<file, disk, watch, acts, missed, torn>>

-----------------------------------------------------------------------------
(* Workers *)

\* Between two accesses to the compiled output's files: it has read the record and will
\* read the output, or wrote the output and will rename it, or its record is due.
Inside(j) == j.at \in {"serve", "rename", "record"}

\* A parse reaches for those files while another one is between two accesses to them.
Meets(j) ==
  /\ j.at \in {"look", "write"} \/ Inside(j)
  /\ \E k \in manager.jobs \ {j} : k.handle = j.handle /\ Inside(k)

Moves(j, k, tears) ==
  /\ manager' = [manager EXCEPT !.jobs = (@ \ {j}) \cup {k}]
  /\ torn' = IF Meets(j) \/ tears THEN torn \cup {j.handle} ELSE torn
  /\ UNCHANGED <<file, watch, frame, missed>>

\* Mutant of Begin: begun only once cancelled.
Begin_Inverted(j) ==
  /\ j.at = "queued"
  /\ LET stamped == [j EXCEPT !.stamp = file[j.handle].stamp] IN
     Moves(j, CASE j.pending -> [j EXCEPT !.at = "done", !.out = "bad"]
                [] ~j.pending /\ j.handle \in Material ->
                     [stamped EXCEPT !.at = "done", !.out = file[j.handle].content]
                [] OTHER -> [stamped EXCEPT !.at = "look"], FALSE)
  /\ UNCHANGED <<disk, acts>>

\* ExecuteRange: not begun once cancelled.  A material is read; CompiledCache::Open
\* looks at the source's stamp before anything else.
Begin(j) ==
  /\ j.at = "queued"
  /\ LET stamped == [j EXCEPT !.stamp = file[j.handle].stamp] IN
     Moves(j, CASE ~j.pending -> [j EXCEPT !.at = "done", !.out = "bad"]
                [] j.pending /\ j.handle \in Material ->
                     [stamped EXCEPT !.at = "done", !.out = file[j.handle].content]
                [] OTHER -> [stamped EXCEPT !.at = "look"], FALSE)
  /\ UNCHANGED <<disk, acts>>

\* The record of the output answers whether it is stale: by its stamp, else by the
\* hash of the source, which is read only then.
Look(j) ==
  LET d == disk[j.handle]
      c == file[j.handle].content
      cached == d.out # "none" /\ d.stamp # 0
  IN
  /\ j.at = "look"
  /\ Moves(j, CASE cached /\ d.stamp = j.stamp -> [j EXCEPT !.at = "serve", !.source = d.source]
                [] cached /\ d.stamp # j.stamp /\ d.source = c ->
                     [j EXCEPT !.at = "serve", !.source = c, !.out = c]
                [] OTHER -> [j EXCEPT !.at = "compile", !.source = c, !.out = c], FALSE)
  /\ UNCHANGED <<disk, acts>>

\* The output is read, and the record gets the new stamp.  If it is gone there is a
\* compile after all: of a source that may be read only now, under the hash of the record.
Serve(j) ==
  LET out   == disk[j.handle].out
      c     == file[j.handle].content
      moved == j.out # "none"
  IN
  /\ j.at = "serve"
  /\ \/ out # "none" /\ moved  /\ Moves(j, [j EXCEPT !.at = "record", !.out = out], FALSE)
     \/ out # "none" /\ ~moved /\ Moves(j, [j EXCEPT !.at = "done", !.out = out], FALSE)
     \/ out = "none" /\ moved  /\ Moves(j, [j EXCEPT !.at = "compile"], FALSE)
     \/ out = "none" /\ ~moved /\ Moves(j, [j EXCEPT !.at = "compile", !.out = c], c # j.source)
  /\ UNCHANGED <<disk, acts>>

\* A compile that is cancelled, or of a broken source, fails.
Compile(j) ==
  /\ j.at = "compile"
  /\ Moves(j, IF j.pending /\ j.out # "bad"
              THEN [j EXCEPT !.at = "write"]
              ELSE [j EXCEPT !.at = "done", !.out = "bad"], FALSE)
  /\ UNCHANGED <<disk, acts>>

\* The output is written beside its place, to a file that all parses of the asset share.
Write(j) ==
  /\ j.at = "write"
  /\ disk' = [disk EXCEPT ![j.handle].temp = j.out]
  /\ Moves(j, [j EXCEPT !.at = "rename"], FALSE)
  /\ UNCHANGED acts

\* It is renamed into its place, unless another parse has done so.
Rename(j) ==
  LET d == disk[j.handle] IN
  /\ j.at = "rename"
  /\ \/ /\ d.temp # "none"
        /\ disk' = [disk EXCEPT ![j.handle].out = d.temp, ![j.handle].temp = "none"]
        /\ Moves(j, [j EXCEPT !.at = "record"], FALSE)
     \/ /\ d.temp = "none" /\ UNCHANGED disk
        /\ Moves(j, [j EXCEPT !.at = "done"], FALSE)
  /\ UNCHANGED acts

\* Then its record is written.
Record(j) ==
  /\ j.at = "record"
  /\ disk' = [disk EXCEPT ![j.handle].stamp = j.stamp, ![j.handle].source = j.source]
  /\ Moves(j, [j EXCEPT !.at = "done"], FALSE)
  /\ UNCHANGED acts

\* Persisting is best-effort: the output or the record cannot be written, or not to its
\* end, or the output cannot be renamed.  What was made is there all the same.
NotPersisted(j) ==
  /\ acts > 0 /\ acts' = acts - 1
  /\ \/ /\ j.at = "write" /\ disk' \in {disk, [disk EXCEPT ![j.handle].temp = "bad"]}
        /\ Moves(j, [j EXCEPT !.at = "done"], FALSE)
     \/ /\ j.at = "rename" /\ disk' = [disk EXCEPT ![j.handle].temp = "none"]
        /\ Moves(j, [j EXCEPT !.at = "done"], FALSE)
     \/ /\ j.at = "record" /\ UNCHANGED disk
        /\ Moves(j, [j EXCEPT !.at = "done"], TRUE)
     \/ /\ j.at = "record" /\ disk' = [disk EXCEPT ![j.handle].stamp = 0]
        /\ Moves(j, [j EXCEPT !.at = "done"], FALSE)

Work(h) ==
  \E j \in manager.jobs :
    /\ j.handle = h
    /\ Begin(j) \/ Look(j) \/ Serve(j) \/ Compile(j) \/ Write(j) \/ Rename(j) \/ Record(j)

-----------------------------------------------------------------------------
(* The world *)

\* A file is edited, half written or deleted: its stamp is a new one.
Edit(h, content) ==
  /\ acts > 0 /\ acts' = acts - 1
  /\ file' = [file EXCEPT ![h] = [stamp |-> @.stamp + 1, content |-> content]]
  /\ UNCHANGED <<disk, watch, manager, frame, missed, torn>>

\* The process dies and is started again; the disk stays.
Crash ==
  /\ acts > 0 /\ acts' = acts - 1
  /\ manager' = NewManager /\ frame' = NewFrame
  /\ watch' = [h \in Handle |-> [known |-> 0, candidate |-> 0]]
  /\ missed' = {}
  /\ torn' = torn \cup {j.handle : j \in {j \in manager.jobs : j.at = "record"}}
  /\ UNCHANGED <<file, disk>>

Main ==
  UpdateTextures \/ UpdateMaterials \/ Poll \/ PollLater \/ EndFrame \/ WaitOver \/ ReloadOver

Next ==
  \/ Main
  \/ \E h \in Handle : Ask(h) \/ Work(h) \/ WaitFor(h) \/ Drop(h) \/ Reload(h)
  \/ \E j \in manager.jobs : NotPersisted(j)
  \/ \E h \in Handle, c \in Content \cup {"bad"} : Edit(h, c)
  \/ Crash

\* The main thread goes on, its polls come due, and the workers work.
Fairness ==
  /\ WF_vars(Main) /\ SF_vars(Poll)
  /\ \A h \in Handle : WF_vars(Ask(h)) /\ WF_vars(Work(h))

Spec == Init /\ [][Next]_vars /\ Fairness

-----------------------------------------------------------------------------
\* The file is what `content` was made of, or the watcher has still to act on it; but
\* for a file that changed between its load and the watcher's first look, and for an
\* output that may not be of the bytes its record says (torn).
Accounted(h, content) ==
  \/ content = file[h].content
  \/ watch[h].known # file[h].stamp
  \/ h \in missed \cup torn

\* Nothing that was made of bytes a file no longer has stays unnoticed: not an asset,
\* not a texture a material captured, not a failure, not a parse still to be applied.
StaleIsNoticed ==
  /\ \A h \in Handle : Resident(manager, h) => Accounted(h, manager.cached[h].content)
  /\ \A m \in Material :
       manager.cached[m].map.content # "none" => Accounted(Map[m], manager.cached[m].map.content)
  /\ \A h \in manager.failed : Accounted(h, "bad")
  /\ \A j \in Pending(manager) : j.at = "done" => Accounted(j.handle, j.out)

\* A reference shows its file: the asset with the texture it captures, or nothing.
Shown(h) ==
  IF file[h].content = "bad"
  THEN manager.ref[h] = "none"
  ELSE /\ manager.ref[h] = "live" /\ manager.cached[h].content = file[h].content
       /\ h \in Material =>
            manager.cached[h].map.content =
              IF file[Map[h]].content = "bad" THEN "none" ELSE file[Map[h]].content

\* Once the edits end, every reference comes to show its file and goes on showing it.
Lands ==
  \A h \in Handle : <>[](\/ manager.ref[h] = "unset"
                         \/ Shown(h)
                         \/ ({h} \cup {Map[m] : m \in {h} \cap Material})
                              \cap (missed \cup torn) # {})
=============================================================================
