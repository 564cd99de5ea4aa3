# GanymedEngine: TLA+ models, model checks and proofs

GanymedEngine is a C++ game engine with an editor, a game runtime and a dedicated
server. Its protocols are in the networking and online layers: a session and a reliable
channel over UDP, snapshots sent as differences, prediction that replays commands, a fleet
server that admits players with signed tokens on one thread while another runs the match, a
client session whose tokens expire under its requests. The rest is stateful in three places
that tests hardly reach: assets that are parsed on workers while their files change, an
editor whose undo stack decides what is in the scene and whether it is saved, and the frame
of a scene, where caches and scripts follow what was logged as changed. This directory
models those parts in TLA+, checks the models with TLC on small instances, and proves the
safety properties that matter most with TLAPS.

Paths below are relative to `src/`. `Net/`, `Online/`, `Core/`, `Assets/`, `ECS/`, `Scene/`
stand for the directories under `GanymedEngine/source/GanymedE/`, `Editor/` for
`GanymedEditor/source/` and `Runtime/` for `GanymedRuntime/source/`.

- [1. Inventory](#1-inventory)
- [2. Modules and how they follow the code](#2-modules-and-how-they-follow-the-code)
- [3. What the runs check](#3-what-the-runs-check)
- [4. What is proved](#4-what-is-proved)
- [5. Where the code and its words disagree](#5-where-the-code-and-its-words-disagree)
- [6. Limits and what is not modelled](#6-limits-and-what-is-not-modelled)
- [7. Plan](#7-plan)

## 1. Inventory

### Parts that carry the system's own logic

| Part | State it keeps | Operations | Talks to | Module |
|---|---|---|---|---|
| **Connection** (`Net/Connection.cpp`) | sequence counters, 32-bit field of received packets, the last 128 packets sent, queue of unacknowledged reliable messages, expected id, held messages | `Enqueue`, `Build`, `BuildSnapshot`, `Receive`, `IsAcked`, `TimedOut` | called by Host for every datagram; World asks `IsAcked` through `Net::SnapshotAcked` | `Connection` |
| **Session host** (`Net/Host.cpp`) | a peer per account (address, session, `Connection`), admitted accounts; the client's phase, session and attempts | HELLO, `Request`, `Accept`, `HandleServerPacket`, `TickServer`, `PumpClient...`, timeouts | door thread on the server, main thread on the client; queues packets and messages for World | `Session` |
| **Replication** (`Net/World.cpp`) | server: a ring of 32 snapshots per client, the ids a client may have. Client: 64 states, latest tick, scene | `CaptureWorld`, `ApplyPacket` | the scene on both sides; acknowledgements from Connection | `Replication` |
| **Commands and prediction** (`Net/World.cpp`) | server: the commands by tick, the last one, how many are missing. Client: ghost samples, `SimTick`, a ring of 64 predictions | `IngestCommands`, `TakeCommand`, `SendRecent`, `PredictLocal`, `Reconcile` | physics and script of the pawn on both sides | `Prediction` |
| **Server lifecycle** (`Online/ServerLifecycle.cpp`, `GanymedDedicated/source/DedicatedLayer.cpp`) | phase of admission, nonces seen, admitted accounts, stop flag, two threads | `WaitForAllocation`, `HealthLoop`, `DoorLoop`, `Answer`, `ReportResult`, `Finish`, `GiveUp`, `TearDown` | the local agent over HTTP; players' HELLOs; `Net::NoteAdmitted`, `Net::CloseServer` | `ServerLifecycle` |
| **Online session** (`Online/OnlineSession.cpp`) | tokens and their generation, requests in flight and waiting, joins, push socket | send, sign in, refresh, retry once, `JoinMatch`, cancel | backend through the transport; completions on the main thread | `Online` |
| **Runtime match** (`Runtime/RuntimeMatch.cpp`) | Queue, Wait, Join, Play, Result, Done, with timers | queue for a match, poll the ticket, join, read the result | Online session, Net | `RuntimeMatch` |
| **Asset managers, compiled cache and watcher** (`Assets/`) | weak cache, parses in flight, hand-off list, compiled outputs with their records, file stamps | `Load`, `Update`, `WaitFor`, `Evict`, `Reload`, `Poll`, `CompiledCache::Open` | workers; references that ask every frame | `Assets` |
| **Editor undo** (`Editor/EditorUndo.cpp`, `Editor/Panels/SceneHierarchyPanel.cpp`) | two stacks of commands, the saved depth, the edit of a held widget | `Push`, `Undo`, `Redo`, save, open, gestures, outliner operations | the hierarchy of `Scene/Scene.cpp` | `EditorUndo` |
| **Job system** (`Core/JobSystem.cpp`) | scheduler, main-thread queue, job states, the current job of each thread | submit, wait, cancel, `ParallelFor`, pump, shut down | asset managers, renderer, editor | in `Assets`, as those use it |
| **Frame of a scene** (`Scene/Scene.cpp`, `ECS/`, `Scene/Systems/`) | queued creates and destroys, change buffers with a cursor per view, events of the frame, cached world transforms, Lua's instances | `FrameBegin`, `Flush`, the drains and the transform pass, `FrameEnd` | panels and snapshots between frames; scripts queue, the scene flushes | `SceneFrame`, `ChangeViews` |

Everything else (renderer, audio, physics, most scripting bindings, user interface, platform
back ends, serialisation, reflection) either has no protocol or computes what a model checker
cannot judge. `PROJECT.json` lists each with the reason, and the hazards at their lines.

### Interactions that are hard

- **Unreliable delivery.** Every datagram may be lost, repeated, overtaken. The handshake,
  the reliable channel, the snapshots' baselines and the commands must each survive it on
  their own: nothing below them repeats anything.
- **Numbers that wrap.** Sequences and message ids have 16 bits and skip 0. Anything
  remembered about a number must be forgotten before the number comes again.
- **Two threads on one host.** On a server the door thread reads the port and takes
  acknowledgements while the main thread builds a snapshot.
- **Three threads to one end.** A fleet server's main, health and door threads all read the
  same state; any of them may be the reason to stop, and the state may be deleted only when
  two are gone.
- **Callbacks inside calls.** A completion may send, cancel or destroy before its caller
  goes on; a refresh that fails completes every request that waits for it.
- **Time.** A token is checked against one reading of the clock and its nonce is forgotten
  against another; a session ends after five silent seconds, while a packet of it may still
  be on its way; a client simulates ahead of the server and is corrected for the past.
- **Files that change under a parse**, and workers, evictions, failing writes and a dying
  process between the accesses to a compiled output, its temporary file and its record.
- **Shortcuts in the middle of a gesture**, and snapshots of subtrees that are put back
  after other entries were undone.
- **Who changed what, and who has seen it.** Panels, snapshots, scripts and the queue change
  a scene in different parts of a frame; each view reads at its own moment, and what a drain
  misses is gone when the frame ends.
- **Limits.** Ring, kept states, remembered packets, held messages, input buffer, prediction
  slots, parse cap and undo depth are all small; each has a moment where it is full.

### What makes each part correct

- Connection: messages are handed up in order, once, none lost; an acknowledgement is true.
- Host: one connection per admitted account, at its last address; a session never changes
  accounts; both ends agree that it exists or time it out.
- Replication: both sides compute the same state for a sequence; the scene is the server's
  world of one past tick; a baseline the server names is one the client still has; what is
  gone stays gone and is told until the client knows.
- Prediction: once the two agree, they go on agreeing as long as the server has the
  commands; a command that came in time is used; a lost player's pawn stops.
- Lifecycle: a token admits once, nobody enters a match that is over, a result is of a match
  that was played, exactly one `/shutdown`, threads joined before the port closes, and it
  does end.
- Online session and match: one sign-in or refresh at a time, no refresh token twice, no
  retry with a refused token, every request and join ends, and no callback reaches a match
  that is gone.
- Assets: nothing made of bytes a file no longer has goes unnoticed, and every reference
  comes to show its file.
- Undo: the hierarchy stays a forest, every depth gives back its scene, and a scene shown as
  saved is the file.
- Frame: no reader loses a change, what is drawn is where it is, and Lua has an instance for
  every script and no other.

## 2. Modules and how they follow the code

```
SerialNumbers <- Connection <- MCConnection
                   |  ^---- ConnectionProofs
                   v
                 Fifo (abstract channel, INSTANCE WITH)

Session <- MCSession            ServerLifecycle <- MCServerLifecycle
   ^---- SessionProofs                ^---- MatchProofs

RuntimeMatch <- Online <- MCOnline
                  ^---- OnlineProofs

Replication <- MCReplication
      ^  ^---- MCWorld -> Prediction
ReplicationProofs            ^---- PredictionProofs

Assets <------ MCEditor ----> EditorUndo ----> UndoStack
   ^---- AssetsProofs            ^---- UndoProofs   (abstract stack, INSTANCE WITH)

ScriptInstances <- SceneFrame <---- MCMatch -> MCServerLifecycle
                   |     ^             |
                   v     |             v
         ChangeBuffer    |        ChangeViews -> ChangeBuffer
                     MatchProofs ------^
```

An arrow points at what is extended or instantiated. Three MC modules pool parts that share no
state (`MCWorld`, `MCEditor`, `MCMatch`): a variable `part`, chosen at the start, says which
of them a behaviour moves, and the state space is the sum of theirs, not the product. Where two
modules do share behaviour they are composed action by action: `Online` sends the requests of
`RuntimeMatch` and runs its callbacks inside its own steps.

### SerialNumbers

The 16-bit numbers of `Connection.h`. The model counts with plain numbers, which never
wrap; only `Wire(n)` goes on the network, and a receiver computes with
`SeqDiff(Wire(a), Wire(b))`, the signed 16-bit difference of `Connection.cpp:62`. The space
is `2 * Half`, a CONSTANT (32768 in the code). 0 stands for "none" and is skipped (`Used`,
`After`).

### Connection

Two `Connection` objects and the network between them. `net` keeps every datagram after it
is received, so it can come again; a datagram that is never received is lost; nothing
orders the choice.

| Action or operator | Code |
|---|---|
| `Enqueue` | `Enqueue`, an id taken with `After` |
| `BuildData` | `Build`: nothing to say and no keepalive due, no packet; otherwise the header and the longest run of queued messages that fits, oldest first |
| `BuildBare` | `BuildSnapshot`: a header of its own, no messages |
| `Receive` | `Receive`, all of it: `NoteSequence`, `NoteAcks` with `Erased` and `Resolve`, the loop over the messages and the drain of `m_Held` |
| `IsAcked` | `IsAcked` |

What a queue of bytes decides is which prefix of the queue fits, so `BuildData` takes any
prefix of at most `MaxSpan` ids; the code's largest is 235, from the size of a datagram and
the size of an empty message. `MaxSpan < Window` is an assumption, and it is what makes
`NeverRefused` true. `Enqueue` drops a payload that is empty or longer than 256 bytes
without telling its caller; such a call is not an action of the model.

`Timely` states what the wrap asks of the world: no datagram is delivered when half the
number space has gone by since it was sent. At 60 packets a second half the space is nine
minutes, and a session does not survive five seconds of silence. And it asks of the sender
that no whole number space of messages (65536) is queued behind one that is acknowledged:
`NoteAcks` erases by the 16 bits of an id the first message that has them (`Erased`), and
looks again for an id that a second packet carried.

`Fifo` is the abstract specification: one channel, a sequence written and a prefix of it
read. `Connection` maps each direction onto it: `written` is what was queued (`Queued`, the
ids without the skipped zeros), `read` what was handed up (`HandedUp`).

### Session

One server and several client processes, each with one socket and so its own address;
`owner` says whose they are, and one account may have two. A datagram is a record that lives
`Lifetime` ticks; while it lives it may be read any number of times, or never. A tick is the
second between two HELLOs, and every pump runs between two ticks (`Overdue`, the guards of
`Tick`), because a frame is much shorter.

| Actions | Code (`Net/Host.cpp`) |
|---|---|
| `HandleHello` | `PumpServer` on a text (819-878), with `NoteAdmitted` (807-817): an account's connection follows it to the address admitted last. Whether the answer is a welcome is `ServerLifecycle`'s |
| `HandleRequest`, `HandlePacket` | `HandleServerPacket` (371-442): a request opens or moves the account's connection; any other packet has to come from the connection's address and carry its session |
| `TickServer` | `TickServer` (445-512): keepalives, and the silent accounts erased |
| `CloseServer`, `ShutdownClient` | the same: nobody is told |
| `ConnectDev`, `PumpClientHello` | a `--dev` join: three HELLOs a second apart |
| `Exchange`, `BeginClient` | a join of the online session: a HELLO with a token of its own each time (`OnlineSession.cpp:732-801`), then the socket is handed over |
| `ReceiveAccept`, `ReceiveLive`, `PumpClient` | `PumpClientSession` and `PumpClientLive` (594-680) |

Session ids are random 64-bit numbers; the model takes one that nobody has (`Unused`), and
the run has as many as one behaviour can use at once.

### ServerLifecycle

Each thread has a variable for where it is. An action is what a thread does between two
points where another can interfere: a wait, a blocking call to the agent, a lock. `Answer`
is two actions because the clock is read twice in it, both inside `DoorMutex`: while
`door = "admit"` the mutex is held, and `OpenAdmission` and `Finish`, which take it, wait.

| Actions | Code |
|---|---|
| `Start` | the launch: a port that cannot be bound, a fleet server, a `--dev` server |
| `PollReady` to `OpenAdmission` | `WaitForAllocation` (`ServerLifecycle.cpp:160-260`) |
| `LoadScene`, `EndMatch`, `LeaveDev` | `DedicatedLayer::OnAttach`, `OnUpdate`, `OnDetach` |
| `Finish`, `PostResult`, `Backoff`, `PostShutdown` | `Finish`, `ReportResult`, `GiveUp` |
| `RequestStop`, `JoinHealth`, `JoinDoor`, `CloseServer` | `TearDown` |
| `HealthAnswered`, `HealthWaited` | `HealthLoop` |
| `DoorLoop`, `HelloChecked`, `HelloAnswered`, `HelloDev` | `DoorLoop` and `Answer` |

The agent is a choice: it answers as wanted, refuses, or its answer is lost. The tokens are
CONSTANT records (account, nonce, issued, expires); their signature, match and server are
right, because a token with a wrong one is denied before any state changes.

### Replication

One server and one client. A state is a function from net ids to the fields of an entity,
and an entity's fields are a function from names to values, of which some may be missing.
`ChangedFields`, `Overlay` and `StampAfter` are the `Diff`, `Overlay` and `StampAfter` of
`World.cpp`.

| Action | Code |
|---|---|
| `ChooseBaseline(w)` | the simulation since the last capture made the world `w`; `CaptureWorld` gathers it and picks the newest acknowledged snapshot of the ring (`World.cpp:1914-1976`) |
| `SendSnapshot` | the rest of `CaptureWorld` (1978-2045): destroys of acknowledged snapshots are settled, the records are cut to the datagram, the stamp of what went is put in the ring |
| `AckArrives`, `Forget` | the server's connection learns of a snapshot the client received; it forgets packets too old to ask about |
| `ApplyPacket` | `ApplyPacket`: find the baseline, compute the full state, keep it, apply it to the scene if it is newer |
| `NewSession` | the server dropped the connection after five silent seconds and admitted the client again |
| `Rejoin` | another process of the account is admitted while its connection is alive |

The capture is two actions because the door thread runs in between: `acked` may have grown
when `Settled` is evaluated. Which extra destroys go first is the order of a hash set, hence
a choice; those of the baseline and the records go by id.

The transport of the snapshots (sequence, acknowledgement, forgetting) is Connection's, as
its theorems leave it: `AcknowledgedWasReceived` is why `AckArrives` takes `s \in heard`.
One sequence stands for one snapshot, and for the tick it was taken at; other packets of the
connection only show as `Forget`. `Late` bounds how many snapshots may overtake a packet
that is still delivered; that bound is not in the code and matters (see
`Replication_Entities` below).

### Prediction

The other half of `World.cpp`: one client that simulates its pawn ahead of the server, and
the server that simulates it with the commands it has.

| Action | Code |
|---|---|
| `ServerStep` | a tick of `PhysicsSystem::OnUpdate` (99-124) with `TakeCommand` (1504-1543) before it and `CaptureWorld` after it: the command for the tick, or the last one again until it is stale |
| `IngestCommands` | 1478-1502: a packet's commands go in the buffer, which drops what is far too late and, when full, its earliest |
| `AssignPawn`, `LosePawn` | 2296-2313 and the destruction of the pawn's entity |
| `ReceiveSnapshot` | `ApplyPacket` 1219-1273 with the frame that presents it: ghosts, samples, the pawn's body made anew |
| `StartPrediction`, `Reconcile` | `PredictLocal` 2068-2093 and `Reconcile` 1703-1787: the newest sample not ahead of the simulation is compared with what was predicted for its tick; if they differ, the stored commands are replayed from it |
| `PredictTick` | one turn of `PredictLocal`'s loop, with `SendRecent` |

A pose stands for all of position, velocity and ground, and poses within the tolerance of
`Reconcile` are one; `Move`, a CONSTANT function, is what a tick does to a pose on either
side. Whatever else moves the pawn on the server is a push, an odd thing of which a run
allows `MaxOdd`, like a snapshot cut before the pawn's record, a pawn lost or replaced. Any
packet and any snapshot ever sent may arrive at any time, again, or never.

### RuntimeMatch and Online

`RuntimeMatch` has no variables: it is what each callback of the match makes of its record.
`Online` keeps the session, its requests, the push socket, the join and the match, and its
actions are the arrivals of the main thread: an answer to an attempt, the end of a sign-in, a
timer. Completions run inside them, as in the code. To write that without recursion, a
handler works on a context (`There`: the match, the join and the reconnect timer as it leaves
them) which `Send`, `Failed` and `Settle` hand on; `assigned` is the C++ assignment of
`Online::Send`'s result to `m_Request`, which happens after a callback that ran inside.

| Actions | Code |
|---|---|
| `SendScript`, `SendQueue`, `ReadTicket` | `Online::Send` with `Dispatch` (`OnlineSession.cpp:394-407, 904-922`), for scripts and `RuntimeMatch::OnUpdate` |
| `Answer` | a completion of the transport (`Online.cpp:102-126`) with `OnAttemptDone` (293-381) and the callback of whose request it was |
| `SignInDone`, `RefreshDone`, `BackoffOver` | the ends of `BeginSignIn` and of a refresh, `ResumeWaiting`, `FailWaiting` |
| `PushOpened`, `PushFailed`, `PushClosed`, `Reconnect`, `MinuteOver` | `ConnectPush` (539-654) and `Online::OnUpdate` (813-832) |
| `HelloReply`, `HelloSilent` | `OnHelloReply` (681-727): a second without an answer reads the ticket again |
| `MatchFrame`, `DestroyMatch`, `CancelScript` | `RuntimeMatch::OnUpdate`, its destructor, `Online::Cancel` |

`stale` on a request says that a newer session was adopted since its first attempt; it stands
for the generation numbers.

### Assets

`file` is the disk as editors write it, `disk` a texture's compiled output with its record
and the temporary file that every parse of it writes before the rename,
`watch` what the watcher knows, `manager` the managers' cache, hand-off list, failures, jobs
and references, `frame` where the main thread is. A texture is compiled and cached, a
material is read and captures its texture.

| Actions | Code |
|---|---|
| `Poll`, `PollLater` | `AssetWatcher::Poll` (178-262): first look, change, settled change, the reload with its dependents (`EvictTextureDependents`); or its quarter second is not over |
| `UpdateTextures`, `UpdateMaterials` | `TypedAssetManager::Update` (407-483): apply what is parsed while the budget lasts, age the hand-off |
| `Ask` | `AssetRef::Get` of a frame, with `Load` and its cap; a bound material asks for its map |
| `WaitFor`, `WaitOver`, `Drop` | the same; a reference taken or dropped |
| `Reload`, `ReloadOver` | `AssetManager::Reload` (742-805): the compiled output is invalidated, or the captured map evicted, and then the asset evicted; a worker may come between |
| `Begin`, `Look`, `Serve`, `Compile`, `Write`, `Rename`, `Record` | a job: `ExecuteRange`, then `CompiledCache::Open` (392-588), a step for each access to the files: the source's stamp, the record (and the source, if its stamp moved), the output of a record that is not stale, the temporary file, its rename into place, the record |
| `NotPersisted` | what `Open` falls through (523-564): the temporary file is not written or not to its end, the rename fails, `WriteEpoch` cannot open the record or stops in it |
| `Edit`, `Crash` | the world: a file is changed, half written or deleted; the process dies |

### EditorUndo

A scene is a function from ids to parent, children and one component; the component stands
for any, the link to a prefab included. Every operator on the hierarchy is one of
`Scene.cpp` or `EditorUndo.cpp` and leaves the links the way that function does: `SetParent`
appends and refuses circles, `RemoveSubtree` is the `DestroyEntity` of each of a subtree and
makes roots of what was under them, `RestoreSubtree` puts back snapshots with the links they
had and then tells the surviving parent. The walks of the code are closed sets, as in
`SceneFrame`: `CollectSubtree` is the least set with an entity and the children of its
members, `Above` the least with the parents. That is the form a proof can use, and it is
what the loops collect where `Forest` holds.

| Actions | Code |
|---|---|
| `Undo`, `Redo`, `Save`, `Open` | `EditorUndoStack`, `SaveSceneTo`, `OpenScene` |
| `Grab`, `Drag`, `CommitPendingEdit`, `Toggle` | `TrackCommitBoundary` (1246-1328): one entry for a gesture over a selection, none if nothing was edited; a check box at once |
| `AddComponent`, `RemoveComponent`, `LinkPrefab`, `RevertInstance` | the inspector's menus and the prefab bar |
| `CreateEntity`, `DuplicateSelectedEntity`, `DeleteEntity`, `Reparent` | the outliner and its shortcuts |

`RecordChange` is a change with its push; `Push` clears what could be redone, drops the oldest
entry past `MaxDepth` and moves the saved depth with it. Three history variables serve the
properties: `shots` is the scene at every depth of the two stacks, `strayed` says that the
scene was changed beside the stack, `lost` that the saved scene is at no depth any more.
Section 5 says when the code does either.

`UndoStack` is what the stack promises whatever commands are: an abstract specification whose
state is the scene there is, the scenes that were recorded, two depths and the saved scene.
Undoing is a step to the scene one below. `EditorUndo` instantiates it, with `now` the scene
but for what a held widget is changing and `depth` the length of its undo stack; that every
step of the editor is a step of it (`IsUndoStack`) says that each command, undone and redone
from wherever it is, leads exactly from one recorded scene to the other.

### ChangeBuffer, ChangeViews and SceneFrame

`ChangeBuffer` is the log of the changes of one component type as operators: entries have
virtual indices counted from 1, those of this frame and of the one before are kept.
`ChangeViews` is that log with its readers, each with a cursor: `Select` is a view's read,
`BeginFrame` turns the buffer over once every view has read (what `ChangeBuffer.h:47`
asserts), and `logged` is the history of all changes, against which reads are judged.

`SceneFrame` is a scene with its command queue, its events and Lua's table of instances.

| Actions | Code |
|---|---|
| `FrameBegin`, `FrameEnd` | `Scene.cpp:149-173` with `CommandQueue::Flush` (93-139): creations, then destructions of what is still there; the events go at the end |
| `UpdateScripts` | `LuaScriptSystem.cpp:16-35` with `Instantiate`, by UUID, and `DestroyInstance`, by handle (`ScriptEngine.cpp:611-705`) |
| `RecomputeDirty` | the transform pass: what changed since its cursor, with all that is under it |
| `QueueSpawn`, `QueueDestroy` | what a script may do to entities while systems run |
| `Move`, `Reparent`, `Destroy`, `Spawn`, `ToggleScript` | panels, and the snapshots and ghosts of `Net/World.cpp`; a ghost may come back with the UUID of an entity that went |

A scene that changes is a record of what is live and of the log, and every operation on it
(`CreateEntities`, `SetParent`, `DestroyEntities`, ...) returns both, so what a function logs
is part of it (`Marked`). The code's loops up and down a tree are stated by what they reach:
`Above` is the least set with the entity that is closed under parents, `CollectSubtree` the
least that is closed under children, and a world transform is what is above the entity with
its parents and its locals. A local transform has two values, so a cache is right only if it
is right for every composition of them. `RecomputeDirty` gives each dirty entity what is
above it, where the code passes the parent's result down; that the two are the same, and that
the loops end, is what `TreesAreSound` says: parents and children agree, and no entities have
all their parents among them.

`ScriptInstances` is Lua's side of the scene, which `SceneFrame` extends: the two sets of
events, the table of instances with its reverse map, and a drain. `reborn` is a history
variable: the scripted UUIDs that were also rid of a script since the last drain (section 5).

## 3. What the runs check

Deadlock checking is off everywhere because the bounds on packets, seconds, tries and edits
end every behaviour, and because two of the parts really stop: a server that closed its
port, an asset nobody refers to.

| Run | Instance | Distinct states | Shows |
|---|---|---|---|
| `Connection_Channel` | `Half` 8, ack field of 2 bits, 3 remembered packets, 2 datagrams in flight, 2 messages one way and 1 back, 3 + 2 packets | 370 000 | what is acknowledged was received (`AcksAreTrue`), and the two channels implement `Fifo` (`ImplementsFifo`) |
| `Connection_Wrap` | `Half` 3: numbers 1 to 5, then 1 again; 7 packets and 7 messages one way, 4 packets back, one in flight | 800 000 | in order and once, none lost, none refused, across the wrap of sequences and ids and the skipped 0 |
| `ServerLifecycle_Server` | a fleet or a `--dev` server; 4 tokens of 3 accounts (one player holds two, one account is not in the match), 2 addresses, 3 HELLOs, 3 seconds, leeway 1, 3 result posts; or a scene of 2 to 4 entities, 3 changes or commands, 1 spawn a frame; or 2 views, 4 changes of 2 entities | 233 000 | the safety of admission and shutdown, and that stop and match both end; world transforms are current, trees are sound, Lua's instances are the scripts, no view loses a change |
| `Session_Host` | 2 processes of one account or of two, 3 session ids, 2 silent seconds, 2 HELLOs, datagrams that live a second, 3 in flight | 185 000 | one connection per account; a session keeps its account; a client ends in session or gives up; a connection nobody speaks to ends |
| `Online_Session` | one script's requests beside a match whose push socket holds, or beside no match and a socket that fails twice; 2 tries to queue, 2 joins of 2 HELLOs | 235 000 | one recovery at a time, no refresh token twice, fresh retries, no callback after the match, a socket that comes back; requests and joins end |
| `Replication_Fields` | 1 entity, a position of two values and a ground state that may be missing, 3 snapshots, one `Rejoin`; or one pawn, 2 poses, 6 ticks, a snapshot every second one, one odd thing | 2 370 000 | both sides compute the same states, the scene is a past world; prediction agrees, stale commands stop, commands in time are used |
| `Replication_Entities` | 2 entities, 1 record per datagram, ring 2, client keeps 4, 4 snapshots, 2 sessions, one early `Rejoin`, overtaken by 1 | 2 920 000 | where records do not fit and entities come and go: destroys are told until known; every baseline named is held; nothing a newer snapshot destroyed comes back |
| `Editor_ReloadAndUndo` | a texture and a material that captures it, 2 outside acts (edits, deletions, reloads, failing writes, crashes); or a scene of at most 4 entities, 3 pushes, depth 2 | 690 000 | stale results are noticed and references come to show their files; the hierarchy is a forest, the editor implements `UndoStack`, so every depth gives back its scene and a clean scene is the saved one |

Every property of these runs has a mutant: an operator next to the definition it replaces
(`Due_OneBehind`, `Settled_Sent`, `PollFiles_Alone`, `Bury_ByUUID`, ...) with one
plausible mistake, under which TLC finds that property violated.

### Bounds

*Connection.* The smallest instances where a packet is forgotten by `m_Sent` while its
acknowledgement is under way, where the ack field overflows, where a message is sent three
times and received twice, and (in `Wrap`) where a number is used again. One datagram in
flight already repeats and loses, but does not reorder across the wrap: for that the
theorems stand.

*Lifecycle.* A token that expires while others are valid, a replay on each side of the
leeway, a full set of attempts.

*Scene frame.* Two entities begin, a child under its parent, so one change can orphan, move
or destroy with something under it; three changes let one fall before a frame, one into it
and one after its pass. Four changes (2.4 million states) were checked by hand. Four logged
changes let a view read twice in a frame and the buffer turn over between any two of them.

*Session.* Two processes are the least for a takeover, and two accounts the least for an
address or a session that belongs to somebody else. Three ids let the account lose its
connection and be admitted again while a request for the first is still alive; two silent
seconds leave one second in which the two ends differ about the session.

*Online.* `QueueTries` 2 and `JoinAttempts` 2 are the least where a second try succeeds or
fails after a first one failed. The push socket and the match meet only in the ticket that a
push makes the match read early, so the two halves of the instance are: a match beside a
socket that holds, and a socket that fails beside no match. `MaxDrops` 2 is a failure and
another one after the reconnect.

*Replication.* Four snapshots with a ring of two are the least for a baseline to leave the
ring while a packet that uses it is under way. In `Replication_Entities` a process takes over
only before anything is acknowledged; later, `NewestDecodes` is lost (`Replication_Rejoin`).
The client keeps the ring and twice the reordering there, `2 + 2 * 1`. Four snapshots never
make it drop one of four states; that case is what the proof of `BaselinesAreKept` covers,
for every ring and reordering. Less does not do: with 3 kept states, `NewestDecodes` fails
from the seventh snapshot on (checked by hand). The code keeps 64 for a ring of 32, so
packets overtaken by up to 16 snapshots (half a second, at one snapshot every second tick)
decode.

*Prediction.* Ticks, snapshots and the client's lead are as in the code, in small: a snapshot
every second tick, a client up to 2 ticks ahead, buttons and stick kept for one tick, a ring
of 3 that turns over within the run. `MaxOdd` 1 is one push, one cut snapshot, one pawn lost
or one replaced. Checked by hand besides: two odd things with a snapshot every tick (3.5
million states), and a ring of 2, which a late snapshot finds overwritten (1.8 million).

*Assets and undo.* Files begin alike and an edit changes what is read. What the main thread
does outside a frame's references is put before them, what is reloaded is loaded, and a
frame asks for a texture before the material that captures it. The hand-off is kept for two
`Update`s: with one, nothing that is not asked for in the very frame it is parsed would ever
land. The caps on parses and reloads are 1, so that each of them is reached. Two outside acts are
the least for a parse that drains while another one is in the files, for a write that fails
under an edited source, and for a source that goes back to what an old record says. In the undo
half everything becomes `"b"`, the parent's widgets are the ones held, and a scene that
strayed (section 5) is only undone and redone; wider instances, up to five million states,
were checked by hand.

### Fairness

- *Lifecycle*: `WF` on each of the three threads. The operating system runs them, a call to
  the agent returns because it has a timeout (5 to 25 seconds), `wait_for` returns after two
  seconds even when a notification is lost, and a match ends by its clock (`MatchSeconds`
  above 0; with 0 the game has to end it). None on `Tick`, the tokens' clock, nor on a HELLO:
  `StopAndMatchEnd` holds when no player ever calls. Polling `/ready` may go on for ever, so
  its second half starts at the acknowledged allocation.
- *Session*: `WF` on `Tick`, on `TickServer` and on the clients' pumps: both sides call
  `Net::Pump` every frame, and time passes. None on any datagram.
- *Online*: `WF` on the answers (the transport gives up after its timeout, which is an answer
  too), on the end of sign-in and refresh, on timers, on the frames of the match and on the
  end of a HELLO's second.
- *Assets*: `WF` on the main thread's frame, on the workers and on the asks of a frame; `SF`
  on `Poll`, whose quarter second comes due again and again. None on edits or crashes.
- The others have no liveness: what they promise is about what has arrived.

### Violations

`Connection_LossIn`, `ServerLifecycle_Replay`, `Replication_Rejoin` and `Replication_Cut`
check one property each, a sentence of the repository that the code does not keep; section 5
tells them.

## 4. What is proved

All theorems are for every value of the constants within the named assumptions of the
modules: any window, field width, number space, ring, datagram, set of entities, accounts,
processes, tokens or scripts, any number of packets and sessions.

**`ConnectionProofs`**: `AheadExact`: the signed difference of two wire numbers is the
difference of the numbers they stand for as long as it is below `Half`. Everything about the
wrap rests on it. Then `TypeCorrect`, `DeliveredInOrder`, `NoMessageForgotten`,
`HonestNeverRefused`, `NothingEverHeld`, `AcknowledgedWasReceived` and `ChannelIsFifo`
(`ImplementsFifo`). None of the invariants is inductive alone. The invariant `IInv` says besides:

- every packet in flight, and every one remembered, starts at or before what its receiver
  expects and has no hole after it (`MsgsOK`), because `Build` always starts with the oldest
  unacknowledged message. From this it follows that no message arrives before the one it
  waits for: `m_Held` is always empty between two ends that run this code;
- what a received packet carried has been delivered (`SentOK`), so erasing its messages on
  an acknowledgement loses nothing;
- an end acknowledges only what it received (`RecvOK`, `DatagramOK`);
- the remembered packets are recent enough (`localSeq - seq <= 2 * (Len - k)`, the 2 for the
  skipped zeros) that no two of them, and no acknowledgement still `Timely`, share a wire
  number. What is erased by the 16 bits of an acknowledged id is then that message or one
  before it, since `Timely` has no message a whole space behind.

`ChannelIsFifo` is the refinement, step by step: `Enqueue` is `Write` (the id before which
`After` skips a zero adds nothing), `Receive` is `Read` or a stutter, everything else a
stutter. By `IInv`, what was handed up is the ids below the one expected, and what was queued
the ids below the next; `IdsList` and `IdsBegin` say that the list of ids up to a number
begins with the list up to a smaller one.

**`ReplicationProofs`**: `TypeCorrect`, `BothSidesAgree` (`StampsAgree`),
`TheSceneIsTheWorld` (`SceneIsTheWorld`), `OldSnapshotsSpawnNothing` (`NoResurrection`),
`BaselinesAreKept` (`NewestDecodes`) and `GoneIsTold` (`ToldUntilGone`). `stamps[s]` is the state the server recorded for
sequence `s`. `IInv` says that the ring, the baseline chosen, every packet in flight
(`PacketOK`: its records lead from `stamps[p.base]` to `stamps[p.seq]`) and every state the
client keeps agree with `stamps`, and that `stamps[s]` is all of `truth[s]` when the
snapshot was not cut (`WholeOK`). The heart is `OverlayChanged`: laying the changed fields
over the old ones is laying all the new ones. It holds although fields that were lost are
never mentioned; that is why the scene has at least the fields of the world and may have
more.

Three parts are added to it for the other theorems. `EntitiesOK` (`GoneForGood`): an id that
has left the world does not return, and a destroy names only an id that was gone. `SessionOK`:
acknowledgements, baselines and `latest` are of snapshots this session's client heard, and no
baseline is older than the ring. `KeptOK`: a snapshot the client heard is kept until
`KeepCap` others came after it, and what came after it (`Since`) is numbered `Late` before it
at the earliest; counting those in the window between a baseline and the packet that names it
gives `KeepsEnough`. `Told`: who is in a packet is in `mayHave`, or was gone in a snapshot
the client heard. `BaselinesAreKept` and `GoneIsTold` have two hypotheses. `KeepsEnough`,
`KeepCap >= RingCap + 2 * Late`, bounds the reordering by what the code's 64 and 32 leave
room for. `TakesOverEarly`, no `Rejoin` once something is acknowledged, is what finding 3 of
section 5 says the code lacks; the theorems say that nothing else is in the way.

**`PredictionProofs`**: `TypeCorrect`, which bounds the server's buffer by `InputCap` and the
client's samples by `SampleCap`, `CommandsInTimeAreUsed` (`InTimeIsUsed`), `RepeatsGoStale`
(`StaleStops`) and `PredictionsAgree` (`Agrees`). The invariant:
the server's record of steps has one entry per tick and there is one snapshot per tick
(`StepsOK`, `SnapsOK`); the client simulates at most `MaxAhead` ticks past the server
(`ClientOK`); ring, packets and buffer only say what the client made (`MadeOK`); and a
command that came in time was used or is in the buffer still (`Kept`). The heart is
`LatestKeeps`. A full buffer drops its earliest commands; a command for a tick to come is
never among them, because all are at most `MaxAhead` ahead and `MaxAhead <= InputCap`.

`RepeatsGoStale` adds `LastOK`: what the server repeats was asked for at a tick since when
the pawn ran at most `missing` times. `PredictionsAgree` adds both ends of the comparison.
`ServerSide`: a pawn id is never used again (`PawnsPass`), what was not pushed goes where its
command leads, and a whole snapshot shows it (`StepsMove`). `ClientSide`: the ghost is the
pawn of the newest snapshot; the ring has exactly the last ticks that were predicted
(`RingOK`); what was predicted after the last reconciled tick goes where its commands lead,
to where the body is (`Chain`); and what was agreed on is of this pawn (`AgreedOK`). A
correction replays one tick at a time, so that two chains which start at one pose and follow
the same commands stay together is an induction over ticks (`Along`, from `LeastElement`).

**`MatchProofs`**, of the server's lifecycle: `TypeCorrect`, `PortOutlivesThreads` (`JoinedBeforeClose`),
`ResultsAreOfMatches`, `ShutsDownOnce`, `ValidTokensAdmitOnce` (`SeenWhileValid`) and
`AdmissionEndsFirst` (`NoAdmissionAfterResult`). The invariant has three parts. `Control`
says for each place of the main thread what the other two have done and which calls were
made: whether a stop was asked for, which threads are joined, how often the result was posted
and `/shutdown` called. `Admitting` says that the door holds the mutex only while admission
is what it found. `Remembered` says that a nonce that admitted is in `m_Seen` until the
clock passed its token's last second; it is what `Forget` keeps, and what fails for one
second between the two readings of the clock, which is why the theorem is about tokens that
are valid still. `NonceAssumption`, that two tokens differ in their nonces, is the backend's.

**`SessionProofs`**: `TypeCorrect`, `OneSessionPerAccount` and `SessionsKeepAccounts`. The
invariant: who is admitted at an address is the one who owns it (`AdmittedOwn`); an account
has one connection (`OneAccount`), at the address it was admitted at last (`AtLastAddress`);
an accept on its way is addressed to a process of the session's account (`SentToOwner`); and
a client in session has one of its own account (`LiveOwns`). The first is where the source
address of a datagram is trusted, which UDP does not justify by itself; session ids are
64-bit random numbers, and it is they that a stranger would have to guess.

**`OnlineProofs`**: `TypeCorrect`, `NobodyWaitsForNothing` (`OneRecovery`), `TokenSentOnce`
(`RefreshTokenOnce`), `RetriedFresh` (`RetryIsFresh`), `NothingOutlivesTheMatch`
(`CancelReaches`) and `PushComesBack` (`PushReturns`). A step of `Online` is a handler that
runs callbacks, which send and cancel, so the lemmas are about contexts: what `Send`,
`Failed` and `Settle` return, whatever context they are given, and each action composes
them. The invariant joins who waits to what is under way (`Waits`), what each request was
launched with to the session (`RequestsOK`), what the match has under way to its state and
its `m_Request` (`Named`), and the socket to its timer (`SocketOK`).

**`MatchProofs`**, of the frame: `NoChangeIsLost` (`NothingIsLost`), `WorldsAreCurrent`
(`WorldIsCurrent`), `TreesStaySound` (`TreesAreSound`) and `OneInstancePerScript`
(`InstancesAreScripts`). For the views: what the buffer keeps is the end of `logged`, from
`prevStart` on (so `At` of an index is `logged` of that index), the two frames it keeps are
adjacent, and a cursor that has read is never before `prevStart`, and in this frame once its
view has read.

The other three are about `SceneFrame`. Its operations are told as functions of a scene and
its log, so the lemmas are about those: each keeps `SceneOK` (the registry, the three parts of
`TreesAreSound`, and `WorldsKnown`). `WorldsKnown` is what makes a cache of world transforms
work: an entity's is right, or something above it is logged and unread. Whatever an operation
does to an entity's place or its local transform, it marks that entity (`WorldsStayKnown`);
what is above an entity has it under it (`UnderWhatIsAbove`, for which parents and children
must agree); so what the pass collects under the unread entries is all that is wrong. No walk
up or down is unfolded for this: `Above` and `CollectSubtree` are least closed sets, and a
lemma about one gives a set that is closed. That the way up ends (`Rooted`) is kept by
`SetParent` because what is above the new parent is closed and without the child, and by
destructions because orphans become roots. `UuidsOK` says that a queued creation has a UUID
of its own, `CursorOK` that the pass has read this frame or the last, so nothing falls out.

What Lua has once the views are drained is one instance for every script and no other, but
for a script that went and came back within one frame. The invariant: handles are below
`minted` (`HandlesOK`);
the reverse map has the UUID of every instance, and a handle in it that lost its script is in
`fini` (`NamesOK`); an event has the UUID the handle has or had, so that a drain in two
passes, by UUID and then by handle, takes away what it means to (`EventsOK`); and a script
has its instance, or an event that will make it, or was also taken away in this frame
(`ScriptsOK`).

**`AssetsProofs`**: `TypeCorrect`, `NothingStaleStays` (`StaleIsNoticed`) and
`CacheTellsTheTruth`: a compiled output whose record has the stamp of the source is the
source's, unless two parses met in its files or a record was not written or is of other bytes
(`torn`). The theorems are about
`Next` as it is, without the order `MCEditor` gives a frame's asks. The invariant follows a
parse from stage to stage (`JobOK`): it looked at the stamp before it read the source, so if
the stamp is still the file's, so is what it read and what it makes of it; and if the watcher
has nothing to do, the stamp of what is still to be applied is the file's, because an eviction
sets every parse aside. `DiskOK` says the same of a texture's files: at most one parse is
between two accesses to them (`Inside`), what it last saw there is there still or was
invalidated by a reload, and when no record is due, output and record are of the same bytes.
`Alone` is the lemma behind it: a parse that goes to the files and tears nothing is the only
one there.
`CachedOK` adds that only what is loaded has captured a texture, which is why evicting the
loaded dependents is enough.

**`UndoProofs`**: `AlwaysAForest` (`Forest`), `ImplementsTheStack` (`IsUndoStack`, the
refinement of `UndoStack`) and `SavedIsTheFile`: `RoundTrip` and `CleanIsSaved` hold of the
editor, because they hold of the stack (`StackIsSound`) and the editor is one. They are about
`UndoNext` as it is, for scenes of any size and any cap, without the restrictions `MCEditor`
puts on what is done after a scene strayed.

The two stacks are one row of entries between the scenes of `shots`; an undo or a redo only
moves the place in it. The invariant says two things of that row. First, every entry leads
from its scene to the next, and back, as far as parents go (`Leads`), and so it does from any
scene that is `Alike`: the same entities with the same parents, whatever values they have and
in whichever order siblings come. The scene is always alike to the one of its depth, also
after a change beside the stack, because those move siblings and values only. So a command is
never applied to a scene it was not made for, and each of its operators keeps a forest
(`SetParent` refuses what is above; what `RemoveSubtree` takes away is closed downwards; what
`RestoreSubtree` puts back hangs under one parent). `Forest` alone is not inductive: a
snapshot put into an arbitrary forest may make two parents of one child. Second, as long as
nothing was changed beside the stack, every entry leads there `Exactly`, to the last value
and place among siblings. What a held widget is changing is in the scene and not on the stack
yet; `Settled` takes it back, and an entry commutes with that when it does not touch what is
held, which is when the model does not raise `strayed`. So an undo in the middle of a gesture
is still a step of `UndoStack`, and letting go is the step that records it.

`StackInv` adds to `RoundTrip` and `CleanIsSaved` that there is one recorded scene for every
depth, and that the one at the saved depth is the saved one unless it fell off or was pushed
over; what needs it is the drop of the oldest entry, which moves every recorded scene and the
saved depth down together.

**Only model-checked**: the liveness properties, `StopAndMatchEnd`, `ClientSettles`,
`GhostEnds`, `RequestsAndJoinsEnd` and `Lands`, with the fairness of section 3: liveness and
`ENABLED` are out of these provers' reach. Every safety property of a passing run is a
theorem. No module uses a `RECURSIVE` operator: what a recursive definition computes for
every input is out of reach too, so induction over numbers is done by the least element of a
set, and over trees by closed sets.

## 5. Where the code and its words disagree

Four are runs that must find a violation.

1. **`Connection_LossIn`** (`Net/Connection.cpp:343,359`). When the first packet to arrive
   is not the first that was sent, a later arrival from before it is counted as filling a
   gap "already charged to loss", but nothing was charged: `m_RecvGot` passes
   `m_RecvExpected`, and `LossIn` subtracts them unsigned.
2. **`ServerLifecycle_Replay`** (`Online/ServerLifecycle.cpp:413,429`). `Answer` reads the
   clock once to verify the token and again to forget expired nonces. If its last valid
   second ends between the two, a used token is welcomed again. `SeenWhileValid`, which
   holds, shows that this second is the only one.
3. **`Replication_Rejoin`** (`Net/Host.cpp:397`). A second process of an account takes over
   the existing `Connection` with the acknowledgements of the first, so the server names
   baselines the new process never had. It drops the snapshots, and its transport
   acknowledges them, so the next baseline is again one it does not have. It recovers only
   if the ring holds nothing acknowledged at some capture, which the stream of
   acknowledgements prevents.
4. **`Replication_Cut`** (`Net/World.cpp:1217`). "Nothing is lost by not applying it: the
   newer snapshot's state already includes whatever this one changed" fails when a datagram
   is full: a record an earlier snapshot carried may not fit in a later one on the same
   baseline. The entity leaves the client's scene until there is room again.

The rest was met while translating. The models do what the code does; where that would
break a property, the property says what it leaves out.

*Online and match*
- `Online/Online.h:113` says that a completion runs "a frame or more later". A request sent
  while the session backs off fails inside `Send`, and `m_Request = Online::Send(...)` then
  stores the id of a request that is over, so the match waits for it and sends nothing more
  (`RuntimeMatch.cpp:119`). `assigned` models it.
- `Done` is not final: an answer without a ticket that arrives in it queues again
  (`RuntimeMatch.cpp:176`). `Play` never ends if the session never connected (82).
- `docs/engine/online.md:272-276` says that the reconnect timer brings an offline game back;
  with the backend down at boot nothing arms it (`OnlineSession.cpp:824`).

*Connection*
- Acknowledged messages are erased by their 16-bit id, once for every packet that carried it
  (`Net/Connection.cpp:395-404`). With a whole number space of messages queued, the second
  packet's acknowledgement erases the message that has the id again; `Timely` excludes it.

*Prediction*
- A pawn that is assigned again has its body at the prefab's origin until the next correction
  (`World.cpp:1839`); `Missing` counts only ticks with a pawn, so a new pawn goes on repeating
  the old one's buttons (1526); `SimTick` and `LastReconciled` stay when a new session begins
  (1170); a server that stalls for two seconds drops commands that are due (1499); a cut
  snapshot shows an old pose under a new tick, and the client corrects itself to it.
- Net ids wrap after 65535 and may meet one in use (`World.cpp:721`).

*Assets*
- `AssetWatcher.cpp:189-190`: a file that changes between its load and the first look is
  taken as unchanged.
- `CompiledCache.cpp:531`: "a crash between them costs a recompile". It leaves the new output
  beside the old record; if the file goes back to what that record says, the new output is
  served for it. So it does when `WriteEpoch` fails: its result is not looked at (475, 557).
- The temporary file has one name per asset (534), so two compiles of a file, one of them
  draining, can mix their bytes or rename each other's output; and a parse can read the record
  (421) of one compile and the output (468) of another.
- `Reload` invalidates the compiled output before it evicts the asset (`AssetManager.cpp:779`,
  803). A parse that has just found the record fresh then finds no output and compiles: it
  reads the source only now, but records what it makes under the old record's hash
  (`CompiledCache.cpp:456`, 484-493).
- Reloading or reconfiguring a texture does not tell a material that captured it, except
  through the watcher (`AssetManager.cpp:779`).

*Scene*
- `ECS/Graveyard.h:17-20` clears the graveyards at the top of `FrameBegin`, `Scene.cpp:172`
  at the end of the frame: what the editor removes between frames is readable for the next
  update, what an update removes is not.
- `ECS/CommandQueue.cpp:116` and `docs/engine/ecs.md:302` say that a same-frame remove and
  re-add works. For a script it does not: `Instantiate` finds the old instance by its UUID
  and keeps it (`ScriptEngine.cpp:622`), then the removal destroys it
  (`LuaScriptSystem.cpp:30-34`), and the script has none. The same happens to a ghost that is
  destroyed and spawned again between two frames. `InstancesAreScripts` excludes them
  (`reborn`).

*Editor*
- Dropping an entity on its own parent moves it to the end without a record
  (`SceneHierarchyPanel.cpp:1983-1988`).
- "Dirty" compares depths (`EditorUndo.h:372-382`): save, undo, then another change has the
  saved depth but not the saved scene.
- Making a prefab from an entity that is an instance already records an added component;
  its undo removes the link (1733-1742).
- An edit still held when its entity is deleted is in the snapshot but in no entry
  (1679-1685); an undo or a save in the middle of a gesture makes an entry whose "before" is
  out of date, or saves half an edit at a depth that is then shown as clean.
- Reverting an instance whose member was moved out makes a second entity with the same
  derived id (`PrefabSerializer.cpp:280-288`; 315-317 says it cannot).
- Deleting a selected parent with its selected child uses a handle that is gone (2014-2016).

`StaleIsNoticed` and `Lands` except the assets of the first point (`missed`) and those of the
next three (`torn`), and
`IsUndoStack`, with the `RoundTrip` and `CleanIsSaved` of `UndoStack`, is about scenes that were changed through the stack only
(`strayed`, `lost`); the exceptions are sets and flags that the model raises only there.

## 6. Limits and what is not modelled

- The properties of the scene exempt a snapshot that could not hold all its records (`cut`);
  what such a snapshot leaves out comes again with the next.
- Net ids are given out once in `Replication`; their reuse after 65535 is a hazard without
  a property, as are the others whose note says so in `PROJECT.json`.
- One client in `Replication` and `Prediction`: clients share only the world and the counter
  of ids, each has its own ring, connection and input.
- A client simulates the commands it sends before they are rounded for the wire; what that
  adds up to is a push in `Prediction`.
- The clocks of `Connection` (round trip, byte rates, the 100 ms keepalive) are a choice.
  `TimedOut` shows as `NewSession` in `Replication` and by seconds in `Session`.
- The text of a token and its signature are left out: a token with a wrong one is denied.
- In `Assets` the stamp of a file grows with every edit; a settling file is settled at the
  next poll; two drained parses of a texture that are alike in everything are one; an output
  or a temporary file that exists can be read and renamed, but for a rename that fails;
  `EvictAll`, `SetAssetConfig`, prefabs, and the compiled meshes and environments
  (which take the texture's path) are left out.
- Script events and script fields of the snapshot packets, with their tables, are not
  modelled.
- `EditorUndo` has one component and no prefab of several entities; the gizmo, placement,
  scatter, joints, play mode and a new scene are left out. They push entries of the kinds it
  has.
- `SceneFrame` logs transforms and relationships in one buffer, because one view reads both,
  and leaves out bones, native scripts, audio, physics and queued component operations.
- A finite instance of `Connection` stops sending at its bounds, so the channel's own
  liveness (a queued message is delivered if packets keep arriving) is not stated.

**Not modelled**, by component: *bit streams and quantisation* are pure functions of bits
with tests of their own; the *UDP socket* is one system call per operation; the *network
test harness* is a test; *core, reflection, math, utilities* keep no state two actors share;
*physics, audio, renderer, user interface, scripting bindings, platform back ends* compute
frames, sounds and positions from values, single-threaded or behind a library's own threads.
They are most of the 68 000 lines of the implementation, and the reason why the definitions
here stand for a small share of it: the lines with a protocol in them are a few thousand. The
*job system* has one and is next in the plan; jobs appear in `Assets` as its managers use
them. Its nested execution (`JobSystem.cpp:295` clears the thread's current job) is met by
none of them.

## 7. Plan

Done: `SerialNumbers`, `Connection` and `Fifo`; `ServerLifecycle`; `Replication`; `Session`;
`RuntimeMatch` and `Online`; `Assets`; `Prediction`; `EditorUndo`; `ChangeBuffer`,
`ChangeViews`, `ScriptInstances` and `SceneFrame`, with the abstract `UndoStack`; proofs of the
safety properties of all of them.

Left, by how much hangs on it:

1. **JobSystem**: futures that cancel and wait, nested execution and the current job, the
   main-thread queue, shutdown; `Assets` over it.
2. **Wire encodings**: bit streams and quantisation as functions against a reference, with
   their tables of script names.

To run a check: `tlc -config <run>.cfg <MC module>.tla`; to check proofs:
`tlapm <module>.tla`. `PROJECT.json` maps every definition to the lines it models.
