----------------------------- MODULE Prediction -----------------------------
(***************************************************************************)
(* Commands and prediction (Net/World.cpp): a client simulates its pawn    *)
(* ahead of the server and sends what it pressed at every tick; the server *)
(* uses a command at the tick it is for, or repeats an older one; its      *)
(* snapshots say where the pawn was, and the client replays its commands   *)
(* from there when it was wrong.                                           *)
(*                                                                         *)
(* One client, one account.  Poses closer than the tolerance of Reconcile  *)
(* are one pose, and Move is what a tick of the script and of the physics  *)
(* does to it on either side.  Whatever else moves the pawn on the server  *)
(* (a teleport, another body, what rounding a command adds up to) is a     *)
(* push.  Any packet ever sent may arrive at any time, again, or never.    *)
(***************************************************************************)
EXTENDS Naturals, Sequences, FiniteSets

CONSTANTS
  Pose,         \* where a pawn is, how fast, and on what ground
  Origin,       \* the pose of a prefab
  Stick,        \* positions of the stick
  Centre,       \* the stick let go
  Move,         \* what a tick with a stick does to a pose
  SnapTicks,    \* kSnapshotTicks: 2
  HistoryCap,   \* slots of History: 64
  SampleCap,    \* samples a ghost keeps: 32
  InputCap,     \* commands the server keeps, and how late they may be: 128
  Behind,       \* ticks a used command is kept: 8
  Recent,       \* commands of a packet: 4
  KeepButtons,  \* kKeepButtons: 6
  KeepStick,    \* kKeepStick: 30
  MaxAhead,     \* bound: ticks the client is ahead of the server, a second at most
  MaxTick,      \* bound: ticks
  MaxOdd        \* bound: pushes, cut snapshots, pawns lost or assigned

ASSUME PoseAssumption ==
  Origin \in Pose /\ Centre \in Stick /\ Move \in [Pose \X Stick -> Pose]
ASSUME PredictionLimits ==
  /\ {SnapTicks, HistoryCap, SampleCap, InputCap, Recent} \subseteq Nat \ {0}
  /\ {Behind, KeepButtons, KeepStick, MaxAhead, MaxTick, MaxOdd} \subseteq Nat
  /\ MaxAhead < HistoryCap /\ MaxAhead <= InputCap

VARIABLES
  tick,        \* World::Tick of the server
  pawn,        \* the account's pawn, id 0 when it is gone, and its pose
  input,       \* AccountInput: ByTick, Last and Missing
  packets,     \* command packets sent
  snaps,       \* snapshots sent
  latestTick,  \* World::LatestTick of the client, 0 without one
  ghost,       \* its pawn, id 0 when it has none, and Ghost::Buffer
  body,        \* the pose of its character
  sim,         \* SimTick, 0 before HaveSim
  history,     \* History, tick 0 for a slot that is not Valid
  reconciled,  \* LastReconciled, 0 before HaveReconciled
  frame,       \* "present" while packets are applied, "predict" after Reconcile
  odd,         \* bound: odd things still to happen
  steps,       \* history: what the server did at every tick
  made,        \* history: the command the client made for each tick
  inTime,      \* history: ticks whose command came before the server simulated them
  agreed       \* history: the last tick the two were known to agree on this pawn

pawnServerVars == <<tick, pawn, input, snaps, odd, steps, inTime>>
pawnClientVars == <<packets, latestTick, ghost, body, sim, history, reconciled, frame, made, agreed>>
predictionVars == <<pawnServerVars, pawnClientVars>>

\* PlayerCommand; the view goes where the stick goes.
Command == [stick : Stick, fire : BOOLEAN]
Idle    == [stick |-> Centre, fire |-> FALSE]

NoPrediction == [tick |-> 0, command |-> Idle, pose |-> Origin, pawn |-> 0]
NoGhost      == [id |-> 0, samples |-> {}]

PredictionInit ==
  /\ tick = 0 /\ \E pose \in Pose : pawn = [id |-> 1, pose |-> pose]
  /\ input = [byTick |-> [t \in {} |-> Idle], last |-> Idle, missing |-> 0]
  /\ packets = {} /\ snaps = {}
  /\ latestTick = 0 /\ ghost = NoGhost /\ body = Origin /\ sim = 0
  /\ history = [slot \in 0..HistoryCap - 1 |-> NoPrediction]
  /\ reconciled = 0 /\ frame = "present"
  /\ odd = MaxOdd
  /\ steps = <<>> /\ made = [t \in {} |-> Idle] /\ inTime = {} /\ agreed = 0

\* The n latest of a set of ticks.
Latest(n, ticks) == {t \in ticks : Cardinality({u \in ticks : u > t}) < n}

Only(f, ticks) == [t \in DOMAIN f \cap ticks |-> f[t]]

-----------------------------------------------------------------------------
(* The server *)

\* A script gives the account a pawn (AssignPawn), in place of the one it has.
AssignPawn(pose) ==
  /\ odd > 0 /\ odd' = odd - 1
  /\ pawn' = [id |-> 1 + MaxOdd - odd', pose |-> pose]
  /\ UNCHANGED <<tick, input, snaps, steps, inTime, pawnClientVars>>

LosePawn ==
  /\ odd > 0 /\ odd' = odd - 1
  /\ pawn.id # 0 /\ pawn' = [pawn EXCEPT !.id = 0]
  /\ UNCHANGED <<tick, input, snaps, steps, inTime, pawnClientVars>>

\* IngestCommands.  What is far too late is dropped; a full buffer loses its earliest.
IngestCommands(packet) ==
  LET fresh == {t \in DOMAIN packet : t + InputCap >= tick}
      all   == DOMAIN input.byTick \cup fresh
      put   == [t \in all |-> IF t \in fresh THEN packet[t] ELSE input.byTick[t]]
  IN
  /\ input' = [input EXCEPT !.byTick = Only(put, Latest(InputCap, all))]
  /\ inTime' = inTime \cup {t \in DOMAIN packet : t > tick}
  /\ UNCHANGED <<tick, pawn, snaps, odd, steps, pawnClientVars>>

\* Mutant of Repeated: the trigger is held one tick longer.
Repeated_OneMore(command, missing) ==
  [stick |-> IF missing > KeepStick THEN Centre ELSE command.stick,
   fire  |-> command.fire /\ missing <= KeepButtons + 1]

\* A repeat goes stale: first the buttons, then the stick.
Repeated(command, missing) ==
  [stick |-> IF missing > KeepStick THEN Centre ELSE command.stick,
   fire  |-> command.fire /\ missing <= KeepButtons]

\* The command TakeCommand returns for a tick.
Taken(t) ==
  IF t \in DOMAIN input.byTick THEN input.byTick[t] ELSE Repeated(input.last, input.missing + 1)

\* Mutant of TakeCommand: a command is forgotten with the tick it was for.
TakeCommand_Forgets(t) ==
  input' = [byTick  |-> [u \in {} |-> Idle],
            last    |-> IF t \in DOMAIN input.byTick THEN input.byTick[t] ELSE input.last,
            missing |-> IF t \in DOMAIN input.byTick THEN 0 ELSE input.missing + 1]

\* What it leaves in the account's input.
TakeCommand(t) ==
  input' = [byTick  |-> Only(input.byTick, {u \in DOMAIN input.byTick : u + Behind >= t}),
            last    |-> IF t \in DOMAIN input.byTick THEN input.byTick[t] ELSE input.last,
            missing |-> IF t \in DOMAIN input.byTick THEN 0 ELSE input.missing + 1]

\* What the server did at a tick.
Step(command, pose, pushed) ==
  [id |-> pawn.id, command |-> command, pose |-> pose, pushed |-> pushed]

\* The snapshot of a tick.  It shows an earlier pose if the record did not fit.
Snapshot(t, pose, shown) == [tick |-> t, id |-> pawn.id, pose |-> shown, whole |-> shown = pose]

\* CaptureWorld, every SnapTicks.
CaptureWorld(t, pose, pushes) ==
  IF t % SnapTicks # 0
  THEN odd >= pushes /\ odd' = odd - pushes /\ UNCHANGED snaps
  ELSE \/ /\ odd >= pushes /\ odd' = odd - pushes
          /\ snaps' = snaps \cup {Snapshot(t, pose, pose)}
       \/ /\ odd > pushes /\ odd' = odd - pushes - 1
          /\ \E u \in DOMAIN steps :
               /\ steps[u].id = pawn.id /\ steps[u].pose # pose
               /\ snaps' = snaps \cup {Snapshot(t, pose, steps[u].pose)}

\* BeginStep, the physics step and what follows it, for a tick with the pawn and
\* for one without.
ServerStep ==
  /\ tick < MaxTick /\ tick' = tick + 1
  /\ \/ /\ pawn.id # 0
        /\ TakeCommand(tick + 1)
        /\ \E pose \in Pose :
             LET command == Taken(tick + 1)
                 pushed  == pose # Move[pawn.pose, command.stick]
             IN
             /\ pawn' = [pawn EXCEPT !.pose = pose]
             /\ steps' = Append(steps, Step(command, pose, pushed))
             /\ CaptureWorld(tick + 1, pose, IF pushed THEN 1 ELSE 0)
     \/ /\ pawn.id = 0
        /\ steps' = Append(steps, Step(Idle, pawn.pose, FALSE))
        /\ CaptureWorld(tick + 1, pawn.pose, 0)
        /\ UNCHANGED <<pawn, input>>
  /\ UNCHANGED <<inTime, pawnClientVars>>

-----------------------------------------------------------------------------
(* The client, once a frame *)

\* The n newest samples.
Newest(n, samples) == {s \in samples : s.tick \in Latest(n, {r.tick : r \in samples})}

\* ApplyPacket and PresentWorld.  The pawn's ghost goes with a snapshot that is
\* without it; another pawn's body is made as its prefab says.
ReceiveSnapshot(snap) ==
  /\ snap.tick > latestTick
  /\ latestTick' = snap.tick /\ frame' = "present"
  /\ \/ /\ snap.id = 0
        /\ ghost' = NoGhost /\ agreed' = 0 /\ UNCHANGED body
     \/ /\ snap.id # 0 /\ snap.id = ghost.id
        /\ ghost' = [ghost EXCEPT !.samples = Newest(SampleCap, @ \cup {snap})]
        /\ UNCHANGED <<body, agreed>>
     \/ /\ snap.id # 0 /\ snap.id # ghost.id
        /\ ghost' = [id |-> snap.id, samples |-> {snap}]
        /\ agreed' = 0 /\ body' = Origin
  /\ UNCHANGED <<pawnServerVars, packets, sim, history, reconciled, made>>

\* What History holds for a tick.
FindHistory(t) == history[t % HistoryCap].tick = t
Predicted(t)   == history[t % HistoryCap]

\* PredictLocal starts where the newest snapshot is; the body was made where the
\* frame's samples drew it.
StartPrediction ==
  /\ ghost.id # 0 /\ sim = 0 /\ frame' = "predict"
  /\ sim' = latestTick /\ reconciled' = latestTick
  /\ \E s \in ghost.samples : body' = s.pose
  /\ UNCHANGED <<pawnServerVars, packets, latestTick, ghost, history, made, agreed>>

\* The newest sample that is not ahead of the simulation.
Authority(s) ==
  /\ s \in ghost.samples /\ s.tick <= sim
  /\ \A r \in ghost.samples : r.tick <= sim => r.tick <= s.tick

\* Mutant of Replays: the replay asks what is pressed now.
Replays_Now(path, s) ==
  /\ path[s.tick] = s.pose
  /\ \A t \in s.tick + 1..sim : path[t] = Move[path[t - 1], Predicted(sim).command.stick]

\* The poses of a replay of the stored commands from a sample.
Replays(path, s) ==
  /\ path[s.tick] = s.pose
  /\ \A t \in s.tick + 1..sim : path[t] = Move[path[t - 1], Predicted(t).command.stick]

\* The body and the predictions are put where the replay says.
Correct(s) ==
  \E path \in [s.tick..sim -> Pose] :
    /\ Replays(path, s)
    /\ body' = path[sim]
    /\ history' = [slot \in DOMAIN history |->
         IF history[slot].tick < s.tick THEN history[slot]
         ELSE [history[slot] EXCEPT !.pose = path[history[slot].tick], !.pawn = ghost.id]]
    /\ agreed' = IF s.whole THEN s.tick ELSE 0

\* The body stays where it is.  Two that agree do so on this pawn only if it was the
\* one that was predicted.
Consent(s) ==
  /\ agreed' = IF s.whole /\ Predicted(s.tick).pawn = ghost.id THEN s.tick ELSE agreed
  /\ UNCHANGED <<body, history>>

\* Reconcile
Reconcile ==
  /\ ghost.id # 0 /\ sim # 0 /\ frame' = "predict"
  /\ \/ /\ \A s \in ghost.samples : s.tick > sim \/ s.tick <= reconciled
        /\ UNCHANGED <<reconciled, body, history, agreed>>
     \/ \E s \in ghost.samples :
          /\ Authority(s) /\ s.tick > reconciled
          /\ reconciled' = s.tick
          /\ \/ ~FindHistory(s.tick) /\ UNCHANGED <<body, history, agreed>>
             \/ FindHistory(s.tick) /\ Predicted(s.tick).pose = s.pose /\ Consent(s)
             \/ FindHistory(s.tick) /\ Predicted(s.tick).pose # s.pose /\ Correct(s)
  /\ UNCHANGED <<pawnServerVars, packets, latestTick, ghost, sim, made>>

\* The packet of SendRecent: the latest commands there are.
SendRecent(ring, t) ==
  LET found == {u \in 1..t : u + Recent > t /\ ring[u % HistoryCap].tick = u}
  IN  [u \in found |-> ring[u % HistoryCap].command]

\* One tick of PredictLocal's loop, as long as the clock is ahead of SimTick.
PredictTick(command) ==
  LET t    == sim + 1
      pose == Move[body, command.stick]
      ring == [history EXCEPT ![t % HistoryCap] =
                 [tick |-> t, command |-> command, pose |-> pose, pawn |-> ghost.id]]
  IN
  /\ frame = "predict" /\ sim < tick + MaxAhead /\ sim < MaxTick
  /\ sim' = t /\ body' = pose /\ history' = ring
  /\ packets' = packets \cup {SendRecent(ring, t)}
  /\ made' = [u \in DOMAIN made \cup {t} |-> IF u = t THEN command ELSE made[u]]
  /\ UNCHANGED <<pawnServerVars, latestTick, ghost, reconciled, frame, agreed>>

-----------------------------------------------------------------------------
PredictionNext ==
  \/ ServerStep \/ LosePawn \/ \E pose \in Pose : AssignPawn(pose)
  \/ \E packet \in packets : IngestCommands(packet)
  \/ \E snap \in snaps : ReceiveSnapshot(snap)
  \/ StartPrediction \/ Reconcile
  \/ \E command \in Command : PredictTick(command)

PredictionSpec == PredictionInit /\ [][PredictionNext]_predictionVars

-----------------------------------------------------------------------------
Tick  == 0..MaxTick
Pawn  == 0..MaxOdd + 1
Shot  == [tick : Tick, id : Pawn, pose : Pose, whole : BOOLEAN]
ByTick == UNION {[ticks -> Command] : ticks \in SUBSET Tick}

PredictionTypeOK ==
  /\ tick \in Tick /\ pawn \in [id : Pawn, pose : Pose]
  /\ input \in [byTick : ByTick, last : Command, missing : Tick]
  /\ Cardinality(DOMAIN input.byTick) <= InputCap
  /\ packets \subseteq ByTick /\ snaps \subseteq Shot
  /\ latestTick \in Tick /\ body \in Pose /\ sim \in Tick
  /\ ghost.id \in Pawn /\ ghost.samples \subseteq snaps
  /\ Cardinality(ghost.samples) <= SampleCap
  /\ history \in [0..HistoryCap - 1 -> [tick : Tick, command : Command, pose : Pose, pawn : Pawn]]
  /\ reconciled \in Tick /\ frame \in {"present", "predict"} /\ odd \in 0..MaxOdd
  /\ steps \in Seq([id : Pawn, command : Command, pose : Pose, pushed : BOOLEAN])
  /\ Len(steps) = tick
  /\ made \in ByTick /\ inTime \subseteq Tick /\ agreed \in Tick

\* The server simulated this pawn with the client's own stick, and nothing else moved it.
Followed(t) ==
  /\ t \in DOMAIN made
  /\ steps[t].id = ghost.id /\ ~steps[t].pushed /\ steps[t].command.stick = made[t].stick

\* "Both sides share one tick number": from a tick the two agreed on, every prediction
\* the client keeps is what the server makes of that tick, or made long ago, as long as
\* the server had the client's commands; whatever was corrected and replayed meanwhile.
\* So a client is corrected only for what it could not know.
Agrees ==
  agreed > 0 =>
    /\ body = Predicted(sim).pose
    /\ \A t \in agreed..tick :
         /\ t <= sim /\ FindHistory(t)
         /\ \A u \in agreed + 1..t : Followed(u)
         => Predicted(t).pose = steps[t].pose

\* "The buttons go after 100 ms, the stick after half a second": what a pawn is made
\* to do was asked for by its player within that many simulated ticks.
StaleStops ==
  \A t \in 1..tick :
    LET asked(what(_), keep) ==
          \E u \in DOMAIN made :
            /\ u <= t /\ what(made[u])
            /\ Cardinality({v \in u + 1..t : steps[v].id # 0}) <= keep
        fires(command)  == command.fire
        pushes(command) == command.stick = steps[t].command.stick
    IN  /\ steps[t].command.fire => asked(fires, KeepButtons)
        /\ steps[t].command.stick # Centre => asked(pushes, KeepStick)

\* A command that was there before its tick is the one the tick is simulated with,
\* whatever else the buffer dropped, and however often and late others came.
InTimeIsUsed ==
  \A t \in inTime : t <= tick /\ steps[t].id # 0 => steps[t].command = made[t]
=============================================================================
