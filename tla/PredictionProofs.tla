-------------------------- MODULE PredictionProofs --------------------------
(***************************************************************************)
(* Proofs about Prediction, for any poses, sticks, moves, capacities and   *)
(* losses: type correctness with the capacities of the input buffer and of *)
(* the ghost's samples; that a command that came in time is used; that a   *)
(* repeated one goes stale; and that what the client predicts from a tick  *)
(* both agreed on is what the server makes of it.                          *)
(***************************************************************************)
EXTENDS Prediction, FiniteSetTheorems, WellFoundedInduction, TLAPS

Slot == 0..HistoryCap - 1
Past == [id : Pawn, command : Command, pose : Pose, pushed : BOOLEAN]

\* What one function of commands says, the client said.
Told(f) == DOMAIN f \subseteq DOMAIN made /\ \A t \in DOMAIN f : f[t] = made[t]

ServerOK ==
  /\ tick \in Tick /\ odd \in 0..MaxOdd
  /\ pawn \in [id : Pawn, pose : Pose]
  /\ input \in [byTick : ByTick, last : Command, missing : Tick] /\ input.missing <= tick
  /\ Cardinality(DOMAIN input.byTick) <= InputCap

StepsOK == steps \in Seq(Past) /\ Len(steps) = tick

SnapsOK ==
  /\ snaps \subseteq Shot
  /\ \A s \in snaps : s.tick <= tick
  /\ \A r, s \in snaps : r.tick = s.tick => r = s

ClientOK ==
  /\ latestTick \in Tick /\ latestTick <= tick /\ body \in Pose
  /\ sim \in Tick /\ sim <= tick + MaxAhead /\ reconciled \in Tick
  /\ frame \in {"present", "predict"} /\ agreed \in Tick

GhostOK ==
  /\ ghost \in [id : Pawn, samples : SUBSET snaps]
  /\ Cardinality(ghost.samples) <= SampleCap

HistoryOK ==
  /\ history \in [Slot -> [tick : Tick, command : Command, pose : Pose, pawn : Pawn]]
  /\ \A slot \in Slot : history[slot].tick <= sim

\* What was made, what was sent of it, what the server has of it.
MadeOK ==
  /\ made \in ByTick /\ \A t \in DOMAIN made : 1 <= t /\ t <= sim
  /\ packets \subseteq ByTick
  /\ \A packet \in packets : Told(packet)
  /\ Told(input.byTick)
  /\ \A slot \in Slot :
       history[slot].tick # 0 =>
         history[slot].tick \in DOMAIN made /\ history[slot].command = made[history[slot].tick]

\* A command that came before its tick is still there.
Kept ==
  /\ inTime \subseteq DOMAIN made
  /\ \A t \in inTime : t > tick => t \in DOMAIN input.byTick

IInv ==
  /\ ServerOK /\ StepsOK /\ SnapsOK /\ ClientOK /\ GhostOK /\ HistoryOK /\ MadeOK
  /\ Kept /\ InTimeIsUsed

-----------------------------------------------------------------------------
(* Operators *)

\* A tick that fewer than n ticks can follow is among the n latest.
LEMMA LatestKeeps ==
  ASSUME NEW n \in Nat, NEW S \in SUBSET Nat, NEW high \in Nat, \A u \in S : u <= high,
         NEW t \in S, high - t < n
  PROVE  t \in Latest(n, S)
<1> DEFINE later == {u \in S : u > t}
<1>1. later \in SUBSET (t + 1..high)
  <2>1. ASSUME NEW u \in later
        PROVE  u \in t + 1..high
    <3>1. u \in Nat /\ t \in Nat /\ u > t /\ u <= high
      OBVIOUS
    <3> QED
      BY <3>1
  <2> QED
    BY <2>1
<1>2. IsFiniteSet(t + 1..high) /\ Cardinality(t + 1..high) = IF t + 1 > high THEN 0 ELSE high - (t + 1) + 1
  BY FS_Interval
<1>3. Cardinality(later) <= Cardinality(t + 1..high) /\ Cardinality(later) \in Nat
  BY <1>1, <1>2, FS_Subset, FS_CardinalityType
<1>4. Cardinality(t + 1..high) < n
  BY <1>2
<1>5. Cardinality(later) < n
  BY <1>2, <1>3, <1>4
<1> QED
  BY <1>5 DEF Latest

\* The n latest are n at most: how many follow each of them tells them apart.
LEMMA LatestFew ==
  ASSUME NEW n \in Nat, NEW S \in SUBSET Nat, IsFiniteSet(S)
  PROVE  IsFiniteSet(Latest(n, S)) /\ Cardinality(Latest(n, S)) <= n
<1> DEFINE later(t) == {u \in S : u > t}
           f == [t \in Latest(n, S) |-> Cardinality(later(t))]
<1>1. \A t \in S : IsFiniteSet(later(t)) /\ Cardinality(later(t)) \in Nat
  BY FS_Subset, FS_CardinalityType
<1>2. \A t \in Latest(n, S) : t \in S /\ Cardinality(later(t)) < n
  BY DEF Latest
<1>3. f \in [Latest(n, S) -> 0..n - 1]
  <2>1. ASSUME NEW t \in Latest(n, S)
        PROVE  Cardinality(later(t)) \in 0..n - 1
    <3>1. Cardinality(later(t)) \in Nat /\ Cardinality(later(t)) < n
      BY <1>1, <1>2
    <3> QED
      BY <3>1
  <2> QED
    BY <2>1
<1>4. ASSUME NEW t \in S, NEW u \in S, t < u
      PROVE  Cardinality(later(u)) < Cardinality(later(t))
  <2>1. later(u) \in SUBSET later(t) /\ u \in later(t) /\ u \notin later(u)
    <3>1. t \in Nat /\ u \in Nat /\ \A v \in S : v \in Nat
      OBVIOUS
    <3>2. \A v \in S : v > u => v > t
      BY <1>4, <3>1
    <3>3. later(u) \in SUBSET later(t)
      BY <3>2
    <3>4. u > t /\ ~(u > u)
      BY <1>4, <3>1
    <3> QED
      BY <3>3, <3>4
  <2>2. Cardinality(later(u)) <= Cardinality(later(t)) /\ Cardinality(later(u)) # Cardinality(later(t))
    BY <1>1, <2>1, FS_Subset
  <2> QED
    BY <1>1, <2>2
<1>5. ASSUME NEW t \in Latest(n, S), NEW u \in Latest(n, S), f[t] = f[u]
      PROVE  t = u
  <2>1. Cardinality(later(t)) = Cardinality(later(u)) /\ t \in S /\ u \in S
    BY <1>2, <1>5
  <2>2. ~(t < u) /\ ~(u < t)
    BY <1>1, <1>4, <2>1
  <2> QED
    BY <2>1, <2>2
<1>6. f \in Injection(Latest(n, S), 0..n - 1)
  BY <1>3, <1>5 DEF Injection, IsInjective
<1>7. IsFiniteSet(0..n - 1) /\ Cardinality(0..n - 1) = n
  BY FS_Interval
<1>8. IsFiniteSet(Latest(n, S)) /\ Cardinality(Latest(n, S)) <= Cardinality(0..n - 1)
  BY <1>6, <1>7, FS_Injection
<1> QED
  BY <1>7, <1>8

LEMMA TicksFinite ==
  ASSUME NEW S \in SUBSET Tick
  PROVE  S \in SUBSET Nat /\ IsFiniteSet(S)
<1>1. MaxTick \in Nat
  BY PredictionLimits
<1>2. IsFiniteSet(0..MaxTick)
  BY <1>1, FS_Interval
<1>3. S \in SUBSET (0..MaxTick)
  BY DEF Tick
<1>4. IsFiniteSet(S)
  BY <1>2, <1>3, FS_Subset
<1> QED
  BY <1>1, <1>3, <1>4

LEMMA ByTickIs ==
  ASSUME NEW f
  PROVE  f \in ByTick <=> \E ticks \in SUBSET Tick : f \in [ticks -> Command]
  BY DEF ByTick

LEMMA ByTickDomain ==
  ASSUME NEW f \in ByTick
  PROVE  /\ DOMAIN f \in SUBSET Tick /\ f \in [DOMAIN f -> Command]
         /\ \A t \in DOMAIN f : f[t] \in Command
  BY ByTickIs

\* What is left of a function of commands.
LEMMA OnlyIs ==
  ASSUME NEW f \in ByTick, NEW ticks
  PROVE  /\ Only(f, ticks) \in ByTick
         /\ DOMAIN Only(f, ticks) = DOMAIN f \cap ticks
         /\ \A t \in DOMAIN f \cap ticks : Only(f, ticks)[t] = f[t]
<1>1. /\ DOMAIN Only(f, ticks) = DOMAIN f \cap ticks
      /\ \A t \in DOMAIN f \cap ticks : Only(f, ticks)[t] = f[t]
  BY DEF Only
<1>2. Only(f, ticks) \in [DOMAIN f \cap ticks -> Command]
  BY ByTickDomain DEF Only
<1>3. DOMAIN f \cap ticks \in SUBSET Tick
  BY ByTickDomain
<1> QED
  BY <1>1, <1>2, <1>3, ByTickIs

LEMMA CommandTyped == Idle \in Command
  BY PoseAssumption DEF Idle, Command

LEMMA RepeatedTyped ==
  ASSUME NEW command \in Command, NEW missing \in Nat
  PROVE  Repeated(command, missing) \in Command
<1>1. command.stick \in Stick /\ command.fire \in BOOLEAN /\ Centre \in Stick
  BY PoseAssumption DEF Command
<1>2. (command.fire /\ missing <= KeepButtons) \in BOOLEAN
  OBVIOUS
<1>3. (IF missing > KeepStick THEN Centre ELSE command.stick) \in Stick
  BY <1>1
<1> QED
  BY <1>2, <1>3 DEF Repeated, Command

\* The limits, one by one.
LEMMA Limits ==
  /\ MaxTick \in Nat /\ MaxAhead \in Nat /\ MaxOdd \in Nat /\ Behind \in Nat
  /\ InputCap \in Nat \ {0} /\ SampleCap \in Nat \ {0} /\ HistoryCap \in Nat \ {0}
  /\ Recent \in Nat \ {0} /\ SnapTicks \in Nat \ {0}
  /\ MaxAhead <= InputCap /\ MaxAhead < HistoryCap
  BY PredictionLimits

\* The newest samples are few, and some of those there were.
LEMMA NewestFew ==
  ASSUME NEW n \in Nat, NEW samples, \A s \in samples : s.tick \in Tick,
         \A r, s \in samples : r.tick = s.tick => r = s
  PROVE  Newest(n, samples) \in SUBSET samples /\ Cardinality(Newest(n, samples)) <= n
<1> DEFINE ticks == {r.tick : r \in samples}
           f == [s \in Newest(n, samples) |-> s.tick]
<1>1. ticks \in SUBSET Tick
  OBVIOUS
<1>2. ticks \in SUBSET Nat /\ IsFiniteSet(ticks)
  BY <1>1, TicksFinite
<1>3. IsFiniteSet(Latest(n, ticks)) /\ Cardinality(Latest(n, ticks)) <= n
  BY <1>2, LatestFew
<1>4. Newest(n, samples) \in SUBSET samples
  BY DEF Newest
<1>5. f \in [Newest(n, samples) -> Latest(n, ticks)]
  BY DEF Newest
<1>6. \A r, s \in Newest(n, samples) : f[r] = f[s] => r = s
  BY <1>4
<1>7. f \in Injection(Newest(n, samples), Latest(n, ticks))
  BY <1>5, <1>6 DEF Injection, IsInjective
<1>8. IsFiniteSet(Newest(n, samples)) /\ Cardinality(Newest(n, samples)) <= Cardinality(Latest(n, ticks))
  BY <1>3, <1>7, FS_Injection
<1>9. Cardinality(Newest(n, samples)) \in Nat /\ Cardinality(Latest(n, ticks)) \in Nat
  BY <1>3, <1>8, FS_CardinalityType
<1> QED
  BY <1>3, <1>4, <1>8, <1>9

LEMMA StepTyped ==
  ASSUME NEW command \in Command, NEW pose \in Pose, NEW pushed \in BOOLEAN, pawn.id \in Pawn
  PROVE  Step(command, pose, pushed) \in Past
  BY DEF Step, Past

\* What Init says of the functions and sets it starts with.
LEMMA InitInvariant ==
  ASSUME PredictionInit
  PROVE  IInv
<1> DEFINE none == [t \in {} |-> Idle]
<1>1. none \in ByTick /\ DOMAIN none = {}
  <2>1. none \in [{} -> Command]
    OBVIOUS
  <2> QED
    BY <2>1, ByTickIs
<1>2. input = [byTick |-> none, last |-> Idle, missing |-> 0] /\ made = none
  BY DEF PredictionInit
<1> HIDE DEF none
<1>3. 0 \in Tick /\ 0 \in Pawn /\ 1 \in Pawn /\ MaxOdd \in 0..MaxOdd
  BY Limits DEF Tick, Pawn
<1>4. Idle \in Command /\ Origin \in Pose
  BY CommandTyped, PoseAssumption
<1>5. Cardinality(DOMAIN input.byTick) <= InputCap
  BY <1>1, <1>2, FS_EmptySet, Limits
<1>6. ServerOK
  <2>1. pawn \in [id : Pawn, pose : Pose]
    BY <1>3 DEF PredictionInit
  <2>2. input \in [byTick : ByTick, last : Command, missing : Tick] /\ input.missing <= tick
    BY <1>1, <1>2, <1>3, <1>4 DEF PredictionInit
  <2>3. tick \in Tick /\ odd \in 0..MaxOdd
    BY <1>3 DEF PredictionInit
  <2> QED
    BY <1>5, <2>1, <2>2, <2>3 DEF ServerOK
<1>7. StepsOK /\ SnapsOK
  BY DEF PredictionInit, StepsOK, SnapsOK
<1>8. ClientOK
  BY <1>3, <1>4, Limits DEF PredictionInit, ClientOK
<1>9. GhostOK
  <2>1. ghost = [id |-> 0, samples |-> {}] /\ snaps = {}
    BY DEF PredictionInit, NoGhost
  <2> QED
    BY <1>3, <2>1, FS_EmptySet, Limits DEF GhostOK
<1>10. history = [slot \in Slot |-> NoPrediction] /\ NoPrediction.tick = 0
  BY DEF PredictionInit, Slot, NoPrediction
<1>11. HistoryOK
  <2>1. NoPrediction \in [tick : Tick, command : Command, pose : Pose, pawn : Pawn]
    BY <1>3, <1>4 DEF NoPrediction
  <2> HIDE DEF NoPrediction
  <2>2. history \in [Slot -> [tick : Tick, command : Command, pose : Pose, pawn : Pawn]]
    BY <1>10, <2>1
  <2>3. \A slot \in Slot : history[slot].tick = 0
    BY <1>10
  <2>4. sim = 0
    BY DEF PredictionInit
  <2> QED
    BY <2>2, <2>3, <2>4 DEF HistoryOK
<1>12. MadeOK
  <2>1. made = none /\ input.byTick = none
    BY <1>2
  <2>2. packets = {}
    BY DEF PredictionInit
  <2>3. \A slot \in Slot : history[slot].tick = 0
    BY <1>10
  <2> QED
    BY <1>1, <2>1, <2>2, <2>3 DEF MadeOK, Told
<1>13. Kept /\ InTimeIsUsed
  BY DEF PredictionInit, Kept, InTimeIsUsed
<1> QED
  BY <1>6, <1>7, <1>8, <1>9, <1>11, <1>12, <1>13 DEF IInv

-----------------------------------------------------------------------------
(* The server's actions *)

LEMMA AssignPawnKeeps ==
  ASSUME IInv, NEW pose \in Pose, AssignPawn(pose)
  PROVE  IInv'
<1>1. odd \in 0..MaxOdd /\ odd > 0 /\ odd' = odd - 1 /\ MaxOdd \in Nat
  BY Limits DEF AssignPawn, IInv, ServerOK
<1>2. 1 + MaxOdd - odd' \in Pawn /\ odd' \in 0..MaxOdd
  BY <1>1 DEF Pawn
<1>3. pawn' = [id |-> 1 + MaxOdd - odd', pose |-> pose]
  BY DEF AssignPawn
<1>4. UNCHANGED <<tick, input, snaps, steps, inTime, pawnClientVars>>
  BY DEF AssignPawn
<1>5. ServerOK'
  BY <1>2, <1>3, <1>4 DEF IInv, ServerOK
<1>6. StepsOK' /\ SnapsOK' /\ ClientOK' /\ GhostOK' /\ HistoryOK'
  BY <1>4 DEF IInv, StepsOK, SnapsOK, ClientOK, GhostOK, HistoryOK, pawnClientVars
<1>7. MadeOK' /\ Kept' /\ InTimeIsUsed'
  BY <1>4 DEF IInv, MadeOK, Told, Kept, InTimeIsUsed, pawnClientVars
<1> QED
  BY <1>5, <1>6, <1>7 DEF IInv

LEMMA LosePawnKeeps ==
  ASSUME IInv, LosePawn
  PROVE  IInv'
<1>1. odd \in 0..MaxOdd /\ odd > 0 /\ odd' = odd - 1 /\ MaxOdd \in Nat
  BY Limits DEF LosePawn, IInv, ServerOK
<1>2. 0 \in Pawn /\ odd' \in 0..MaxOdd
  BY <1>1 DEF Pawn
<1>3. pawn' = [pawn EXCEPT !.id = 0]
  BY DEF LosePawn
<1>4. UNCHANGED <<tick, input, snaps, steps, inTime, pawnClientVars>>
  BY DEF LosePawn
<1>5. ServerOK'
  BY <1>2, <1>3, <1>4 DEF IInv, ServerOK
<1>6. StepsOK' /\ SnapsOK' /\ ClientOK' /\ GhostOK' /\ HistoryOK'
  BY <1>4 DEF IInv, StepsOK, SnapsOK, ClientOK, GhostOK, HistoryOK, pawnClientVars
<1>7. MadeOK' /\ Kept' /\ InTimeIsUsed'
  BY <1>4 DEF IInv, MadeOK, Told, Kept, InTimeIsUsed, pawnClientVars
<1> QED
  BY <1>5, <1>6, <1>7 DEF IInv

\* A full buffer loses only what the client is too far ahead to have sent: a command
\* for a tick to come is among the latest.
LEMMA IngestCommandsKeeps ==
  ASSUME IInv, NEW packet \in packets, IngestCommands(packet)
  PROVE  IInv'
<1> DEFINE fresh == {t \in DOMAIN packet : t + InputCap >= tick}
           all   == DOMAIN input.byTick \cup fresh
           put   == [t \in all |-> IF t \in fresh THEN packet[t] ELSE input.byTick[t]]
           kept  == Latest(InputCap, all)
<1>1. /\ input' = [input EXCEPT !.byTick = Only(put, kept)]
      /\ inTime' = inTime \cup {t \in DOMAIN packet : t > tick}
      /\ UNCHANGED <<tick, pawn, snaps, odd, steps, pawnClientVars>>
  BY DEF IngestCommands
<1>2. /\ packet \in ByTick /\ Told(packet)
      /\ input.byTick \in ByTick /\ Told(input.byTick)
      /\ made \in ByTick /\ \A t \in DOMAIN made : 1 <= t /\ t <= sim
      /\ tick \in Tick /\ sim \in Tick /\ sim <= tick + MaxAhead
  BY DEF IInv, MadeOK, ServerOK, ClientOK
<1>3. /\ tick \in Nat /\ sim \in Nat /\ InputCap \in Nat \ {0} /\ MaxAhead \in Nat
      /\ MaxAhead <= InputCap
  BY <1>2, Limits DEF Tick
<1>4. DOMAIN made \in SUBSET Nat
  BY <1>2, ByTickDomain, TicksFinite
<1>5. /\ all \in SUBSET DOMAIN made /\ fresh \in SUBSET DOMAIN packet
      /\ DOMAIN packet \in SUBSET Tick /\ DOMAIN input.byTick \in SUBSET Tick
  BY <1>2, ByTickDomain DEF Told
<1>6. all \in SUBSET Tick /\ all \in SUBSET Nat /\ IsFiniteSet(all)
  <2>1. all \in SUBSET Tick
    BY <1>5
  <2> QED
    BY <2>1, TicksFinite
<1>7. \A t \in all : put[t] = made[t] /\ put[t] \in Command
  BY <1>2, <1>5, ByTickDomain DEF Told
<1>8. DOMAIN put = all /\ put \in ByTick
  <2>1. put \in [all -> Command]
    BY <1>7
  <2> QED
    BY <1>6, <2>1, ByTickIs
<1>9. \A t \in DOMAIN packet : t > tick => t \in fresh
  BY <1>3, <1>5 DEF Tick
<1> HIDE DEF put, fresh
<1>10. kept \in SUBSET all /\ Cardinality(kept) <= InputCap
  BY <1>3, <1>6, LatestFew DEF Latest
<1>11. \A t \in all : t > tick => t \in kept
  <2> SUFFICES ASSUME NEW t \in all, t > tick
               PROVE  t \in kept
    OBVIOUS
  <2>1. \A u \in all : u <= tick + MaxAhead
    <3> SUFFICES ASSUME NEW u \in all
                 PROVE  u <= tick + MaxAhead
      OBVIOUS
    <3>1. u \in DOMAIN made /\ u \in Nat
      BY <1>5, <1>6
    <3>2. u <= sim /\ sim <= tick + MaxAhead
      BY <1>2, <3>1
    <3> QED
      BY <1>3, <3>1, <3>2
  <2>2. t \in Nat /\ tick + MaxAhead \in Nat /\ (tick + MaxAhead) - t < InputCap
    BY <1>3, <1>6
  <2> QED
    BY <1>3, <1>6, <2>1, <2>2, LatestKeeps
<1>12. /\ Only(put, kept) \in ByTick /\ DOMAIN Only(put, kept) = kept
       /\ \A t \in kept : Only(put, kept)[t] = made[t]
  <2> HIDE DEF kept, all
  <2>1. all \cap kept = kept
    BY <1>10
  <2>2. /\ Only(put, kept) \in ByTick
        /\ DOMAIN Only(put, kept) = DOMAIN put \cap kept
        /\ \A t \in DOMAIN put \cap kept : Only(put, kept)[t] = put[t]
    BY <1>8, OnlyIs
  <2>3. \A t \in kept : put[t] = made[t]
    BY <1>7, <1>10
  <2> QED
    BY <1>8, <2>1, <2>2, <2>3
<1>13. input \in [byTick : ByTick, last : Command, missing : Tick]
  BY DEF IInv, ServerOK
<1>14. input'.byTick = Only(put, kept) /\ input'.missing = input.missing
       /\ input' \in [byTick : ByTick, last : Command, missing : Tick]
  BY <1>1, <1>12, <1>13
<1> HIDE DEF kept, all
<1>15. ServerOK'
  BY <1>1, <1>10, <1>12, <1>14 DEF IInv, ServerOK
<1>16. StepsOK' /\ SnapsOK' /\ ClientOK' /\ GhostOK' /\ HistoryOK'
  BY <1>1 DEF IInv, StepsOK, SnapsOK, ClientOK, GhostOK, HistoryOK, pawnClientVars
<1>17. MadeOK'
  <2>1. Told(input.byTick)'
    BY <1>1, <1>5, <1>10, <1>12, <1>14 DEF Told, pawnClientVars
  <2> QED
    BY <1>1, <2>1 DEF IInv, MadeOK, Told, pawnClientVars
<1>18. Kept'
  <2>1. inTime' \subseteq DOMAIN made /\ made' = made /\ tick' = tick
    BY <1>1, <1>2 DEF IInv, Kept, Told, pawnClientVars
  <2>2. \A t \in inTime' : t > tick => t \in all
    BY <1>1, <1>9 DEF IInv, Kept, all
  <2> QED
    BY <1>11, <1>12, <1>14, <2>1, <2>2 DEF Kept
<1>19. InTimeIsUsed'
  <2> SUFFICES ASSUME NEW t \in inTime', t <= tick, steps[t].id # 0
               PROVE  steps[t].command = made[t]
    BY <1>1 DEF InTimeIsUsed, pawnClientVars
  <2>1. t \in inTime
    <3>1. t \in inTime \/ (t \in DOMAIN packet /\ t > tick)
      BY <1>1
    <3>2. t \in DOMAIN packet => t \in Nat
      BY <1>5, TicksFinite
    <3> QED
      BY <1>3, <3>1, <3>2
  <2> QED
    BY <2>1 DEF IInv, InTimeIsUsed
<1> QED
  BY <1>15, <1>16, <1>17, <1>18, <1>19 DEF IInv

\* The snapshot of a tick is of that tick, and shows a pose the pawn had.
LEMMA CaptureWorldTyped ==
  ASSUME ServerOK, StepsOK, SnapsOK, tick < MaxTick,
         NEW pose \in Pose, NEW pushes \in {0, 1}, CaptureWorld(tick + 1, pose, pushes)
  PROVE  /\ odd' \in 0..MaxOdd
         /\ snaps \subseteq snaps'
         /\ \A s \in snaps' : s \in snaps \/ (s \in Shot /\ s.tick = tick + 1)
         /\ \A r, s \in snaps' : r \notin snaps /\ s \notin snaps => r = s
<1>1. tick + 1 \in Tick /\ tick \in Nat /\ MaxOdd \in Nat /\ odd \in 0..MaxOdd
  BY Limits DEF ServerOK, Tick
<1>2. \A shown \in Pose : /\ Snapshot(tick + 1, pose, shown) \in Shot
                          /\ Snapshot(tick + 1, pose, shown).tick = tick + 1
  <2> SUFFICES ASSUME NEW shown \in Pose
               PROVE  /\ Snapshot(tick + 1, pose, shown) \in Shot
                      /\ Snapshot(tick + 1, pose, shown).tick = tick + 1
    OBVIOUS
  <2>1. pawn.id \in Pawn /\ (shown = pose) \in BOOLEAN
    BY DEF ServerOK
  <2> QED
    BY <1>1, <2>1 DEF Snapshot, Shot
<1>3. \A u \in DOMAIN steps : steps[u].pose \in Pose
  <2> SUFFICES ASSUME NEW u \in DOMAIN steps
               PROVE  steps[u].pose \in Pose
    OBVIOUS
  <2>1. steps[u] \in Past
    BY DEF StepsOK
  <2> QED
    BY <2>1 DEF Past
<1>4. \/ odd >= pushes /\ odd' = odd - pushes /\ snaps' = snaps
      \/ /\ odd >= pushes /\ odd' = odd - pushes
         /\ \E shown \in Pose : snaps' = snaps \cup {Snapshot(tick + 1, pose, shown)}
      \/ /\ odd > pushes /\ odd' = odd - pushes - 1
         /\ \E shown \in Pose : snaps' = snaps \cup {Snapshot(tick + 1, pose, shown)}
  BY <1>3 DEF CaptureWorld
<1>5. odd' \in 0..MaxOdd
  BY <1>1, <1>4
<1>6. CASE snaps' = snaps
  BY <1>5, <1>6
<1>7. CASE \E shown \in Pose : snaps' = snaps \cup {Snapshot(tick + 1, pose, shown)}
  <2> PICK shown \in Pose : snaps' = snaps \cup {Snapshot(tick + 1, pose, shown)}
    BY <1>7
  <2> QED
    BY <1>2, <1>5
<1> QED
  BY <1>4, <1>6, <1>7

\* What a tick leaves of the buffer: all that is for later.
LEMMA TakeCommandTyped ==
  ASSUME ServerOK, MadeOK, tick < MaxTick, TakeCommand(tick + 1)
  PROVE  /\ input' \in [byTick : ByTick, last : Command, missing : Tick]
         /\ input'.missing <= tick + 1
         /\ DOMAIN input'.byTick \in SUBSET DOMAIN input.byTick
         /\ \A t \in DOMAIN input'.byTick : input'.byTick[t] = input.byTick[t]
         /\ \A t \in DOMAIN input.byTick : t > tick + 1 => t \in DOMAIN input'.byTick
         /\ Cardinality(DOMAIN input'.byTick) <= InputCap
<1> DEFINE later == {u \in DOMAIN input.byTick : u + Behind >= tick + 1}
<1>1. /\ input \in [byTick : ByTick, last : Command, missing : Tick] /\ input.missing <= tick
      /\ tick \in Nat /\ tick + 1 \in Tick /\ Behind \in Nat /\ MaxTick \in Nat
      /\ input.missing \in Nat /\ Cardinality(DOMAIN input.byTick) <= InputCap
      /\ InputCap \in Nat
  BY Limits DEF ServerOK, Tick
<1>2. input' = [byTick  |-> Only(input.byTick, later),
                last    |-> IF tick + 1 \in DOMAIN input.byTick THEN input.byTick[tick + 1] ELSE input.last,
                missing |-> IF tick + 1 \in DOMAIN input.byTick THEN 0 ELSE input.missing + 1]
  BY DEF TakeCommand
<1>3. input.byTick \in ByTick /\ input.last \in Command
  BY <1>1
<1>4. DOMAIN input.byTick \in SUBSET Nat /\ IsFiniteSet(DOMAIN input.byTick)
  BY <1>3, ByTickDomain, TicksFinite
<1>5. /\ Only(input.byTick, later) \in ByTick
      /\ DOMAIN Only(input.byTick, later) = DOMAIN input.byTick \cap later
      /\ \A t \in DOMAIN input.byTick \cap later : Only(input.byTick, later)[t] = input.byTick[t]
  BY <1>3, OnlyIs
<1>6. \A t \in DOMAIN input.byTick : t > tick + 1 => t \in later
  BY <1>1, <1>4
<1>7. (IF tick + 1 \in DOMAIN input.byTick THEN input.byTick[tick + 1] ELSE input.last) \in Command
  BY <1>3, ByTickDomain
<1>8. /\ (IF tick + 1 \in DOMAIN input.byTick THEN 0 ELSE input.missing + 1) \in Tick
      /\ (IF tick + 1 \in DOMAIN input.byTick THEN 0 ELSE input.missing + 1) <= tick + 1
  BY <1>1 DEF Tick
<1> HIDE DEF later
<1>9. DOMAIN input'.byTick = DOMAIN input.byTick \cap later
  BY <1>2, <1>5
<1>10. Cardinality(DOMAIN input'.byTick) <= InputCap
  <2>1. Cardinality(DOMAIN input'.byTick) <= Cardinality(DOMAIN input.byTick)
    BY <1>4, <1>9, FS_Subset
  <2>2. Cardinality(DOMAIN input'.byTick) \in Nat /\ Cardinality(DOMAIN input.byTick) \in Nat
    BY <1>4, <1>9, FS_Subset, FS_CardinalityType
  <2> QED
    BY <1>1, <2>1, <2>2
<1>11. input' \in [byTick : ByTick, last : Command, missing : Tick] /\ input'.missing <= tick + 1
  BY <1>2, <1>5, <1>7, <1>8
<1>12. \A t \in DOMAIN input'.byTick : input'.byTick[t] = input.byTick[t]
  BY <1>2, <1>5
<1> QED
  BY <1>6, <1>9, <1>10, <1>11, <1>12

LEMMA TakenTyped ==
  ASSUME ServerOK, tick < MaxTick
  PROVE  Taken(tick + 1) \in Command
<1>1. input.byTick \in ByTick /\ input.last \in Command /\ input.missing + 1 \in Nat
  BY Limits DEF ServerOK, Tick
<1>2. Repeated(input.last, input.missing + 1) \in Command
  BY <1>1, RepeatedTyped
<1> QED
  BY <1>1, <1>2, ByTickDomain DEF Taken

\* What a tick does to the server, with a pawn and without one.
LEMMA ServerStepIs ==
  ASSUME IInv, ServerStep
  PROVE  \E last \in Past :
           /\ tick < MaxTick /\ tick' = tick + 1 /\ steps' = Append(steps, last)
           /\ UNCHANGED inTime /\ UNCHANGED pawnClientVars
           /\ \E pose \in Pose, pushes \in {0, 1} : CaptureWorld(tick + 1, pose, pushes)
           /\ pawn' \in [id : Pawn, pose : Pose]
           /\ \/ TakeCommand(tick + 1) /\ last.command = Taken(tick + 1)
              \/ input' = input /\ last.id = 0 /\ last.command = Idle
<1>1. tick < MaxTick /\ tick' = tick + 1 /\ UNCHANGED inTime /\ UNCHANGED pawnClientVars
  BY DEF ServerStep
<1>2. pawn \in [id : Pawn, pose : Pose]
  BY DEF IInv, ServerOK
<1>3. CASE pawn.id # 0
  <2>1. TakeCommand(tick + 1)
    BY <1>3 DEF ServerStep
  <2> DEFINE command == Taken(tick + 1)
  <2>2. PICK pose \in Pose :
          LET pushed == pose # Move[pawn.pose, command.stick]
          IN  /\ pawn' = [pawn EXCEPT !.pose = pose]
              /\ steps' = Append(steps, Step(command, pose, pushed))
              /\ CaptureWorld(tick + 1, pose, IF pushed THEN 1 ELSE 0)
    BY <1>3 DEF ServerStep
  <2> DEFINE pushed == pose # Move[pawn.pose, command.stick]
             last   == Step(command, pose, pushed)
  <2>3. command \in Command /\ pushed \in BOOLEAN
    BY <1>1, TakenTyped DEF IInv
  <2> HIDE DEF command, pushed
  <2>4. last \in Past /\ last.command = command
    BY <1>2, <2>3, StepTyped DEF Step
  <2>5. (IF pushed THEN 1 ELSE 0) \in {0, 1}
    OBVIOUS
  <2>6. /\ pawn' = [pawn EXCEPT !.pose = pose] /\ steps' = Append(steps, last)
        /\ CaptureWorld(tick + 1, pose, IF pushed THEN 1 ELSE 0)
    BY <2>2 DEF pushed
  <2>7. pawn' \in [id : Pawn, pose : Pose]
    BY <1>2, <2>6
  <2> HIDE DEF last
  <2> QED
    BY <1>1, <2>1, <2>4, <2>5, <2>6, <2>7 DEF command
<1>4. CASE pawn.id = 0
  <2> DEFINE last == Step(Idle, pawn.pose, FALSE)
  <2>1. /\ steps' = Append(steps, last) /\ CaptureWorld(tick + 1, pawn.pose, 0)
        /\ pawn' = pawn /\ input' = input
    BY <1>4 DEF ServerStep
  <2>2. last \in Past
    BY <1>2, CommandTyped, StepTyped
  <2>3. last.id = 0 /\ last.command = Idle
    BY <1>4 DEF Step
  <2>4. pawn.pose \in Pose /\ 0 \in {0, 1}
    BY <1>2
  <2> HIDE DEF last
  <2> QED
    BY <1>1, <1>2, <2>1, <2>2, <2>3, <2>4
<1> QED
  BY <1>3, <1>4

LEMMA ServerStepKeeps ==
  ASSUME IInv, ServerStep
  PROVE  IInv'
<1>1. PICK last \in Past :
        /\ tick < MaxTick /\ tick' = tick + 1 /\ steps' = Append(steps, last)
        /\ UNCHANGED inTime /\ UNCHANGED pawnClientVars
        /\ \E pose \in Pose, pushes \in {0, 1} : CaptureWorld(tick + 1, pose, pushes)
        /\ pawn' \in [id : Pawn, pose : Pose]
        /\ \/ TakeCommand(tick + 1) /\ last.command = Taken(tick + 1)
           \/ input' = input /\ last.id = 0
  BY ServerStepIs
<1>2. ServerOK /\ StepsOK /\ SnapsOK /\ MadeOK /\ Kept /\ InTimeIsUsed
  BY DEF IInv
<1>3. tick \in Nat /\ tick' \in Tick /\ Len(steps) = tick /\ steps \in Seq(Past)
  BY <1>1, <1>2, Limits DEF ServerOK, StepsOK, Tick
<1>4. /\ odd' \in 0..MaxOdd /\ snaps \subseteq snaps'
      /\ \A s \in snaps' : s \in snaps \/ (s \in Shot /\ s.tick = tick + 1)
      /\ \A r, s \in snaps' : r \notin snaps /\ s \notin snaps => r = s
  <2> PICK pose \in Pose, pushes \in {0, 1} : CaptureWorld(tick + 1, pose, pushes)
    BY <1>1
  <2> QED
    BY <1>1, <1>2, CaptureWorldTyped
<1>5. /\ input' \in [byTick : ByTick, last : Command, missing : Tick]
      /\ input'.missing <= tick + 1
      /\ DOMAIN input'.byTick \in SUBSET DOMAIN input.byTick
      /\ \A t \in DOMAIN input'.byTick : input'.byTick[t] = input.byTick[t]
      /\ \A t \in DOMAIN input.byTick : t > tick + 1 => t \in DOMAIN input'.byTick
      /\ Cardinality(DOMAIN input'.byTick) <= InputCap
  <2>1. CASE TakeCommand(tick + 1)
    BY <1>1, <1>2, <2>1, TakeCommandTyped
  <2>2. CASE input' = input
    <3>1. input.missing <= tick => input.missing <= tick + 1
      BY <1>2, <1>3 DEF ServerOK, Tick
    <3> QED
      BY <1>2, <2>2, <3>1 DEF ServerOK
  <2> QED
    BY <1>1, <2>1, <2>2
<1>6. ServerOK'
  BY <1>1, <1>3, <1>4, <1>5 DEF ServerOK
<1>7. /\ Len(steps') = tick + 1 /\ steps' \in Seq(Past)
      /\ \A t \in 1..tick : steps'[t] = steps[t]
      /\ steps'[tick + 1] = last
  BY <1>1, <1>3
<1>8. StepsOK'
  BY <1>1, <1>7 DEF StepsOK
<1>9. SnapsOK'
  <2>1. snaps' \subseteq Shot
    BY <1>2, <1>4 DEF SnapsOK
  <2>2. \A s \in snaps : s.tick \in Nat /\ s.tick <= tick
    BY <1>2, Limits DEF SnapsOK, Shot, Tick
  <2>3. \A s \in snaps' : s.tick <= tick + 1
    BY <1>3, <1>4, <2>2
  <2>4. \A r, s \in snaps' : r.tick = s.tick => r = s
    <3> SUFFICES ASSUME NEW r \in snaps', NEW s \in snaps', r.tick = s.tick
                 PROVE  r = s
      OBVIOUS
    <3>1. CASE r \in snaps /\ s \in snaps
      BY <1>2, <3>1 DEF SnapsOK
    <3>2. CASE r \notin snaps /\ s \notin snaps
      BY <1>4, <3>2
    <3>3. (r \in snaps) <=> (s \in snaps)
      BY <1>3, <1>4, <2>2
    <3> QED
      BY <3>1, <3>2, <3>3
  <2> QED
    BY <1>1, <2>1, <2>3, <2>4 DEF SnapsOK
<1>10. ClientOK'
  <2>1. latestTick \in Nat /\ sim \in Nat /\ MaxAhead \in Nat
    BY Limits DEF IInv, ClientOK, Tick
  <2> QED
    BY <1>1, <1>3, <2>1 DEF IInv, ClientOK, pawnClientVars
<1>11. GhostOK'
  BY <1>1, <1>4 DEF IInv, GhostOK, pawnClientVars
<1>12. HistoryOK'
  BY <1>1 DEF IInv, HistoryOK, pawnClientVars
<1>13. MadeOK'
  <2>1. Told(input.byTick)'
    BY <1>1, <1>2, <1>5 DEF MadeOK, Told, pawnClientVars
  <2> QED
    BY <1>1, <1>2, <2>1 DEF MadeOK, Told, pawnClientVars
<1>14. \A t \in inTime : t \in DOMAIN made /\ t \in Nat
  <2>1. made \in ByTick /\ inTime \subseteq DOMAIN made
    BY <1>2 DEF MadeOK, Kept
  <2> QED
    BY <2>1, ByTickDomain, TicksFinite
<1>15. Kept'
  <2> SUFFICES ASSUME NEW t \in inTime, t > tick + 1
               PROVE  t \in DOMAIN input'.byTick
    BY <1>1, <1>2 DEF Kept, pawnClientVars
  <2>1. t > tick
    BY <1>3, <1>14
  <2> QED
    BY <1>2, <1>5, <2>1 DEF Kept
<1>16. InTimeIsUsed'
  <2> SUFFICES ASSUME NEW t \in inTime, t <= tick + 1, steps'[t].id # 0
               PROVE  steps'[t].command = made[t]
    BY <1>1 DEF InTimeIsUsed, pawnClientVars
  <2>1. t \in Nat /\ t >= 1
    BY <1>2, <1>14 DEF MadeOK
  <2>2. CASE t <= tick
    <3>1. steps'[t] = steps[t]
      BY <1>3, <1>7, <2>1, <2>2
    <3> QED
      BY <1>2, <2>2, <3>1 DEF InTimeIsUsed
  <2>3. CASE t = tick + 1
    <3>1. t > tick /\ t \in DOMAIN input.byTick
      BY <1>2, <1>3, <2>3 DEF Kept
    <3>2. input.byTick[t] = made[t]
      BY <1>2, <3>1 DEF MadeOK, Told
    <3>3. last.command = Taken(t)
      BY <1>1, <1>7, <2>3
    <3> QED
      BY <1>7, <2>3, <3>1, <3>2, <3>3 DEF Taken
  <2> QED
    BY <1>3, <2>1, <2>2, <2>3
<1> QED
  BY <1>6, <1>8, <1>9, <1>10, <1>11, <1>12, <1>13, <1>15, <1>16 DEF IInv

-----------------------------------------------------------------------------
(* The client's actions *)

\* Its server side stays as it is.
LEMMA ServerUntouched ==
  ASSUME IInv, UNCHANGED pawnServerVars
  PROVE  ServerOK' /\ StepsOK' /\ SnapsOK'
  BY DEF IInv, ServerOK, StepsOK, SnapsOK, pawnServerVars

LEMMA ReceiveSnapshotKeeps ==
  ASSUME IInv, NEW snap \in snaps, ReceiveSnapshot(snap)
  PROVE  IInv'
<1>1. /\ latestTick' = snap.tick /\ frame' = "present"
      /\ UNCHANGED <<pawnServerVars, packets, sim, history, reconciled, made>>
  BY DEF ReceiveSnapshot
<1>2. /\ snaps \subseteq Shot /\ (\A s \in snaps : s.tick <= tick)
      /\ \A r, s \in snaps : r.tick = s.tick => r = s
  BY DEF IInv, SnapsOK
<1>3. snap.tick \in Tick /\ snap.id \in Pawn /\ snap.tick <= tick
  BY <1>2 DEF Shot
<1>4. ghost \in [id : Pawn, samples : SUBSET snaps] /\ Cardinality(ghost.samples) <= SampleCap
  BY DEF IInv, GhostOK
<1>5. SampleCap \in Nat \ {0} /\ 0 \in Tick /\ Origin \in Pose /\ 0 \in Pawn
  BY Limits, PoseAssumption DEF Tick, Pawn
<1>6. body \in Pose /\ agreed \in Tick
  BY DEF IInv, ClientOK
<1>7. /\ ghost' \in [id : Pawn, samples : SUBSET snaps] /\ Cardinality(ghost'.samples) <= SampleCap
      /\ body' \in Pose /\ agreed' \in Tick
  <2>1. CASE ghost' = NoGhost /\ agreed' = 0 /\ body' = body
    <3>1. ghost'.samples = {} /\ ghost' \in [id : Pawn, samples : SUBSET snaps]
      BY <1>5, <2>1 DEF NoGhost
    <3> QED
      BY <1>5, <1>6, <2>1, <3>1, FS_EmptySet
  <2>2. CASE /\ ghost' = [ghost EXCEPT !.samples = Newest(SampleCap, @ \cup {snap})]
             /\ UNCHANGED <<body, agreed>>
    <3> DEFINE all == ghost.samples \cup {snap}
    <3>1. all \in SUBSET snaps
      BY <1>4
    <3>2. (\A s \in all : s.tick \in Tick) /\ \A r, s \in all : r.tick = s.tick => r = s
      BY <1>2, <3>1 DEF Shot
    <3> HIDE DEF all
    <3>3. Newest(SampleCap, all) \in SUBSET all /\ Cardinality(Newest(SampleCap, all)) <= SampleCap
      BY <1>5, <3>2, NewestFew
    <3>4. ghost' = [ghost EXCEPT !.samples = Newest(SampleCap, all)]
      BY <2>2 DEF all
    <3> QED
      BY <1>4, <1>6, <2>2, <3>1, <3>3, <3>4
  <2>3. CASE ghost' = [id |-> snap.id, samples |-> {snap}] /\ agreed' = 0 /\ body' = Origin
    <3>1. Cardinality({snap}) = 1 /\ ghost'.samples = {snap}
      BY <2>3, FS_Singleton
    <3> QED
      BY <1>3, <1>5, <2>3, <3>1
  <2> QED
    BY <2>1, <2>2, <2>3 DEF ReceiveSnapshot
<1>8. ServerOK' /\ StepsOK' /\ SnapsOK' /\ tick' = tick /\ snaps' = snaps
  BY <1>1, ServerUntouched DEF pawnServerVars
<1>9. ClientOK'
  BY <1>1, <1>3, <1>7, <1>8 DEF IInv, ClientOK
<1>10. GhostOK'
  BY <1>7, <1>8 DEF GhostOK
<1>11. HistoryOK'
  BY <1>1 DEF IInv, HistoryOK
<1>12. MadeOK' /\ Kept' /\ InTimeIsUsed'
  BY <1>1 DEF IInv, MadeOK, Told, Kept, InTimeIsUsed, pawnServerVars
<1> QED
  BY <1>8, <1>9, <1>10, <1>11, <1>12 DEF IInv

LEMMA StartPredictionKeeps ==
  ASSUME IInv, StartPrediction
  PROVE  IInv'
<1>1. /\ sim = 0 /\ frame' = "predict" /\ sim' = latestTick /\ reconciled' = latestTick
      /\ UNCHANGED <<pawnServerVars, packets, latestTick, ghost, history, made, agreed>>
  BY DEF StartPrediction
<1>2. ServerOK' /\ StepsOK' /\ SnapsOK' /\ tick' = tick /\ snaps' = snaps
  BY <1>1, ServerUntouched DEF pawnServerVars
<1>3. /\ latestTick \in Tick /\ latestTick <= tick /\ agreed \in Tick
      /\ tick \in Nat /\ latestTick \in Nat /\ MaxAhead \in Nat
  BY Limits DEF IInv, ClientOK, ServerOK, Tick
<1>4. body' \in Pose
  <2>1. PICK s \in ghost.samples : body' = s.pose
    BY DEF StartPrediction
  <2>2. s \in Shot
    BY DEF IInv, GhostOK, SnapsOK
  <2> QED
    BY <2>1, <2>2 DEF Shot
<1>5. ClientOK'
  BY <1>1, <1>2, <1>3, <1>4 DEF ClientOK
<1>6. GhostOK'
  BY <1>1, <1>2 DEF IInv, GhostOK
<1>7. HistoryOK'
  <2>1. \A slot \in Slot : history[slot].tick <= 0 /\ history[slot].tick \in Nat
    BY <1>1, Limits DEF IInv, HistoryOK, Tick
  <2>2. \A slot \in Slot : history[slot].tick <= latestTick
    BY <1>3, <2>1
  <2> QED
    BY <1>1, <2>2 DEF IInv, HistoryOK
<1>8. MadeOK'
  <2>1. \A t \in DOMAIN made : 1 <= t /\ t <= 0 /\ t \in Nat
    <3>1. made \in ByTick
      BY DEF IInv, MadeOK
    <3> QED
      BY <1>1, <3>1, ByTickDomain, TicksFinite DEF IInv, MadeOK
  <2>2. \A t \in DOMAIN made : 1 <= t /\ t <= latestTick
    BY <1>3, <2>1
  <2> QED
    BY <1>1, <2>2 DEF IInv, MadeOK, Told, pawnServerVars
<1>9. Kept' /\ InTimeIsUsed'
  BY <1>1 DEF IInv, Kept, InTimeIsUsed, pawnServerVars
<1> QED
  BY <1>2, <1>5, <1>6, <1>7, <1>8, <1>9 DEF IInv

\* A replay leaves the commands and the ticks as they are.
LEMMA CorrectTyped ==
  ASSUME IInv, NEW s \in ghost.samples, s.tick <= sim, Correct(s)
  PROVE  /\ body' \in Pose /\ agreed' \in Tick
         /\ history' \in [Slot -> [tick : Tick, command : Command, pose : Pose, pawn : Pawn]]
         /\ \A slot \in Slot : /\ history'[slot].tick = history[slot].tick
                               /\ history'[slot].command = history[slot].command
<1>1. PICK path \in [s.tick..sim -> Pose] :
        /\ body' = path[sim]
        /\ history' = [slot \in DOMAIN history |->
             IF history[slot].tick < s.tick THEN history[slot]
             ELSE [history[slot] EXCEPT !.pose = path[history[slot].tick], !.pawn = ghost.id]]
        /\ agreed' = IF s.whole THEN s.tick ELSE 0
  BY DEF Correct
<1>2. s \in Shot /\ ghost.id \in Pawn
  BY DEF IInv, GhostOK, SnapsOK
<1>3. s.tick \in Tick /\ s.tick \in Nat /\ sim \in Nat /\ 0 \in Tick
  BY <1>2, Limits DEF IInv, ClientOK, Shot, Tick
<1>4. body' \in Pose /\ agreed' \in Tick
  <2>1. sim \in s.tick..sim
    BY <1>3
  <2>2. path[sim] \in Pose
    BY <2>1
  <2> QED
    BY <1>1, <1>3, <2>2
<1>5. /\ history \in [Slot -> [tick : Tick, command : Command, pose : Pose, pawn : Pawn]]
      /\ \A slot \in Slot : history[slot].tick <= sim
  BY DEF IInv, HistoryOK
<1>6. ASSUME NEW slot \in Slot
      PROVE  /\ history'[slot] \in [tick : Tick, command : Command, pose : Pose, pawn : Pawn]
             /\ history'[slot].tick = history[slot].tick
             /\ history'[slot].command = history[slot].command
  <2>1. /\ history[slot] \in [tick : Tick, command : Command, pose : Pose, pawn : Pawn]
        /\ history[slot].tick \in Nat /\ history[slot].tick <= sim
    BY <1>5, Limits DEF Tick
  <2>2. CASE history[slot].tick < s.tick
    BY <1>1, <1>5, <2>1, <2>2
  <2>3. CASE ~(history[slot].tick < s.tick)
    <3>1. path[history[slot].tick] \in Pose
      BY <1>3, <2>1, <2>3
    <3>2. history'[slot] = [history[slot] EXCEPT !.pose = path[history[slot].tick], !.pawn = ghost.id]
      BY <1>1, <1>5, <2>3
    <3> QED
      BY <1>2, <2>1, <3>1, <3>2
  <2> QED
    BY <2>2, <2>3
<1>7. history' = [slot \in Slot |-> history'[slot]]
  BY <1>1, <1>5
<1> QED
  BY <1>4, <1>6, <1>7

LEMMA ReconcileKeeps ==
  ASSUME IInv, Reconcile
  PROVE  IInv'
<1>1. /\ frame' = "predict"
      /\ UNCHANGED <<pawnServerVars, packets, latestTick, ghost, sim, made>>
  BY DEF Reconcile
<1>2. ServerOK' /\ StepsOK' /\ SnapsOK' /\ tick' = tick /\ snaps' = snaps
  BY <1>1, ServerUntouched DEF pawnServerVars
<1>3. /\ body \in Pose /\ agreed \in Tick /\ reconciled \in Tick
      /\ history \in [Slot -> [tick : Tick, command : Command, pose : Pose, pawn : Pawn]]
  BY DEF IInv, ClientOK, HistoryOK
<1>4. /\ body' \in Pose /\ agreed' \in Tick /\ reconciled' \in Tick
      /\ history' \in [Slot -> [tick : Tick, command : Command, pose : Pose, pawn : Pawn]]
      /\ \A slot \in Slot : /\ history'[slot].tick = history[slot].tick
                            /\ history'[slot].command = history[slot].command
  <2>1. CASE UNCHANGED <<reconciled, body, history, agreed>>
    BY <1>3, <2>1
  <2>2. ASSUME NEW s \in ghost.samples, Authority(s), reconciled' = s.tick,
               \/ UNCHANGED <<body, history, agreed>>
               \/ Consent(s)
               \/ Correct(s)
        PROVE  <1>4!:
    <3>1. s.tick \in Tick
      BY DEF IInv, GhostOK, SnapsOK, Shot
    <3>2. CASE UNCHANGED <<body, history, agreed>>
      BY <1>3, <2>2, <3>1, <3>2
    <3>3. CASE Consent(s)
      <4>1. agreed' \in Tick /\ UNCHANGED <<body, history>>
        BY <1>3, <3>1, <3>3 DEF Consent
      <4> QED
        BY <1>3, <2>2, <3>1, <4>1
    <3>4. CASE Correct(s)
      BY <2>2, <3>1, <3>4, CorrectTyped DEF Authority
    <3> QED
      BY <2>2, <3>2, <3>3, <3>4
  <2> QED
    BY <2>1, <2>2 DEF Reconcile
<1>5. ClientOK'
  BY <1>1, <1>2, <1>4 DEF IInv, ClientOK
<1>6. GhostOK'
  BY <1>1, <1>2 DEF IInv, GhostOK
<1>7. HistoryOK'
  BY <1>1, <1>4 DEF IInv, HistoryOK
<1>8. MadeOK'
  <2>1. Told(input.byTick)' /\ \A packet \in packets : Told(packet)'
    BY <1>1 DEF IInv, MadeOK, Told, pawnServerVars
  <2> QED
    BY <1>1, <1>4, <2>1 DEF IInv, MadeOK
<1>9. Kept' /\ InTimeIsUsed'
  BY <1>1 DEF IInv, Kept, InTimeIsUsed, pawnServerVars
<1> QED
  BY <1>2, <1>5, <1>6, <1>7, <1>8, <1>9 DEF IInv

\* A packet says what the ring says, which is what was pressed.
LEMMA SendRecentTold ==
  ASSUME NEW t \in Tick, NEW f \in ByTick, NEW ring,
         \A slot \in Slot : ring[slot].tick # 0 =>
           ring[slot].tick \in DOMAIN f /\ ring[slot].command = f[ring[slot].tick]
  PROVE  /\ SendRecent(ring, t) \in ByTick
         /\ DOMAIN SendRecent(ring, t) \subseteq DOMAIN f
         /\ \A u \in DOMAIN SendRecent(ring, t) : SendRecent(ring, t)[u] = f[u]
<1> DEFINE found == {u \in 1..t : u + Recent > t /\ ring[u % HistoryCap].tick = u}
<1>1. SendRecent(ring, t) = [u \in found |-> ring[u % HistoryCap].command]
  BY DEF SendRecent
<1>2. ASSUME NEW u \in found
      PROVE  u \in DOMAIN f /\ ring[u % HistoryCap].command = f[u] /\ f[u] \in Command
  <2>1. u \in Nat /\ u # 0 /\ HistoryCap \in Nat \ {0}
    BY Limits DEF Tick
  <2>2. u % HistoryCap \in Slot
    BY <2>1 DEF Slot
  <2>3. ring[u % HistoryCap].tick = u
    OBVIOUS
  <2>4. u \in DOMAIN f /\ ring[u % HistoryCap].command = f[u]
    BY <2>1, <2>2, <2>3
  <2> QED
    BY <2>4, ByTickDomain
<1> HIDE DEF found
<1>3. found \in SUBSET Tick
  BY <1>2, ByTickDomain
<1>4. SendRecent(ring, t) \in [found -> Command]
  BY <1>1, <1>2
<1> QED
  BY <1>1, <1>2, <1>3, <1>4, ByTickIs

LEMMA PredictTickKeeps ==
  ASSUME IInv, NEW command \in Command, PredictTick(command)
  PROVE  IInv'
<1> DEFINE t    == sim + 1
           at   == t % HistoryCap
           new  == [tick |-> t, command |-> command, pose |-> Move[body, command.stick], pawn |-> ghost.id]
           ring == [history EXCEPT ![at] = new]
           told == [u \in DOMAIN made \cup {t} |-> IF u = t THEN command ELSE made[u]]
<1>1. /\ frame = "predict" /\ sim < tick + MaxAhead /\ sim < MaxTick
      /\ sim' = t /\ body' = Move[body, command.stick] /\ history' = ring
      /\ packets' = packets \cup {SendRecent(ring, t)} /\ made' = told
      /\ UNCHANGED <<pawnServerVars, latestTick, ghost, reconciled, frame, agreed>>
  BY DEF PredictTick
<1>2. ServerOK' /\ StepsOK' /\ SnapsOK' /\ tick' = tick /\ snaps' = snaps /\ input' = input
  BY <1>1, ServerUntouched DEF pawnServerVars
<1>3. /\ sim \in Nat /\ tick \in Nat /\ MaxAhead \in Nat /\ MaxTick \in Nat
      /\ t \in Tick /\ t \in Nat /\ t # 0 /\ t > sim /\ 1 <= t /\ t <= tick + MaxAhead
      /\ HistoryCap \in Nat \ {0}
  <2>1. /\ sim \in Nat /\ tick \in Nat /\ MaxAhead \in Nat /\ MaxTick \in Nat
        /\ HistoryCap \in Nat \ {0}
    BY Limits DEF IInv, ClientOK, ServerOK, Tick
  <2>2. sim < tick + MaxAhead /\ sim < MaxTick
    BY <1>1
  <2>3. sim + 1 \in 0..MaxTick /\ sim + 1 <= tick + MaxAhead
    BY <2>1, <2>2
  <2> QED
    BY <2>1, <2>2, <2>3 DEF Tick
<1>4. at \in Slot
  BY <1>3 DEF Slot
<1>5. command.stick \in Stick /\ body \in Pose /\ ghost.id \in Pawn
  BY DEF IInv, ClientOK, GhostOK, Command
<1>6. Move[body, command.stick] \in Pose
  BY <1>5, PoseAssumption
<1>7. /\ made \in ByTick /\ (\A u \in DOMAIN made : 1 <= u /\ u <= sim)
      /\ packets \subseteq ByTick /\ (\A packet \in packets : Told(packet)) /\ Told(input.byTick)
      /\ \A slot \in Slot :
           history[slot].tick # 0 =>
             history[slot].tick \in DOMAIN made /\ history[slot].command = made[history[slot].tick]
  BY DEF IInv, MadeOK
<1>8. /\ DOMAIN made \in SUBSET Tick /\ DOMAIN made \in SUBSET Nat
      /\ \A u \in DOMAIN made : made[u] \in Command
  BY <1>7, ByTickDomain, TicksFinite
<1>9. t \notin DOMAIN made
  BY <1>3, <1>7, <1>8
<1>10. /\ history \in [Slot -> [tick : Tick, command : Command, pose : Pose, pawn : Pawn]]
       /\ \A slot \in Slot : history[slot].tick <= sim
  BY DEF IInv, HistoryOK
<1> HIDE DEF t, at
<1>11. /\ new \in [tick : Tick, command : Command, pose : Pose, pawn : Pawn]
       /\ new.tick = t /\ new.command = command
  BY <1>3, <1>5, <1>6
<1> HIDE DEF new
<1>12. /\ ring \in [Slot -> [tick : Tick, command : Command, pose : Pose, pawn : Pawn]]
       /\ ring[at] = new /\ \A slot \in Slot : slot # at => ring[slot] = history[slot]
  BY <1>4, <1>10, <1>11
<1> HIDE DEF ring
<1>13. /\ told \in ByTick /\ DOMAIN told = DOMAIN made \cup {t} /\ told[t] = command
       /\ \A u \in DOMAIN made : told[u] = made[u]
  <2>1. told \in [DOMAIN made \cup {t} -> Command]
    BY <1>8
  <2>2. DOMAIN made \cup {t} \in SUBSET Tick
    BY <1>3, <1>8
  <2> QED
    BY <1>9, <2>1, <2>2, ByTickIs
<1> HIDE DEF told
<1>14. \A slot \in Slot : ring[slot].tick # 0 =>
         ring[slot].tick \in DOMAIN told /\ ring[slot].command = told[ring[slot].tick]
  <2> SUFFICES ASSUME NEW slot \in Slot, ring[slot].tick # 0
               PROVE  ring[slot].tick \in DOMAIN told /\ ring[slot].command = told[ring[slot].tick]
    OBVIOUS
  <2>1. CASE slot = at
    BY <1>11, <1>12, <1>13, <2>1
  <2>2. CASE slot # at
    BY <1>7, <1>12, <1>13, <2>2
  <2> QED
    BY <2>1, <2>2
<1>15. ClientOK'
  <2>1. sim' \in Tick /\ sim' <= tick + MaxAhead /\ body' \in Pose
    BY <1>1, <1>3, <1>6
  <2> QED
    BY <1>1, <1>2, <2>1 DEF IInv, ClientOK
<1>16. GhostOK'
  BY <1>1, <1>2 DEF IInv, GhostOK
<1>17. HistoryOK'
  <2>1. \A slot \in Slot : ring[slot].tick <= t
    <3> SUFFICES ASSUME NEW slot \in Slot
                 PROVE  ring[slot].tick <= t
      OBVIOUS
    <3>1. CASE slot = at
      BY <1>3, <1>11, <1>12, <3>1
    <3>2. CASE slot # at
      <4>1. history[slot].tick \in Nat /\ history[slot].tick <= sim
        BY <1>10, Limits DEF Tick
      <4> QED
        BY <1>3, <1>12, <3>2, <4>1
    <3> QED
      BY <3>1, <3>2
  <2> QED
    BY <1>1, <1>12, <2>1 DEF HistoryOK
<1>18. MadeOK'
  <2>1. \A u \in DOMAIN told : 1 <= u /\ u <= t
    <3> SUFFICES ASSUME NEW u \in DOMAIN told
                 PROVE  1 <= u /\ u <= t
      OBVIOUS
    <3>1. CASE u = t
      BY <1>3, <3>1
    <3>2. CASE u \in DOMAIN made
      BY <1>3, <1>7, <1>8, <3>2
    <3> QED
      BY <1>13, <3>1, <3>2
  <2>2. /\ SendRecent(ring, t) \in ByTick
        /\ DOMAIN SendRecent(ring, t) \subseteq DOMAIN told
        /\ \A u \in DOMAIN SendRecent(ring, t) : SendRecent(ring, t)[u] = told[u]
    BY <1>3, <1>13, <1>14, SendRecentTold
  <2>3. \A packet \in packets : DOMAIN packet \subseteq DOMAIN told /\ \A u \in DOMAIN packet : packet[u] = told[u]
    BY <1>7, <1>13 DEF Told
  <2>4. packets' \subseteq ByTick /\ \A packet \in packets' : Told(packet)'
    <3>1. packets' \subseteq ByTick
      BY <1>1, <1>7, <2>2
    <3>2. ASSUME NEW packet \in packets'
          PROVE  DOMAIN packet \subseteq DOMAIN told /\ \A u \in DOMAIN packet : packet[u] = told[u]
      <4>1. packet \in packets \/ packet = SendRecent(ring, t)
        BY <1>1
      <4> QED
        BY <2>2, <2>3, <4>1
    <3> QED
      BY <1>1, <3>1, <3>2 DEF Told
  <2>5. Told(input.byTick)'
    BY <1>1, <1>2, <1>7, <1>13 DEF Told
  <2> QED
    BY <1>1, <1>13, <1>14, <2>1, <2>4, <2>5 DEF MadeOK
<1>19. Kept'
  BY <1>1, <1>2, <1>13 DEF IInv, Kept, pawnServerVars
<1>20. InTimeIsUsed'
  <2>1. \A u \in inTime : u \in DOMAIN made /\ told[u] = made[u]
    BY <1>13 DEF IInv, Kept
  <2> QED
    BY <1>1, <2>1 DEF IInv, InTimeIsUsed, pawnServerVars
<1> QED
  BY <1>2, <1>15, <1>16, <1>17, <1>18, <1>19, <1>20 DEF IInv

-----------------------------------------------------------------------------
(* The theorems *)

LEMMA NextKeeps ==
  ASSUME IInv, [PredictionNext]_predictionVars
  PROVE  IInv'
<1>1. CASE UNCHANGED predictionVars
  <2>1. UNCHANGED pawnServerVars /\ UNCHANGED pawnClientVars
    BY <1>1 DEF predictionVars
  <2>2. ServerOK' /\ StepsOK' /\ SnapsOK' /\ tick' = tick /\ snaps' = snaps
    BY <2>1, ServerUntouched DEF pawnServerVars
  <2>3. ClientOK' /\ GhostOK' /\ HistoryOK'
    BY <2>1, <2>2 DEF IInv, ClientOK, GhostOK, HistoryOK, pawnClientVars
  <2>4. MadeOK' /\ Kept' /\ InTimeIsUsed'
    BY <2>1 DEF IInv, MadeOK, Told, Kept, InTimeIsUsed, pawnServerVars, pawnClientVars
  <2> QED
    BY <2>2, <2>3, <2>4 DEF IInv
<1>2. CASE ServerStep
  BY <1>2, ServerStepKeeps
<1>3. CASE LosePawn
  BY <1>3, LosePawnKeeps
<1>4. CASE \E pose \in Pose : AssignPawn(pose)
  BY <1>4, AssignPawnKeeps
<1>5. CASE \E packet \in packets : IngestCommands(packet)
  BY <1>5, IngestCommandsKeeps
<1>6. CASE \E snap \in snaps : ReceiveSnapshot(snap)
  BY <1>6, ReceiveSnapshotKeeps
<1>7. CASE StartPrediction
  BY <1>7, StartPredictionKeeps
<1>8. CASE Reconcile
  BY <1>8, ReconcileKeeps
<1>9. CASE \E command \in Command : PredictTick(command)
  BY <1>9, PredictTickKeeps
<1> QED
  BY <1>1, <1>2, <1>3, <1>4, <1>5, <1>6, <1>7, <1>8, <1>9 DEF PredictionNext

\* Every reachable state satisfies the inductive invariant, for any poses, sticks and
\* moves, any capacities, and any packets and snapshots lost, late or repeated.
THEOREM Invariance == PredictionSpec => []IInv
<1>1. PredictionInit => IInv
  BY InitInvariant
<1>2. IInv /\ [PredictionNext]_predictionVars => IInv'
  BY NextKeeps
<1> QED
  BY <1>1, <1>2, PTL DEF PredictionSpec

\* Types, and the limits of the two buffers: the server keeps at most InputCap commands
\* of an account, and a ghost at most SampleCap samples.
THEOREM TypeCorrect == PredictionSpec => []PredictionTypeOK
<1>1. IInv => PredictionTypeOK
  <2> SUFFICES ASSUME IInv
               PROVE  PredictionTypeOK
    OBVIOUS
  <2>1. /\ tick \in Tick /\ pawn \in [id : Pawn, pose : Pose]
        /\ input \in [byTick : ByTick, last : Command, missing : Tick]
        /\ Cardinality(DOMAIN input.byTick) <= InputCap /\ odd \in 0..MaxOdd
    BY DEF IInv, ServerOK
  <2>2. packets \subseteq ByTick /\ made \in ByTick /\ snaps \subseteq Shot
    BY DEF IInv, MadeOK, SnapsOK
  <2>3. /\ latestTick \in Tick /\ body \in Pose /\ sim \in Tick /\ reconciled \in Tick
        /\ frame \in {"present", "predict"} /\ agreed \in Tick
    BY DEF IInv, ClientOK
  <2>4. ghost.id \in Pawn /\ ghost.samples \subseteq snaps /\ Cardinality(ghost.samples) <= SampleCap
    BY DEF IInv, GhostOK
  <2>5. history \in [0..HistoryCap - 1 -> [tick : Tick, command : Command, pose : Pose, pawn : Pawn]]
    BY DEF IInv, HistoryOK, Slot
  <2>6. /\ steps \in Seq([id : Pawn, command : Command, pose : Pose, pushed : BOOLEAN])
        /\ Len(steps) = tick
    BY DEF IInv, StepsOK, Past
  <2>7. inTime \subseteq Tick
    <3>1. inTime \subseteq DOMAIN made
      BY DEF IInv, Kept
    <3> QED
      BY <2>2, <3>1, ByTickDomain
  <2> QED
    BY <2>1, <2>2, <2>3, <2>4, <2>5, <2>6, <2>7 DEF PredictionTypeOK
<1> QED
  BY <1>1, Invariance, PTL

\* A command that reached the server before its tick is what that tick was simulated
\* with, whatever a full buffer dropped and however often, late or out of order others
\* came: TakeCommand never finds it missing.
THEOREM CommandsInTimeAreUsed == PredictionSpec => []InTimeIsUsed
<1>1. IInv => InTimeIsUsed
  BY DEF IInv
<1> QED
  BY <1>1, Invariance, PTL

-----------------------------------------------------------------------------
(* Stale repeats *)

\* Ticks a pawn was simulated at, after one tick and up to another.
Ran(done, u, t) == Cardinality({v \in u + 1..t : done[v].id # 0})

\* What StaleStops says of one tick.
FireAsked(t) ==
  \E u \in DOMAIN made : u <= t /\ made[u].fire /\ Ran(steps, u, t) <= KeepButtons

StickAsked(t) ==
  \E u \in DOMAIN made :
    u <= t /\ made[u].stick = steps[t].command.stick /\ Ran(steps, u, t) <= KeepStick

AskedFor(t) ==
  /\ steps[t].command.fire => FireAsked(t)
  /\ steps[t].command.stick # Centre => StickAsked(t)

\* The last command used is one the client made, and Missing counts the ticks the pawn was
\* simulated at since.
LastOK ==
  input.last.fire \/ input.last.stick # Centre =>
    \E u \in DOMAIN made :
      u <= tick /\ made[u] = input.last /\ Ran(steps, u, tick) <= input.missing

StaleOK == LastOK /\ \A t \in 1..tick : AskedFor(t)

\* A tick more is one tick more with the pawn at most, and none if the pawn is gone.
LEMMA RanOneMore ==
  ASSUME NEW done, NEW t \in Nat, NEW u \in Nat, u <= t
  PROVE  /\ Ran(done, u, t) \in Nat /\ Ran(done, u, t + 1) \in Nat
         /\ Ran(done, u, t + 1) <= Ran(done, u, t) + 1
         /\ done[t + 1].id = 0 => Ran(done, u, t + 1) = Ran(done, u, t)
         /\ Ran(done, t, t) = 0
<1> DEFINE before == {v \in u + 1..t : done[v].id # 0}
           after  == {v \in u + 1..t + 1 : done[v].id # 0}
           more   == before \cup {t + 1}
<1>1. IsFiniteSet(before) /\ IsFiniteSet(after)
  <2>1. IsFiniteSet(u + 1..t) /\ IsFiniteSet(u + 1..t + 1)
    BY FS_Interval
  <2> QED BY <2>1, FS_Subset
<1>2. after \subseteq more /\ (done[t + 1].id = 0 => after = before)
  <2>1. \A v \in u + 1..t + 1 : v \in u + 1..t \/ v = t + 1
    OBVIOUS
  <2>2. \A v \in u + 1..t : v \in u + 1..t + 1
    OBVIOUS
  <2> QED BY <2>1, <2>2
<1>3. Cardinality(before) \in Nat /\ Cardinality(after) \in Nat
  BY <1>1, FS_CardinalityType
<1>4. IsFiniteSet(more) /\ Cardinality(more) <= Cardinality(before) + 1 /\ Cardinality(more) \in Nat
  <2> HIDE DEF before
  <2>1. /\ IsFiniteSet(more)
        /\ Cardinality(more) = IF t + 1 \in before THEN Cardinality(before) ELSE Cardinality(before) + 1
    BY <1>1, FS_AddElement
  <2> HIDE DEF more
  <2> QED BY <1>3, <2>1
<1> HIDE DEF more
<1>5. Cardinality(after) <= Cardinality(more)
  BY <1>2, <1>4, FS_Subset
<1>6. {v \in t + 1..t : done[v].id # 0} = {}
  OBVIOUS
<1>7. Ran(done, u, t) = Cardinality(before) /\ Ran(done, u, t + 1) = Cardinality(after)
  BY DEF Ran
<1>8. Ran(done, t, t) = 0
  BY <1>6, FS_EmptySet DEF Ran
<1> HIDE DEF before, after
<1> QED
  BY <1>2, <1>3, <1>4, <1>5, <1>7, <1>8

\* What was recorded of the ticks before stays so.
LEMMA StaleKept ==
  ASSUME StaleOK, UNCHANGED <<tick, steps>>, input'.last = input.last, input'.missing = input.missing,
         DOMAIN made \subseteq DOMAIN made', \A u \in DOMAIN made : made'[u] = made[u]
  PROVE  StaleOK'
<1>1. LastOK'
  BY DEF StaleOK, LastOK
<1>2. ASSUME NEW t \in 1..tick PROVE AskedFor(t)'
  BY DEF StaleOK, AskedFor, FireAsked, StickAsked
<1> QED
  BY <1>1, <1>2 DEF StaleOK

LEMMA StaleServerStep ==
  ASSUME IInv, StaleOK, ServerStep
  PROVE  StaleOK'
<1>1. PICK last \in Past :
        /\ steps' = Append(steps, last) /\ tick' = tick + 1 /\ UNCHANGED pawnClientVars
        /\ \/ TakeCommand(tick + 1) /\ last.command = Taken(tick + 1)
           \/ input' = input /\ last.id = 0 /\ last.command = Idle
  BY ServerStepIs
<1> DEFINE T == tick + 1
<1>2. /\ tick \in Nat /\ T \in Nat /\ steps \in Seq(Past) /\ Len(steps) = tick /\ made' = made
      /\ input.missing \in Nat /\ KeepButtons \in Nat /\ KeepStick \in Nat
      /\ \A t \in 1..T : t \in 1..tick \/ t = T
  <2>1. tick \in Nat /\ input.missing \in Nat /\ KeepButtons \in Nat /\ KeepStick \in Nat
    BY Limits, PredictionLimits DEF IInv, ServerOK, Tick
  <2>2. T \in Nat /\ \A t \in 1..T : t \in 1..tick \/ t = T
    BY <2>1
  <2> QED BY <1>1, <2>1, <2>2 DEF IInv, StepsOK, pawnClientVars
<1>3. /\ DOMAIN made \subseteq Nat
      /\ \A t \in DOMAIN input.byTick : t \in DOMAIN made /\ input.byTick[t] = made[t]
  BY ByTickDomain, TicksFinite DEF IInv, MadeOK, Told
<1>4. steps'[T] = last /\ \A t \in 1..tick : steps'[t] = steps[t]
  BY <1>1, <1>2
<1>t. T = tick + 1 /\ T \in 1..T
  BY <1>2
<1> HIDE DEF T
<1>5. ASSUME NEW u \in Nat, NEW t \in 0..tick PROVE Ran(steps', u, t) = Ran(steps, u, t)
  <2>1. \A v \in u + 1..t : v \in 1..tick
    BY <1>2
  <2>2. {v \in u + 1..t : steps'[v].id # 0} = {v \in u + 1..t : steps[v].id # 0}
    BY <1>4, <2>1
  <2> QED BY <2>2 DEF Ran
<1>6. ASSUME NEW u \in Nat, u <= tick
      PROVE  /\ Ran(steps', u, T) \in Nat /\ Ran(steps, u, tick) \in Nat
             /\ Ran(steps', u, T) <= Ran(steps, u, tick) + 1
             /\ last.id = 0 => Ran(steps', u, T) = Ran(steps, u, tick)
  <2>1. Ran(steps', u, tick) = Ran(steps, u, tick)
    BY <1>2, <1>5
  <2>2. /\ Ran(steps', u, tick) \in Nat /\ Ran(steps', u, tick + 1) \in Nat
        /\ Ran(steps', u, tick + 1) <= Ran(steps', u, tick) + 1
        /\ steps'[tick + 1].id = 0 => Ran(steps', u, tick + 1) = Ran(steps', u, tick)
    BY <1>2, <1>6, RanOneMore
  <2> QED BY <1>4, <1>t, <2>1, <2>2
<1>7. Ran(steps', T, T) = 0
  BY <1>2, RanOneMore
<1>8. ASSUME NEW t \in 1..tick PROVE AskedFor(t)'
  <2>1. AskedFor(t) /\ steps'[t] = steps[t] /\ t \in 0..tick
    BY <1>2, <1>4 DEF StaleOK
  <2>2. \A u \in DOMAIN made : Ran(steps', u, t) = Ran(steps, u, t)
    BY <1>3, <1>5, <2>1
  <2> QED BY <1>2, <2>1, <2>2 DEF AskedFor, FireAsked, StickAsked
<1>9. CASE input' = input /\ last.id = 0 /\ last.command = Idle
  <2>1. LastOK'
    <3> SUFFICES ASSUME input.last.fire \/ input.last.stick # Centre
                 PROVE  \E u \in DOMAIN made :
                          u <= T /\ made[u] = input.last /\ Ran(steps', u, T) <= input.missing
      BY <1>1, <1>2, <1>9, <1>t DEF LastOK
    <3>1. PICK u \in DOMAIN made :
            u <= tick /\ made[u] = input.last /\ Ran(steps, u, tick) <= input.missing
      BY DEF StaleOK, LastOK
    <3>2. u \in Nat /\ u <= T
      BY <1>2, <1>3, <1>t, <3>1
    <3> QED BY <1>6, <1>9, <3>1, <3>2
  <2>2. ~steps'[T].command.fire /\ steps'[T].command.stick = Centre
    BY <1>4, <1>9 DEF Idle
  <2>3. \A t \in 1..T : AskedFor(t)'
    BY <1>2, <1>8, <2>2 DEF AskedFor
  <2> QED BY <1>1, <1>t, <2>1, <2>3 DEF StaleOK
<1>10. CASE T \in DOMAIN input.byTick /\ TakeCommand(tick + 1) /\ last.command = Taken(tick + 1)
  <2>1. /\ T \in DOMAIN made /\ last.command = made[T]
        /\ input'.last = made[T] /\ input'.missing = 0
    BY <1>3, <1>10, <1>t DEF TakeCommand, Taken
  <2>2. LastOK'
    BY <1>1, <1>2, <1>7, <1>t, <2>1 DEF LastOK
  <2>3. ASSUME NEW t, t = T PROVE AskedFor(t)'
    BY <1>2, <1>4, <1>7, <2>1, <2>3 DEF AskedFor, FireAsked, StickAsked
  <2> QED BY <1>1, <1>2, <1>8, <1>t, <2>2, <2>3 DEF StaleOK
<1>11. CASE T \notin DOMAIN input.byTick /\ TakeCommand(tick + 1) /\ last.command = Taken(tick + 1)
  <2>1. /\ last.command = Repeated(input.last, input.missing + 1)
        /\ input'.last = input.last /\ input'.missing = input.missing + 1
    BY <1>11, <1>t DEF TakeCommand, Taken
  <2>2. ASSUME input.last.fire \/ input.last.stick # Centre
        PROVE  \E u \in DOMAIN made :
                 /\ u <= T /\ made[u] = input.last
                 /\ Ran(steps', u, T) \in Nat /\ Ran(steps', u, T) <= input.missing + 1
    <3>1. PICK u \in DOMAIN made :
            u <= tick /\ made[u] = input.last /\ Ran(steps, u, tick) <= input.missing
      BY <2>2 DEF StaleOK, LastOK
    <3>2. u \in Nat /\ u <= T
      BY <1>2, <1>3, <1>t, <3>1
    <3> QED BY <1>2, <1>6, <3>1, <3>2
  <2>3. LastOK'
    BY <1>1, <1>2, <1>t, <2>1, <2>2 DEF LastOK
  <2>4. ASSUME NEW t, t = T PROVE AskedFor(t)'
    <3>1. steps'[t].command = Repeated(input.last, input.missing + 1)
      BY <1>4, <2>1, <2>4
    <3>2. ASSUME steps'[t].command.fire PROVE FireAsked(t)'
      <4>1. input.last.fire /\ input.missing + 1 <= KeepButtons
        <5>1. Repeated(input.last, input.missing + 1).fire
                <=> input.last.fire /\ input.missing + 1 <= KeepButtons
          BY Zenon DEF Repeated
        <5>2. Repeated(input.last, input.missing + 1).fire
          BY <3>1, <3>2, Zenon
        <5> QED BY <5>1, <5>2, Zenon
      <4> QED BY <1>2, <2>2, <2>4, <4>1 DEF FireAsked
    <3>3. ASSUME steps'[t].command.stick # Centre PROVE StickAsked(t)'
      <4>1. /\ input.last.stick # Centre /\ steps'[t].command.stick = input.last.stick
            /\ input.missing + 1 <= KeepStick
        BY <1>2, <3>1, <3>3 DEF Repeated
      <4> QED BY <1>2, <2>2, <2>4, <4>1 DEF StickAsked
    <3> QED BY <3>2, <3>3 DEF AskedFor
  <2> QED BY <1>1, <1>2, <1>8, <1>t, <2>3, <2>4 DEF StaleOK
<1> QED
  BY <1>1, <1>9, <1>10, <1>11

LEMMA StaleStep ==
  ASSUME IInv, StaleOK, [PredictionNext]_predictionVars
  PROVE  StaleOK'
<1>1. CASE ServerStep
  BY <1>1, StaleServerStep
<1>2. ASSUME NEW packet \in packets, IngestCommands(packet) PROVE StaleOK'
  <2>1. /\ UNCHANGED <<tick, steps>> /\ UNCHANGED made
        /\ input'.last = input.last /\ input'.missing = input.missing
    BY <1>2 DEF IngestCommands, pawnClientVars, IInv, ServerOK
  <2> QED BY <2>1, StaleKept
<1>3. ASSUME NEW command \in Command, PredictTick(command) PROVE StaleOK'
  <2>1. /\ UNCHANGED <<tick, steps, input>>
        /\ made' = [u \in DOMAIN made \cup {sim + 1} |-> IF u = sim + 1 THEN command ELSE made[u]]
    BY <1>3 DEF PredictTick, pawnServerVars
  <2>2. sim + 1 \notin DOMAIN made
    BY Limits, ByTickDomain, TicksFinite DEF IInv, MadeOK, ClientOK, Tick
  <2>3. DOMAIN made \subseteq DOMAIN made' /\ \A u \in DOMAIN made : made'[u] = made[u]
    BY <2>1, <2>2
  <2> QED BY <2>1, <2>3, StaleKept
<1>4. CASE \/ LosePawn \/ \E pose \in Pose : AssignPawn(pose)
           \/ \E snap \in snaps : ReceiveSnapshot(snap)
           \/ StartPrediction \/ Reconcile \/ UNCHANGED predictionVars
  <2>1. UNCHANGED <<tick, steps, input, made>>
    BY <1>4 DEF LosePawn, AssignPawn, ReceiveSnapshot, StartPrediction, Reconcile,
       predictionVars, pawnServerVars, pawnClientVars
  <2> QED BY <2>1, StaleKept
<1> QED
  BY <1>1, <1>2, <1>3, <1>4 DEF PredictionNext

\* What a pawn is made to do, its player asked for within KeepButtons simulated ticks (what
\* it fires) and KeepStick (where it goes), whatever commands were lost, late or repeated.
THEOREM RepeatsGoStale == PredictionSpec => []StaleStops
<1>1. PredictionInit => StaleOK
  BY DEF PredictionInit, StaleOK, LastOK, Idle
<1>2. IInv /\ StaleOK /\ [PredictionNext]_predictionVars => StaleOK'
  BY StaleStep
<1>3. StaleOK => StaleStops
  BY DEF StaleOK, AskedFor, FireAsked, StickAsked, StaleStops, Ran
<1> QED
  BY <1>1, <1>2, <1>3, Invariance, PTL DEF PredictionSpec

-----------------------------------------------------------------------------
(* Predictions *)

\* A pawn that is replaced or lost does not come back.
PawnsPass ==
  /\ pawn.id <= 1 + MaxOdd - odd
  /\ \A t \in 1..tick : steps[t].id <= 1 + MaxOdd - odd
  /\ \A a, b, c \in 1..tick :
       a <= b /\ b <= c /\ steps[a].id = steps[c].id /\ steps[a].id # 0 => steps[b].id = steps[a].id
  /\ \A a, b \in 1..tick :
       a <= b /\ steps[a].id = pawn.id /\ pawn.id # 0 => steps[b].id = pawn.id

\* What is not pushed goes where its command leads, and snapshots show it.
StepsMove ==
  /\ \A t \in 2..tick :
       steps[t].id = steps[t - 1].id /\ steps[t].id # 0 /\ ~steps[t].pushed =>
         steps[t].pose = Move[steps[t - 1].pose, steps[t].command.stick]
  /\ tick > 0 /\ steps[tick].id = pawn.id /\ pawn.id # 0 => pawn.pose = steps[tick].pose
  /\ \A s \in snaps : /\ s.tick \in 1..tick /\ s.id = steps[s.tick].id
                      /\ s.whole => s.pose = steps[s.tick].pose

\* The ghost is the pawn of the newest snapshot.
GhostIsShown ==
  /\ latestTick > 0 => \E q \in snaps : q.tick = latestTick /\ q.id = ghost.id
  /\ ghost.id # 0 => latestTick > 0
  /\ \A s \in ghost.samples : s.id = ghost.id /\ s.tick <= latestTick
  /\ frame = "predict" => ghost.id # 0 /\ sim # 0
  /\ reconciled <= latestTick

\* The ring has the last ticks that were predicted, each with a pawn a snapshot showed.
RingOK ==
  /\ \A a \in DOMAIN made : \A b \in a..sim : b \in DOMAIN made
  /\ \A t \in 1..sim : FindHistory(t) <=> t \in DOMAIN made /\ t + HistoryCap > sim
  /\ \A slot \in Slot : history[slot].tick # 0 =>
       history[slot].pawn # 0 /\ \E r \in snaps : r.tick <= latestTick /\ r.id = history[slot].pawn

\* What was predicted for this pawn goes where its commands lead, to where its body is.
Chain ==
  ghost.id # 0 =>
    /\ \A a, b \in 1..sim : a <= b /\ FindHistory(a) /\ FindHistory(b) /\ Predicted(a).pawn = ghost.id =>
         Predicted(b).pawn = ghost.id
    /\ \A t \in 2..sim :
         /\ t > reconciled /\ FindHistory(t - 1) /\ FindHistory(t)
         /\ Predicted(t - 1).pawn = ghost.id /\ Predicted(t).pawn = ghost.id
         => Predicted(t).pose = Move[Predicted(t - 1).pose, Predicted(t).command.stick]
    /\ sim > 0 /\ FindHistory(sim) /\ Predicted(sim).pawn = ghost.id => body = Predicted(sim).pose

\* What they agreed on is of this pawn, and so is what was predicted since.
AgreedOK ==
  agreed > 0 =>
    /\ ghost.id # 0 /\ agreed \in DOMAIN made /\ agreed <= reconciled
    /\ steps[agreed].id = ghost.id
    /\ \A t \in agreed..sim : FindHistory(t) => Predicted(t).pawn = ghost.id

ServerSide == PawnsPass /\ StepsMove
ClientSide == GhostIsShown /\ RingOK /\ Chain /\ AgreedOK /\ Agrees

LEMMA LeastElement ==
  ASSUME NEW T \in SUBSET Nat, T # {}
  PROVE  \E n \in T : \A m \in T : n <= m
<1> DEFINE R == OpToRel(<, Nat)
<1>1. IsWellFoundedOn(R, Nat)
  BY NatLessThanWellFounded
<1>2. \A x, y \in Nat : y < x => <<y, x>> \in R
  BY DEF OpToRel
<1> HIDE DEF R
<1>3. PICK n \in T : \A m \in T : ~(<<m, n>> \in R)
  BY <1>1, WFMin
<1>4. ASSUME NEW m \in T PROVE n <= m
  <2>1. m \in Nat /\ n \in Nat
    OBVIOUS
  <2>2. ~(m < n)
    BY <1>2, <1>3, <2>1
  <2> QED BY <2>1, <2>2
<1> QED BY <1>4

\* What holds at a number, and at one if at the one before, holds from there on.
LEMMA Along ==
  ASSUME NEW S, NEW a \in Nat, NEW b \in Nat, a \in S, \A t \in a + 1..b : t - 1 \in S => t \in S
  PROVE  \A t \in a..b : t \in S
<1> DEFINE T == {t \in a..b : t \notin S}
<1>1. ASSUME NEW n \in T, \A m \in T : n <= m PROVE FALSE
  <2>1. n \in a..b /\ n # a /\ n \notin S
    OBVIOUS
  <2>2. n \in a + 1..b /\ n - 1 \in a..b /\ ~(n <= n - 1)
    BY <2>1
  <2>3. n - 1 \notin T
    BY <1>1, <2>2
  <2> QED BY <2>1, <2>2, <2>3
<1>2. T \in SUBSET Nat
  OBVIOUS
<1>3. T = {}
  BY <1>1, <1>2, LeastElement
<1> QED BY <1>3

\* Numbers less than n apart have different remainders.
LEMMA Remainders ==
  ASSUME NEW n \in Nat \ {0}, NEW u \in Nat, NEW t \in Nat, u < t
  PROVE  /\ t - u < n => (u % n) # (t % n)
         /\ t - u = n => (u % n) = (t % n)
<1> DEFINE q == u \div n
           p == t \div n
<1>1. /\ q \in Int /\ p \in Int /\ (u % n) \in 0..n - 1 /\ (t % n) \in 0..n - 1
      /\ u = n * q + (u % n) /\ t = n * p + (t % n)
  OBVIOUS
<1> HIDE DEF q, p
<1>2. t - u = n * (p - q) + ((t % n) - (u % n))
  BY <1>1
<1>3. \A k \in Int : (k <= 0 => n * k <= 0) /\ (k >= 1 => n * k >= n) /\ (k >= 2 => n * k >= 2 * n)
        /\ n * k \in Int
  OBVIOUS
<1>4. p - q \in Int /\ n * (p - q) \in Int
  BY <1>1
<1>5. ASSUME t - u < n, (u % n) = (t % n) PROVE FALSE
  <2>1. t - u = n * (p - q)
    BY <1>1, <1>2, <1>4, <1>5
  <2> QED BY <1>3, <1>4, <1>5, <2>1
<1>6. ASSUME t - u = n PROVE (u % n) = (t % n)
  <2> DEFINE x == u % n
             y == t % n
  <2>1. /\ x \in Int /\ y \in Int /\ x \in 0..n - 1 /\ y \in 0..n - 1
        /\ n = n * (p - q) + (y - x)
    BY <1>1, <1>2, <1>6
  <2> HIDE DEF x, y
  <2> DEFINE k == p - q
             m == n * k
  <2>5. k \in Int /\ m \in Int /\ n = m + (y - x) /\ (k <= 0 => m <= 0) /\ (k >= 2 => m >= 2 * n)
    BY <1>3, <1>4, <2>1
  <2>6. k = 1
    <3> HIDE DEF k, m
    <3> QED BY <2>1, <2>5
  <2>2. p - q = 1
    BY <2>6
  <2>3. n * (p - q) = n
    BY <2>2
  <2>4. x = y
    BY <2>1, <2>3
  <2> QED BY <2>4 DEF x, y
<1> QED
  BY <1>5, <1>6

-----------------------------------------------------------------------------
(* What the server does to them *)

LEMMA Numbers ==
  ASSUME IInv
  PROVE  /\ tick \in Nat /\ sim \in Nat /\ latestTick \in Nat /\ reconciled \in Nat /\ agreed \in Nat
         /\ latestTick <= tick /\ sim <= tick + MaxAhead
         /\ odd \in Nat /\ MaxOdd \in Nat /\ odd <= MaxOdd /\ MaxAhead \in Nat
         /\ HistoryCap \in Nat \ {0} /\ MaxAhead < HistoryCap
         /\ pawn.id \in Nat /\ ghost.id \in Nat
         /\ \A t \in 1..tick : steps[t].id \in Nat
         /\ \A s \in snaps : s.tick \in Nat /\ s.tick <= tick /\ s.id \in Nat
         /\ DOMAIN made \subseteq Nat /\ \A t \in DOMAIN made : 1 <= t /\ t <= sim
         /\ \A slot \in Slot : history[slot].tick \in Nat /\ history[slot].tick <= sim
         /\ \A t \in Nat : t % HistoryCap \in Slot
<1>1. /\ tick \in Nat /\ sim \in Nat /\ latestTick \in Nat /\ reconciled \in Nat /\ agreed \in Nat
      /\ latestTick <= tick /\ sim <= tick + MaxAhead
      /\ odd \in Nat /\ MaxOdd \in Nat /\ odd <= MaxOdd /\ MaxAhead \in Nat
      /\ HistoryCap \in Nat \ {0} /\ MaxAhead < HistoryCap
  BY Limits DEF IInv, ServerOK, ClientOK, Tick
<1>2. pawn.id \in Nat /\ ghost.id \in Nat
  BY Limits DEF IInv, ServerOK, GhostOK, Pawn
<1>3. \A t \in 1..tick : steps[t].id \in Nat
  <2>1. \A t \in 1..tick : steps[t] \in Past
    BY <1>1 DEF IInv, StepsOK
  <2> QED BY <1>1, <2>1 DEF Past, Pawn
<1>4. \A s \in snaps : s.tick \in Nat /\ s.tick <= tick /\ s.id \in Nat
  BY Limits DEF IInv, SnapsOK, Shot, Tick, Pawn
<1>5. DOMAIN made \subseteq Nat /\ \A t \in DOMAIN made : 1 <= t /\ t <= sim
  BY ByTickDomain, TicksFinite DEF IInv, MadeOK
<1>6. \A slot \in Slot : history[slot].tick \in Nat /\ history[slot].tick <= sim
  BY Limits DEF IInv, HistoryOK, Tick
<1>7. \A t \in Nat : t % HistoryCap \in Slot
  BY <1>1 DEF Slot
<1> QED BY <1>1, <1>2, <1>3, <1>4, <1>5, <1>6, <1>7

\* Where a tick leaves the pawn, and what its snapshot shows.
LEMMA CaptureShows ==
  ASSUME NEW t, NEW pose, NEW pushes \in {0, 1}, odd \in Nat, CaptureWorld(t, pose, pushes)
  PROVE  /\ odd' \in Nat /\ odd' <= odd /\ snaps \subseteq snaps'
         /\ \A s \in snaps' : \/ s \in snaps
                              \/ s.tick = t /\ s.id = pawn.id /\ (s.whole => s.pose = pose)
<1>1. CASE snaps' = snaps /\ odd >= pushes /\ odd' = odd - pushes
  BY <1>1
<1>2. ASSUME NEW shown, snaps' = snaps \cup {Snapshot(t, pose, shown)},
             odd' \in Nat, odd' <= odd
      PROVE  /\ odd' \in Nat /\ odd' <= odd /\ snaps \subseteq snaps'
             /\ \A s \in snaps' : \/ s \in snaps
                                  \/ s.tick = t /\ s.id = pawn.id /\ (s.whole => s.pose = pose)
  <2> DEFINE new == Snapshot(t, pose, shown)
  <2>1. new.tick = t /\ new.id = pawn.id /\ new.whole = (shown = pose) /\ new.pose = shown
    BY DEF Snapshot
  <2>2. new.whole => new.pose = pose
    <3>1. new.whole => shown = pose
      BY <2>1, Zenon
    <3> QED BY <2>1, <3>1, Zenon
  <2> HIDE DEF new
  <2>3. snaps' = snaps \cup {new}
    BY <1>2 DEF new
  <2> QED BY <1>2, <2>1, <2>2, <2>3
<1>3. CASE odd >= pushes /\ odd' = odd - pushes /\ snaps' = snaps \cup {Snapshot(t, pose, pose)}
  BY <1>2, <1>3
<1>4. CASE /\ odd > pushes /\ odd' = odd - pushes - 1
           /\ \E u \in DOMAIN steps : snaps' = snaps \cup {Snapshot(t, pose, steps[u].pose)}
  <2>1. odd' \in Nat /\ odd' <= odd
    BY <1>4
  <2> QED BY <1>2, <1>4, <2>1
<1> QED BY <1>1, <1>3, <1>4 DEF CaptureWorld

LEMMA ServerStepMoves ==
  ASSUME IInv, ServerStep
  PROVE  \E last :
           /\ tick' = tick + 1 /\ steps' = Append(steps, last) /\ UNCHANGED pawnClientVars
           /\ pawn'.id = pawn.id /\ last.id = pawn.id /\ pawn'.pose = last.pose
           /\ pawn.id # 0 /\ ~last.pushed => last.pose = Move[pawn.pose, last.command.stick]
           /\ odd' \in Nat /\ odd' <= odd /\ snaps \subseteq snaps'
           /\ \A s \in snaps' : \/ s \in snaps
                                \/ /\ s.tick = tick + 1 /\ s.id = pawn.id
                                   /\ s.whole => s.pose = last.pose
<1>1. tick' = tick + 1 /\ UNCHANGED pawnClientVars
  BY DEF ServerStep
<1>2. pawn \in [id : Pawn, pose : Pose] /\ odd \in Nat
  BY Numbers DEF IInv, ServerOK
<1>3. CASE pawn.id # 0
  <2> DEFINE command == Taken(tick + 1)
  <2>1. PICK pose \in Pose :
          LET pushed == pose # Move[pawn.pose, command.stick]
          IN  /\ pawn' = [pawn EXCEPT !.pose = pose]
              /\ steps' = Append(steps, Step(command, pose, pushed))
              /\ CaptureWorld(tick + 1, pose, IF pushed THEN 1 ELSE 0)
    BY <1>3 DEF ServerStep
  <2> DEFINE pushed == pose # Move[pawn.pose, command.stick]
             last   == Step(command, pose, pushed)
  <2>2. /\ last.id = pawn.id /\ last.pose = pose /\ last.command = command
        /\ last.pushed = pushed
    BY DEF Step
  <2>3. ~last.pushed => pose = Move[pawn.pose, last.command.stick]
    BY <2>2
  <2> HIDE DEF command
  <2>4. /\ pawn' = [pawn EXCEPT !.pose = pose] /\ steps' = Append(steps, last)
        /\ CaptureWorld(tick + 1, pose, IF pushed THEN 1 ELSE 0)
    BY <2>1
  <2> HIDE DEF pushed, last
  <2>5. (IF pushed THEN 1 ELSE 0) \in {0, 1}
    OBVIOUS
  <2>6. /\ odd' \in Nat /\ odd' <= odd /\ snaps \subseteq snaps'
        /\ \A s \in snaps' : \/ s \in snaps
                             \/ s.tick = tick + 1 /\ s.id = pawn.id /\ (s.whole => s.pose = pose)
    BY <1>2, <2>4, <2>5, CaptureShows
  <2>7. pawn'.id = pawn.id /\ pawn'.pose = pose
    BY <1>2, <2>4
  <2> QED BY <1>1, <2>2, <2>3, <2>4, <2>6, <2>7
<1>4. CASE pawn.id = 0
  <2> DEFINE last == Step(Idle, pawn.pose, FALSE)
  <2>1. /\ steps' = Append(steps, last) /\ CaptureWorld(tick + 1, pawn.pose, 0) /\ pawn' = pawn
    BY <1>4 DEF ServerStep
  <2>2. last.id = pawn.id /\ last.pose = pawn.pose
    BY DEF Step
  <2> HIDE DEF last
  <2>3. /\ odd' \in Nat /\ odd' <= odd /\ snaps \subseteq snaps'
        /\ \A s \in snaps' : \/ s \in snaps
                             \/ s.tick = tick + 1 /\ s.id = pawn.id /\ (s.whole => s.pose = pawn.pose)
    BY <1>2, <2>1, CaptureShows
  <2> QED BY <1>1, <1>4, <2>1, <2>2, <2>3
<1> QED BY <1>3, <1>4

LEMMA PawnsPassStep ==
  ASSUME IInv, PawnsPass, StepsMove, ServerStep
  PROVE  PawnsPass' /\ StepsMove'
<1>1. PICK last :
        /\ tick' = tick + 1 /\ steps' = Append(steps, last) /\ UNCHANGED pawnClientVars
        /\ pawn'.id = pawn.id /\ last.id = pawn.id /\ pawn'.pose = last.pose
        /\ pawn.id # 0 /\ ~last.pushed => last.pose = Move[pawn.pose, last.command.stick]
        /\ odd' \in Nat /\ odd' <= odd /\ snaps \subseteq snaps'
        /\ \A s \in snaps' : \/ s \in snaps
                             \/ /\ s.tick = tick + 1 /\ s.id = pawn.id
                                /\ s.whole => s.pose = last.pose
  BY ServerStepMoves
<1>a. tick' = tick + 1 /\ steps' = Append(steps, last) /\ odd' \in Nat /\ odd' <= odd
  BY <1>1, Zenon
<1> DEFINE T == tick + 1
<1>2. /\ tick \in Nat /\ T \in Nat /\ odd \in Nat /\ MaxOdd \in Nat /\ odd <= MaxOdd /\ pawn.id \in Nat
      /\ Len(steps) = tick /\ steps \in Seq(Past) /\ \A t \in 1..tick : steps[t].id \in Nat
  <2>1. tick \in Nat /\ T \in Nat /\ odd \in Nat /\ MaxOdd \in Nat /\ odd <= MaxOdd /\ pawn.id \in Nat
    BY Numbers
  <2>2. Len(steps) = tick /\ steps \in Seq(Past)
    BY DEF IInv, StepsOK
  <2>3. \A t \in 1..tick : steps[t].id \in Nat
    BY Numbers
  <2> QED BY <2>1, <2>2, <2>3
<1>3. steps'[T] = last /\ \A t \in 1..tick : steps'[t] = steps[t]
  BY <1>a, <1>2
<1>4. /\ tick' = T /\ T \in 1..T /\ T > tick /\ 1..T = 1..tick \cup {T} /\ 1..tick \subseteq 1..T
      /\ \A t \in 1..tick : t < T
  <2>1. tick' = T /\ T \in 1..T /\ T > tick /\ \A t \in 1..tick : t < T
    BY <1>a, <1>2
  <2>2. \A t \in 1..T : t \in 1..tick \/ t = T
    BY <1>2
  <2>3. \A t \in 1..tick : t \in 1..T
    BY <1>2
  <2> QED BY <2>1, <2>2, <2>3
<1>5. T = tick + 1
  OBVIOUS
<1> HIDE DEF T
<1>6. PawnsPass'
  <2>0. /\ pawn.id <= 1 + MaxOdd - odd /\ \A t \in 1..tick : steps[t].id <= 1 + MaxOdd - odd
        /\ odd \in Nat /\ MaxOdd \in Nat /\ pawn.id \in Nat /\ odd' \in Nat /\ odd' <= odd
        /\ \A t \in 1..tick : steps[t].id \in Nat
    BY <1>a, <1>2, Zenon DEF PawnsPass
  <2>1. pawn.id <= 1 + MaxOdd - odd'
    BY <2>0
  <2>5. \A t \in 1..tick : steps[t].id <= 1 + MaxOdd - odd'
    BY <2>0
  <2>2. \A t \in 1..T : steps'[t].id <= 1 + MaxOdd - odd'
    <3>1. last.id <= 1 + MaxOdd - odd'
      BY <1>1, <2>1, Zenon
    <3> QED BY <1>3, <1>4, <2>5, <3>1, Zenon
  <2>3. ASSUME NEW a \in 1..T, NEW b \in 1..T, NEW c \in 1..T,
               a <= b, b <= c, steps'[a].id = steps'[c].id, steps'[a].id # 0
        PROVE  steps'[b].id = steps'[a].id
    <3>1. CASE c \in 1..tick
      <4>1. a \in 1..tick /\ b \in 1..tick
        BY <1>2, <2>3, <3>1
      <4> QED BY <1>3, <2>3, <3>1, <4>1 DEF PawnsPass
    <3>2. CASE c = T /\ b \in 1..tick
      <4>1. a \in 1..tick
        BY <1>2, <2>3, <3>2
      <4>2. steps[a].id = pawn.id /\ pawn.id # 0
        BY <1>1, <1>3, <2>3, <3>2, <4>1
      <4> QED BY <1>3, <2>3, <3>2, <4>1, <4>2 DEF PawnsPass
    <3>3. CASE b = T
      <4>1. c = T
        BY <1>2, <1>4, <2>3, <3>3
      <4> QED BY <2>3, <3>3, <4>1
    <3> QED BY <1>4, <3>1, <3>2, <3>3
  <2>4. ASSUME NEW a \in 1..T, NEW b \in 1..T, a <= b, steps'[a].id = pawn.id, pawn.id # 0
        PROVE  steps'[b].id = pawn.id
    <3>1. CASE b = T
      BY <1>1, <1>3, <3>1
    <3>2. CASE b \in 1..tick
      <4>1. a \in 1..tick
        BY <1>2, <2>4, <3>2
      <4> QED BY <1>3, <2>4, <3>2, <4>1 DEF PawnsPass
    <3> QED BY <1>4, <3>1, <3>2
  <2>6. pawn'.id = pawn.id /\ tick' = T
    BY <1>1, <1>4, Zenon
  <2>7. \A a, b, c \in 1..T :
          a <= b /\ b <= c /\ steps'[a].id = steps'[c].id /\ steps'[a].id # 0 => steps'[b].id = steps'[a].id
    BY <2>3, Zenon
  <2>8. \A a, b \in 1..T : a <= b /\ steps'[a].id = pawn.id /\ pawn.id # 0 => steps'[b].id = pawn.id
    BY <2>4, Zenon
  <2>9. pawn'.id <= 1 + MaxOdd - odd' /\ \A t \in 1..tick' : steps'[t].id <= 1 + MaxOdd - odd'
    BY <2>1, <2>2, <2>6, Zenon
  <2>10. \A a, b, c \in 1..tick' :
          a <= b /\ b <= c /\ steps'[a].id = steps'[c].id /\ steps'[a].id # 0 => steps'[b].id = steps'[a].id
    BY <2>6, <2>7, Zenon
  <2>11. \A a, b \in 1..tick' :
          a <= b /\ steps'[a].id = pawn'.id /\ pawn'.id # 0 => steps'[b].id = pawn'.id
    BY <2>6, <2>8, Zenon
  <2> QED BY <2>9, <2>10, <2>11, Zenon DEF PawnsPass
<1>7. StepsMove'
  <2>1. ASSUME NEW t \in 2..T,
               steps'[t].id = steps'[t - 1].id, steps'[t].id # 0, ~steps'[t].pushed
        PROVE  steps'[t].pose = Move[steps'[t - 1].pose, steps'[t].command.stick]
    <3>1. CASE t \in 2..tick
      <4>1. t \in 1..tick /\ t - 1 \in 1..tick
        BY <1>2, <3>1
      <4> QED BY <1>3, <2>1, <3>1, <4>1 DEF StepsMove
    <3>2. CASE t = T
      <4>1. tick > 0 /\ t - 1 = tick /\ tick \in 1..tick
        BY <1>2, <1>5, <2>1, <3>2
      <4>2. steps[tick].id = pawn.id /\ pawn.id # 0
        BY <1>1, <1>3, <2>1, <3>2, <4>1
      <4>3. pawn.pose = steps[tick].pose
        BY <4>1, <4>2 DEF StepsMove
      <4> QED BY <1>1, <1>3, <2>1, <3>2, <4>1, <4>2, <4>3
    <3>3. t \in 2..tick \/ t = T
      BY <1>2, <1>5, <2>1
    <3> QED BY <3>1, <3>2, <3>3
  <2>2. pawn'.pose = steps'[T].pose
    BY <1>1, <1>3
  <2>3. ASSUME NEW s \in snaps'
        PROVE  s.tick \in 1..T /\ s.id = steps'[s.tick].id /\ (s.whole => s.pose = steps'[s.tick].pose)
    <3>1. CASE s \in snaps
      BY <1>3, <1>4, <3>1 DEF StepsMove
    <3>2. CASE s.tick = T /\ s.id = pawn.id /\ (s.whole => s.pose = last.pose)
      BY <1>1, <1>3, <1>4, <3>2
    <3> QED BY <1>1, <1>5, <3>1, <3>2
  <2> QED BY <1>4, <2>1, <2>2, <2>3 DEF StepsMove
<1> QED BY <1>6, <1>7

LEMMA ServerSideStep ==
  ASSUME IInv, ServerSide, [PredictionNext]_predictionVars
  PROVE  ServerSide'
<1>0. PawnsPass /\ StepsMove
  BY DEF ServerSide
<1>1. CASE ServerStep
  BY <1>0, <1>1, PawnsPassStep DEF ServerSide
<1>n. /\ odd \in Nat /\ MaxOdd \in Nat /\ pawn.id \in Nat /\ tick \in Nat
      /\ \A t \in 1..tick : steps[t].id \in Nat
  BY Numbers
<1>2. CASE LosePawn
  <2>1. /\ UNCHANGED <<tick, steps, snaps>> /\ odd' = odd - 1 /\ odd > 0
        /\ pawn' = [pawn EXCEPT !.id = 0] /\ pawn \in [id : Pawn, pose : Pose]
    BY <1>2 DEF LosePawn, IInv, ServerOK
  <2>2. pawn'.id = 0 /\ odd' \in Nat /\ odd' <= odd
    BY <1>n, <2>1
  <2>3. PawnsPass'
    <3>1. pawn'.id <= 1 + MaxOdd - odd' /\ \A t \in 1..tick : steps[t].id <= 1 + MaxOdd - odd'
      BY <1>0, <1>n, <2>1, <2>2 DEF PawnsPass
    <3> QED BY <1>0, <2>1, <2>2, <3>1 DEF PawnsPass
  <2>4. StepsMove'
    BY <1>0, <2>1, <2>2 DEF StepsMove
  <2> QED BY <2>3, <2>4 DEF ServerSide
<1>3. ASSUME NEW pose \in Pose, AssignPawn(pose) PROVE ServerSide'
  <2>1. /\ UNCHANGED <<tick, steps, snaps>> /\ odd' = odd - 1 /\ odd > 0
        /\ pawn'.id = 1 + MaxOdd - odd'
    BY <1>3 DEF AssignPawn
  <2>2. \A t \in 1..tick : steps[t].id < pawn'.id /\ steps[t].id <= 1 + MaxOdd - odd'
    BY <1>0, <1>n, <2>1 DEF PawnsPass
  <2>3. pawn'.id <= 1 + MaxOdd - odd' /\ \A t \in 1..tick : steps[t].id # pawn'.id
    BY <1>n, <2>1, <2>2
  <2>4. PawnsPass'
    BY <1>0, <2>1, <2>2, <2>3 DEF PawnsPass
  <2>5. tick > 0 => steps[tick].id # pawn'.id
    <3>1. tick > 0 => tick \in 1..tick
      BY <1>n
    <3> QED BY <2>3, <3>1
  <2>6. StepsMove'
    BY <1>0, <2>1, <2>5 DEF StepsMove
  <2> QED BY <2>4, <2>6 DEF ServerSide
<1>4. CASE \/ \E packet \in packets : IngestCommands(packet)
           \/ \E snap \in snaps : ReceiveSnapshot(snap)
           \/ \E command \in Command : PredictTick(command)
           \/ StartPrediction \/ Reconcile \/ UNCHANGED predictionVars
  <2>1. UNCHANGED <<tick, steps, snaps, pawn, odd>>
    BY <1>4 DEF IngestCommands, ReceiveSnapshot, PredictTick, StartPrediction, Reconcile,
       predictionVars, pawnServerVars
  <2>2. PawnsPass'
    BY <1>0, <2>1 DEF PawnsPass
  <2>3. StepsMove'
    BY <1>0, <2>1 DEF StepsMove
  <2> QED BY <2>2, <2>3 DEF ServerSide
<1> QED BY <1>1, <1>2, <1>3, <1>4 DEF PredictionNext

-----------------------------------------------------------------------------
(* What a tick of the server does to what they agree on *)

\* What the ring has of a tick is what was pressed for it, and it has the ticks after it.
LEMMA RingHas ==
  ASSUME IInv, RingOK, NEW a \in 1..sim
  PROVE  /\ FindHistory(a) => a \in DOMAIN made /\ Predicted(a).command = made[a]
         /\ a \in DOMAIN made => \A b \in a..sim : b \in DOMAIN made /\ b \in 1..sim
         /\ FindHistory(a) => \A b \in a..sim : FindHistory(b)
         /\ a \in DOMAIN made /\ a + HistoryCap > sim => FindHistory(a)
<1>1. sim \in Nat /\ HistoryCap \in Nat \ {0} /\ a \in Nat /\ a # 0 /\ a % HistoryCap \in Slot
  BY Numbers
<1>2. FindHistory(a) => a \in DOMAIN made /\ Predicted(a).command = made[a]
  BY <1>1 DEF IInv, MadeOK, FindHistory, Predicted
<1>3. \A b \in a..sim : b \in 1..sim /\ b \in Nat /\ b >= a
  BY <1>1
<1>4. a \in DOMAIN made => \A b \in a..sim : b \in DOMAIN made /\ b \in 1..sim
  BY <1>3 DEF RingOK
<1>5. \A t \in 1..sim : FindHistory(t) <=> t \in DOMAIN made /\ t + HistoryCap > sim
  BY DEF RingOK
<1>6. ASSUME FindHistory(a), NEW b \in a..sim PROVE FindHistory(b)
  <2>1. b \in DOMAIN made /\ b \in 1..sim /\ b \in Nat /\ b >= a
    BY <1>2, <1>3, <1>4, <1>6
  <2>2. a + HistoryCap > sim
    BY <1>5, <1>6
  <2>3. b + HistoryCap > sim
    BY <1>1, <2>1, <2>2
  <2> QED BY <1>5, <2>1, <2>3
<1> QED BY <1>2, <1>4, <1>5, <1>6

LEMMA ClientSideServer ==
  ASSUME IInv, ServerSide, ClientSide, ServerStep
  PROVE  ClientSide'
<1>1. PICK last :
        /\ tick' = tick + 1 /\ steps' = Append(steps, last) /\ UNCHANGED pawnClientVars
        /\ pawn'.id = pawn.id /\ last.id = pawn.id /\ pawn'.pose = last.pose
        /\ pawn.id # 0 /\ ~last.pushed => last.pose = Move[pawn.pose, last.command.stick]
        /\ odd' \in Nat /\ odd' <= odd /\ snaps \subseteq snaps'
        /\ \A s \in snaps' : \/ s \in snaps
                             \/ /\ s.tick = tick + 1 /\ s.id = pawn.id
                                /\ s.whole => s.pose = last.pose
  BY ServerStepMoves
<1>a. /\ tick' = tick + 1 /\ steps' = Append(steps, last) /\ snaps \subseteq snaps'
      /\ latestTick' = latestTick /\ ghost' = ghost /\ body' = body /\ sim' = sim
      /\ history' = history /\ reconciled' = reconciled /\ frame' = frame
      /\ made' = made /\ agreed' = agreed
  BY <1>1 DEF pawnClientVars
<1>b. GhostIsShown /\ RingOK /\ Chain /\ AgreedOK /\ Agrees /\ StepsMove
  BY DEF ClientSide, ServerSide
<1>2. /\ tick \in Nat /\ sim \in Nat /\ latestTick \in Nat /\ reconciled \in Nat /\ agreed \in Nat
      /\ MaxAhead \in Nat /\ HistoryCap \in Nat /\ MaxAhead < HistoryCap
      /\ latestTick <= tick /\ sim <= tick + MaxAhead
  BY Numbers
<1>3. Len(steps) = tick /\ steps \in Seq(Past)
  BY DEF IInv, StepsOK
<1>4. PICK T \in Nat : T = tick + 1
  BY <1>2
<1>5. steps'[T] = last /\ \A t \in 1..tick : steps'[t] = steps[t]
  BY <1>a, <1>2, <1>3, <1>4
<1>6. GhostIsShown'
  BY <1>a, <1>b DEF GhostIsShown
<1>7. RingOK'
  BY <1>a, <1>b DEF RingOK, FindHistory
<1>8. Chain'
  BY <1>a, <1>b DEF Chain, FindHistory, Predicted
<1>9. agreed > 0 => agreed \in 1..tick /\ agreed <= reconciled /\ reconciled <= tick /\ agreed \in 1..sim
  <2>1. agreed > 0 => agreed <= reconciled /\ reconciled <= latestTick /\ agreed <= sim
    BY <1>b, Numbers DEF AgreedOK, GhostIsShown
  <2> QED BY <1>2, <2>1
<1>10. AgreedOK'
  BY <1>a, <1>b, <1>5, <1>9 DEF AgreedOK, FindHistory, Predicted
<1>11. Agrees'
  <2> SUFFICES ASSUME agreed > 0
               PROVE  /\ body = Predicted(sim).pose
                      /\ \A t \in agreed..T :
                           t <= sim /\ FindHistory(t) /\ (\A u \in agreed + 1..t : Followed(u)')
                             => Predicted(t).pose = steps'[t].pose
    BY <1>a, <1>4 DEF Agrees, FindHistory, Predicted
  <2>1. body = Predicted(sim).pose
    BY <1>b DEF Agrees
  <2>2. ASSUME NEW t \in agreed + 1..tick, Followed(t)' PROVE Followed(t)
    <3>1. t \in 1..tick
      BY <1>2
    <3> QED BY <1>a, <1>5, <2>2, <3>1 DEF Followed
  <2>3. ASSUME NEW t \in agreed..T, t <= sim, FindHistory(t), \A u \in agreed + 1..t : Followed(u)'
        PROVE  Predicted(t).pose = steps'[t].pose
    <3>1. CASE t \in agreed..tick
      <4>1. \A u \in agreed + 1..t : Followed(u)
        <5>1. \A u \in agreed + 1..t : u \in agreed + 1..tick
          BY <1>2, <3>1
        <5> QED BY <2>2, <2>3, <5>1
      <4>2. t \in 1..tick
        BY <1>2, <3>1
      <4> QED BY <1>b, <1>5, <2>3, <3>1, <4>1, <4>2 DEF Agrees
    <3>2. CASE t = T
      <4>1. /\ tick \in agreed..tick /\ tick <= sim /\ tick \in 1..sim /\ T \in 2..sim /\ T > reconciled
            /\ tick + HistoryCap > sim /\ tick \in agreed..sim /\ T \in agreed..sim /\ tick \in 1..tick
            /\ T - 1 = tick /\ T \in agreed + 1..T /\ T \in 1..sim
        BY <1>2, <1>4, <1>9, <2>3, <3>2
      <4>2. FindHistory(tick)
        <5>1. agreed \in DOMAIN made
          BY <1>b DEF AgreedOK
        <5>2. tick \in DOMAIN made
          BY <1>b, <1>9, <4>1, <5>1, RingHas
        <5> QED BY <1>b, <4>1, <5>2, RingHas
      <4>3. \A u \in agreed + 1..tick : Followed(u)
        <5>1. \A u \in agreed + 1..tick : u \in agreed + 1..t
          BY <1>2, <1>4, <3>2
        <5> QED BY <2>2, <2>3, <5>1
      <4>4. Predicted(tick).pose = steps[tick].pose
        BY <1>b, <4>1, <4>2, <4>3 DEF Agrees
      <4>5. ghost.id # 0 /\ Predicted(tick).pawn = ghost.id /\ Predicted(T).pawn = ghost.id
        BY <1>b, <2>3, <3>2, <4>1, <4>2 DEF AgreedOK
      <4>6. Predicted(T).pose = Move[Predicted(tick).pose, Predicted(T).command.stick]
        BY <1>b, <2>3, <3>2, <4>1, <4>2, <4>5 DEF Chain
      <4>7. Followed(T)'
        BY <2>3, <3>2, <4>1
      <4>8. last.id = ghost.id /\ ~last.pushed /\ last.command.stick = made[T].stick
        BY <1>a, <1>5, <4>7, Zenon DEF Followed
      <4>9. Predicted(T).command = made[T]
        BY <1>b, <2>3, <3>2, <4>1, RingHas
      <4>10. steps[tick].id = ghost.id
        <5>1. CASE tick = agreed
          BY <1>b, <5>1 DEF AgreedOK
        <5>2. CASE tick # agreed
          <6>1. tick \in agreed + 1..tick
            BY <1>2, <4>1, <5>2
          <6> QED BY <4>3, <6>1 DEF Followed
        <5> QED BY <5>1, <5>2
      <4>11. pawn.id = ghost.id
        BY <1>1, <4>8, Zenon
      <4>12. pawn.pose = steps[tick].pose
        <5>1. tick > 0
          BY <1>2, <4>1
        <5> QED BY <1>b, <4>5, <4>10, <4>11, <5>1 DEF StepsMove
      <4>13. last.pose = Move[pawn.pose, last.command.stick]
        BY <1>1, <4>5, <4>8, <4>11, Zenon
      <4>14. Predicted(T).pose = last.pose
        BY <4>4, <4>6, <4>8, <4>9, <4>12, <4>13, Zenon
      <4> QED BY <1>5, <3>2, <4>14
    <3>3. t \in agreed..tick \/ t = T
      BY <1>2, <1>4, <2>3
    <3> QED BY <3>1, <3>2, <3>3
  <2> QED BY <2>1, <2>3
<1> QED BY <1>6, <1>7, <1>8, <1>10, <1>11 DEF ClientSide

-----------------------------------------------------------------------------
(* What the client does to them *)

LEMMA ClientSideKept ==
  ASSUME ClientSide,
         UNCHANGED <<tick, steps, snaps, latestTick, ghost, body, sim, history, reconciled, frame, made, agreed>>
  PROVE  ClientSide'
  BY DEF ClientSide, GhostIsShown, RingOK, Chain, AgreedOK, Agrees, Followed, FindHistory, Predicted

\* A snapshot shows the pawn there was, or one that no prediction is of.
LEMMA ClientSideReceive ==
  ASSUME IInv, ServerSide, ClientSide, NEW snap \in snaps, ReceiveSnapshot(snap)
  PROVE  ClientSide'
<1>1. /\ snap.tick > latestTick /\ latestTick' = snap.tick /\ frame' = "present"
      /\ UNCHANGED <<tick, steps, snaps, sim, history, reconciled, made>>
  BY DEF ReceiveSnapshot, pawnServerVars
<1>2. GhostIsShown /\ RingOK /\ Chain /\ AgreedOK /\ Agrees /\ PawnsPass /\ StepsMove
  BY DEF ClientSide, ServerSide
<1>3. /\ tick \in Nat /\ latestTick \in Nat /\ reconciled \in Nat /\ snap.tick \in Nat
      /\ \A s \in snaps : s.tick \in Nat /\ s.id \in Nat
      /\ \A slot \in Slot : history[slot].tick \in Nat
      /\ \A t \in Nat : t % HistoryCap \in Slot
      /\ sim \in Nat
  BY Numbers
<1>a. \/ snap.id = 0 /\ ghost' = NoGhost
      \/ /\ snap.id # 0 /\ snap.id = ghost.id
         /\ ghost' = [ghost EXCEPT !.samples = Newest(SampleCap, @ \cup {snap})]
      \/ snap.id # 0 /\ ghost' = [id |-> snap.id, samples |-> {snap}]
  BY DEF ReceiveSnapshot
<1>b. ghost \in [id : Pawn, samples : SUBSET snaps]
  BY DEF IInv, GhostOK
<1>4. ghost'.id = snap.id
  BY <1>a, <1>b DEF NoGhost
<1>5. \A s \in ghost'.samples : s.id = snap.id /\ s.tick <= snap.tick
  <2>1. CASE ghost' = NoGhost
    BY <2>1, Zenon DEF NoGhost
  <2>2. CASE snap.id = ghost.id /\ ghost' = [ghost EXCEPT !.samples = Newest(SampleCap, @ \cup {snap})]
    <3>1. ghost'.samples = Newest(SampleCap, ghost.samples \cup {snap})
      BY <1>b, <2>2
    <3>2. \A s \in ghost'.samples : s \in ghost.samples \/ s = snap
      BY <3>1 DEF Newest
    <3>3. \A s \in ghost.samples : s.id = ghost.id /\ s.tick <= latestTick /\ s.tick \in Nat
      BY <1>2, <1>3, <1>b DEF GhostIsShown
    <3>4. snap.tick \in Nat /\ latestTick \in Nat /\ snap.tick > latestTick /\ snap.id = ghost.id
      BY <1>1, <1>3, <2>2, Zenon
    <3>5. \A s \in ghost.samples : s.id = snap.id /\ s.tick <= snap.tick
      BY <3>3, <3>4
    <3>6. snap.tick <= snap.tick
      BY <3>4
    <3> QED BY <3>2, <3>5, <3>6, Zenon
  <2>3. CASE ghost' = [id |-> snap.id, samples |-> {snap}]
    <3>1. ghost'.samples = {snap}
      BY <2>3
    <3> QED BY <1>3, <3>1
  <2> QED BY <1>a, <2>1, <2>2, <2>3
<1>6. GhostIsShown'
  <2>1. reconciled <= snap.tick
    BY <1>1, <1>2, <1>3 DEF GhostIsShown
  <2>2. snap.tick > 0
    BY <1>1, <1>3
  <2>3. \E q \in snaps : q.tick = snap.tick /\ q.id = snap.id
    OBVIOUS
  <2> QED BY <1>1, <1>4, <1>5, <2>1, <2>2, <2>3 DEF GhostIsShown
<1>7. RingOK'
  <2>1. \A r \in snaps : r.tick <= latestTick => r.tick <= snap.tick
    BY <1>1, <1>3
  <2>2. \A slot \in Slot : history[slot].tick # 0 =>
          history[slot].pawn # 0 /\ \E r \in snaps : r.tick <= snap.tick /\ r.id = history[slot].pawn
    BY <1>2, <2>1 DEF RingOK
  <2> QED BY <1>1, <1>2, <2>2 DEF RingOK, FindHistory
<1>8. CASE snap.id # 0 /\ snap.id # ghost.id
  <2>1. agreed' = 0
    BY <1>8 DEF ReceiveSnapshot
  <2>2. ASSUME NEW slot \in Slot, history[slot].tick # 0 PROVE history[slot].pawn # snap.id
    <3> SUFFICES ASSUME history[slot].pawn = snap.id PROVE FALSE
      OBVIOUS
    <3>1. PICK r \in snaps : r.tick <= latestTick /\ r.id = snap.id
      BY <1>2, <2>2 DEF RingOK
    <3>2. r.tick \in 1..tick /\ steps[r.tick].id = snap.id
      BY <1>2, <3>1 DEF StepsMove
    <3>3. latestTick > 0
      BY <1>3, <3>1, <3>2
    <3>4. PICK q \in snaps : q.tick = latestTick /\ q.id = ghost.id
      BY <1>2, <3>3 DEF GhostIsShown
    <3>5. q.tick \in 1..tick /\ steps[q.tick].id = ghost.id
      BY <1>2, <3>4 DEF StepsMove
    <3>6. snap.tick \in 1..tick /\ steps[snap.tick].id = snap.id
      BY <1>2 DEF StepsMove
    <3>7. r.tick <= q.tick /\ q.tick <= snap.tick
      BY <1>1, <1>3, <3>1, <3>4
    <3>8. steps[q.tick].id = steps[r.tick].id
      BY <1>2, <1>8, <3>2, <3>5, <3>6, <3>7 DEF PawnsPass
    <3> QED BY <1>8, <3>2, <3>5, <3>8
  <2>3. \A t \in 1..sim : FindHistory(t) => Predicted(t).pawn # snap.id
    BY <1>3, <2>2 DEF FindHistory, Predicted
  <2>4. Chain'
    <3>1. /\ \A t \in 1..sim : FindHistory(t)' => Predicted(t)'.pawn # ghost'.id
          /\ sim' = sim /\ \A t \in 2..sim : t \in 1..sim
          /\ sim > 0 => sim \in 1..sim
      BY <1>1, <1>3, <1>4, <2>3 DEF FindHistory, Predicted
    <3> QED BY <3>1 DEF Chain
  <2>5. AgreedOK' /\ Agrees'
    BY <2>1 DEF AgreedOK, Agrees
  <2> QED BY <1>6, <1>7, <2>4, <2>5, Zenon DEF ClientSide
<1>9. CASE snap.id = 0
  <2>1. agreed' = 0
    BY <1>9 DEF ReceiveSnapshot, NoGhost
  <2>2. Chain'
    <3>1. ghost'.id = 0
      BY <1>4, <1>9
    <3> QED BY <3>1, Zenon DEF Chain
  <2>3. AgreedOK' /\ Agrees'
    BY <2>1 DEF AgreedOK, Agrees
  <2> QED BY <1>6, <1>7, <2>2, <2>3, Zenon DEF ClientSide
<1>10. CASE snap.id # 0 /\ snap.id = ghost.id
  <2>1. UNCHANGED <<body, agreed>> /\ ghost'.id = ghost.id
    BY <1>4, <1>10 DEF ReceiveSnapshot
  <2>2. Chain'
    <3>1. /\ sim' = sim /\ body' = body /\ reconciled' = reconciled /\ ghost'.id = ghost.id
          /\ \A t : (FindHistory(t)' <=> FindHistory(t)) /\ Predicted(t)' = Predicted(t)
      BY <1>1, <2>1 DEF FindHistory, Predicted
    <3> QED BY <1>2, <3>1 DEF Chain
  <2>3. AgreedOK' /\ Agrees'
    BY <1>1, <1>2, <2>1 DEF AgreedOK, Agrees, Followed, FindHistory, Predicted
  <2> QED BY <1>6, <1>7, <2>2, <2>3 DEF ClientSide
<1> QED BY <1>8, <1>9, <1>10

\* Nothing is predicted yet.
LEMMA ClientSideStart ==
  ASSUME IInv, ClientSide, StartPrediction
  PROVE  ClientSide'
<1>1. /\ ghost.id # 0 /\ sim = 0 /\ frame' = "predict" /\ sim' = latestTick /\ reconciled' = latestTick
      /\ UNCHANGED <<tick, steps, snaps, latestTick, ghost, history, made, agreed>>
  BY DEF StartPrediction, pawnServerVars
<1>2. GhostIsShown /\ RingOK /\ AgreedOK
  BY DEF ClientSide
<1>3. /\ latestTick \in Nat /\ agreed \in Nat /\ DOMAIN made \subseteq Nat
      /\ (\A t \in DOMAIN made : 1 <= t /\ t <= sim)
      /\ (\A slot \in Slot : history[slot].tick \in Nat /\ history[slot].tick <= sim)
      /\ (\A t \in Nat : t % HistoryCap \in Slot)
  BY Numbers
<1>4. DOMAIN made = {} /\ \A slot \in Slot : history[slot].tick = 0
  <2>1. ASSUME NEW t \in DOMAIN made PROVE FALSE
    BY <1>1, <1>3, <2>1
  <2>2. \A slot \in Slot : history[slot].tick = 0
    BY <1>1, <1>3
  <2> QED BY <2>1, <2>2
<1>5. agreed = 0
  BY <1>2, <1>3, <1>4 DEF AgreedOK
<1>6. latestTick > 0
  BY <1>1, <1>2 DEF GhostIsShown
<1>7. GhostIsShown'
  BY <1>1, <1>2, <1>3, <1>6 DEF GhostIsShown
<1>8. \A t \in 1..latestTick : ~FindHistory(t)
  BY <1>3, <1>4 DEF FindHistory
<1>9. RingOK'
  BY <1>1, <1>4, <1>8 DEF RingOK, FindHistory
<1>10. Chain'
  <2>1. \A t \in 2..latestTick : t \in 1..latestTick
    BY <1>3
  <2>2. latestTick \in 1..latestTick
    BY <1>3, <1>6
  <2> QED BY <1>1, <1>8, <2>1, <2>2 DEF Chain, FindHistory
<1>11. AgreedOK' /\ Agrees'
  BY <1>1, <1>5 DEF AgreedOK, Agrees
<1> QED BY <1>7, <1>9, <1>10, <1>11 DEF ClientSide

LEMMA ClientSidePredict ==
  ASSUME IInv, ServerSide, ClientSide, NEW command \in Command, PredictTick(command)
  PROVE  ClientSide'
<1>1. /\ sim \in Nat /\ tick \in Nat /\ latestTick \in Nat /\ reconciled \in Nat /\ agreed \in Nat
      /\ HistoryCap \in Nat \ {0} /\ ghost.id \in Nat
      /\ DOMAIN made \subseteq Nat /\ (\A u \in DOMAIN made : 1 <= u /\ u <= sim)
      /\ (\A slot \in Slot : history[slot].tick \in Nat /\ history[slot].tick <= sim)
      /\ (\A u \in Nat : u % HistoryCap \in Slot)
  BY Numbers
<1>2. PICK t \in Nat : t = sim + 1
  BY <1>1
<1>n. /\ sim \in Nat /\ tick \in Nat /\ reconciled \in Nat /\ agreed \in Nat /\ HistoryCap \in Nat
      /\ t \in Nat /\ t = sim + 1
  BY <1>1, <1>2
<1>3. PICK at \in Slot : at = t % HistoryCap
  BY <1>1
<1>4. PICK new : new = [tick |-> t, command |-> command, pose |-> Move[body, command.stick], pawn |-> ghost.id]
  OBVIOUS
<1>5. /\ frame = "predict" /\ sim' = t /\ body' = new.pose /\ history' = [history EXCEPT ![at] = new]
      /\ made' = [u \in DOMAIN made \cup {t} |-> IF u = t THEN command ELSE made[u]]
      /\ UNCHANGED <<tick, steps, snaps, latestTick, ghost, reconciled, frame, agreed>>
  BY <1>2, <1>3, <1>4 DEF PredictTick, pawnServerVars
<1>6. GhostIsShown /\ RingOK /\ Chain /\ AgreedOK /\ Agrees /\ StepsMove
  BY DEF ClientSide, ServerSide
<1>7. new.tick = t /\ new.command = command /\ new.pose = Move[body, command.stick] /\ new.pawn = ghost.id
  BY <1>4
<1>8. /\ DOMAIN made' = DOMAIN made \cup {t} /\ made'[t] = command
      /\ \A u \in DOMAIN made : u # t /\ made'[u] = made[u]
  <2>1. \A u \in DOMAIN made : u # t
    BY <1>1, <1>2
  <2> QED BY <1>5, <2>1
<1>9. history'[at] = new /\ \A slot \in Slot : slot # at => history'[slot] = history[slot]
  BY <1>5 DEF IInv, HistoryOK
<1>10. 1..t = 1..sim \cup {t} /\ t > sim /\ t > 0
  <2>1. \A u \in 1..t : u \in 1..sim \/ u = t
    BY <1>n
  <2>2. \A u \in 1..sim : u \in 1..t
    BY <1>n
  <2>3. t > sim /\ t > 0 /\ t \in 1..t
    BY <1>n
  <2> QED BY <2>1, <2>2, <2>3
\* A tick the ring still has is where it was; the one that was where t is now is too old.
<1>11. ASSUME NEW u \in 1..sim
       PROVE  /\ FindHistory(u)' <=> FindHistory(u) /\ u + HistoryCap > t
              /\ FindHistory(u)' => Predicted(u)' = Predicted(u)
  <2>1. u \in Nat /\ u < t /\ u # t /\ u % HistoryCap \in Slot
    <3>1. u \in Nat /\ u < t /\ u # t
      BY <1>n
    <3> QED BY <1>1, <3>1
  <2>2. CASE u % HistoryCap = at
    <3>1. ~FindHistory(u)'
      BY <1>7, <1>9, <2>1, <2>2 DEF FindHistory
    <3>2. ~(t - u < HistoryCap)
      <4>1. t - u < HistoryCap => (u % HistoryCap) # (t % HistoryCap)
        BY <1>1, <2>1, Remainders
      <4> QED BY <1>3, <2>2, <4>1, Zenon
    <3>3. ~(u + HistoryCap > t)
      BY <1>n, <2>1, <3>2
    <3> QED BY <3>1, <3>3
  <2>3. CASE u % HistoryCap # at
    <3>1. history'[u % HistoryCap] = history[u % HistoryCap]
      BY <1>9, <2>1, <2>3
    <3>2. t - u # HistoryCap
      <4>1. t - u = HistoryCap => (u % HistoryCap) = (t % HistoryCap)
        BY <1>1, <2>1, Remainders
      <4> QED BY <1>3, <2>3, <4>1, Zenon
    <3>3. FindHistory(u) => u + HistoryCap > sim
      BY <1>6 DEF RingOK
    <3>4. FindHistory(u) => u + HistoryCap > t
      BY <1>n, <2>1, <3>2, <3>3
    <3> QED BY <3>1, <3>4 DEF FindHistory, Predicted
  <2> QED BY <2>2, <2>3
<1>12. ASSUME NEW u, u = t PROVE FindHistory(u)' /\ Predicted(u)' = new
  BY <1>3, <1>7, <1>9, <1>12 DEF FindHistory, Predicted
<1>13. latestTick > 0 /\ ghost.id # 0 /\ sim # 0
  BY <1>5, <1>6 DEF GhostIsShown
<1>14. GhostIsShown'
  BY <1>1, <1>2, <1>5, <1>6, <1>13 DEF GhostIsShown
<1>15. RingOK'
  <2>1. ASSUME NEW a \in DOMAIN made', NEW b \in a..t PROVE b \in DOMAIN made'
    <3>1. CASE b = t
      BY <1>8, <3>1
    <3>2. CASE b # t
      <4>1. a \in Nat /\ a <= t /\ a # t
        <5>1. a \in Nat
          BY <1>1, <1>2, <1>8, <2>1
        <5> QED BY <1>n, <2>1, <3>2, <5>1
      <4>2. a \in DOMAIN made /\ b \in a..sim
        <5>1. a \in DOMAIN made
          BY <1>8, <2>1, <4>1
        <5>2. b \in a..sim
          BY <1>n, <2>1, <3>2, <4>1
        <5> QED BY <5>1, <5>2
      <4> QED BY <1>6, <1>8, <4>2 DEF RingOK
    <3> QED BY <3>1, <3>2
  <2>2. ASSUME NEW u \in 1..t PROVE FindHistory(u)' <=> u \in DOMAIN made' /\ u + HistoryCap > t
    <3>1. CASE u = t
      <4>1. u + HistoryCap > t
        BY <1>1, <3>1
      <4> QED BY <1>8, <1>12, <3>1, <4>1
    <3>2. CASE u \in 1..sim
      <4>1. u \in Nat /\ u # t /\ (u + HistoryCap > t => u + HistoryCap > sim)
        BY <1>1, <1>2, <3>2
      <4>2. FindHistory(u) <=> u \in DOMAIN made /\ u + HistoryCap > sim
        BY <1>6, <3>2 DEF RingOK
      <4>3. FindHistory(u)' <=> FindHistory(u) /\ u + HistoryCap > t
        BY <1>11, <3>2
      <4> QED BY <1>8, <4>1, <4>2, <4>3
    <3> QED BY <1>10, <3>1, <3>2
  <2>3. ASSUME NEW slot \in Slot, history'[slot].tick # 0
        PROVE  history'[slot].pawn # 0 /\ \E r \in snaps : r.tick <= latestTick /\ r.id = history'[slot].pawn
    <3>1. CASE slot = at
      <4>1. PICK q \in snaps : q.tick = latestTick /\ q.id = ghost.id
        BY <1>6, <1>13 DEF GhostIsShown
      <4>2. q.tick <= latestTick
        BY <1>1, <4>1
      <4> QED BY <1>7, <1>9, <1>13, <3>1, <4>1, <4>2
    <3>2. CASE slot # at
      BY <1>6, <1>9, <2>3, <3>2 DEF RingOK
    <3> QED BY <3>1, <3>2
  <2> QED BY <1>5, <2>1, <2>2, <2>3 DEF RingOK
<1>16. Chain'
  <2>1. ASSUME NEW a \in 1..t, NEW b \in 1..t, a <= b, FindHistory(a)', FindHistory(b)', Predicted(a)'.pawn = ghost.id
        PROVE  Predicted(b)'.pawn = ghost.id
    <3>1. CASE b = t
      BY <1>7, <1>12, <3>1
    <3>2. CASE b \in 1..sim
      <4>1. a \in 1..sim
        BY <1>1, <1>2, <2>1, <3>2
      <4>2. /\ FindHistory(a) /\ FindHistory(b)
            /\ Predicted(a)' = Predicted(a) /\ Predicted(b)' = Predicted(b)
        BY <1>11, <2>1, <3>2, <4>1
      <4> QED BY <1>6, <1>13, <2>1, <3>2, <4>1, <4>2 DEF Chain
    <3> QED BY <1>10, <3>1, <3>2
  <2>2. ASSUME NEW u \in 2..t, NEW v, v = u - 1, u > reconciled, FindHistory(v)', FindHistory(u)',
               Predicted(v)'.pawn = ghost.id, Predicted(u)'.pawn = ghost.id
        PROVE  Predicted(u)'.pose = Move[Predicted(v)'.pose, Predicted(u)'.command.stick]
    <3>1. v \in 1..sim
      BY <1>1, <1>2, <2>2
    <3>2. FindHistory(v) /\ Predicted(v)' = Predicted(v)
      BY <1>11, <2>2, <3>1
    <3>3. CASE u = t
      <4>1. v = sim /\ sim > 0
        BY <1>1, <1>2, <2>2, <3>3
      <4>2. body = Predicted(sim).pose
        BY <1>6, <1>13, <2>2, <3>2, <4>1 DEF Chain
      <4>3. Predicted(u)' = new
        BY <1>12, <3>3
      <4> QED BY <1>7, <3>2, <4>1, <4>2, <4>3, Zenon
    <3>4. CASE u # t
      <4>1. u \in 2..sim /\ u \in 1..sim
        BY <1>1, <1>2, <2>2, <3>4
      <4>2. FindHistory(u) /\ Predicted(u)' = Predicted(u)
        BY <1>11, <2>2, <4>1
      <4>3. Predicted(v).pawn = ghost.id /\ Predicted(u).pawn = ghost.id
        BY <2>2, <3>2, <4>2, Zenon
      <4>4. Predicted(u).pose = Move[Predicted(v).pose, Predicted(u).command.stick]
        BY <1>6, <1>13, <2>2, <3>2, <4>1, <4>2, <4>3 DEF Chain
      <4> QED BY <3>2, <4>2, <4>4, Zenon
    <3> QED BY <3>3, <3>4
  <2>3. ASSUME NEW u, u = t PROVE new.pose = Predicted(u)'.pose
    BY <1>12, <2>3
  <2>4. ASSUME NEW u \in 2..t, u > reconciled, FindHistory(u - 1)', FindHistory(u)',
               Predicted(u - 1)'.pawn = ghost.id, Predicted(u)'.pawn = ghost.id
        PROVE  Predicted(u)'.pose = Move[Predicted(u - 1)'.pose, Predicted(u)'.command.stick]
    BY <2>2, <2>4
  <2> QED BY <1>5, <2>1, <2>3, <2>4 DEF Chain
<1>17. agreed > 0 => agreed \in 1..sim /\ agreed \in DOMAIN made
  BY <1>1, <1>6 DEF AgreedOK
<1>18. AgreedOK'
  <2> SUFFICES ASSUME agreed > 0
               PROVE  \A u \in agreed..t : FindHistory(u)' => Predicted(u)'.pawn = ghost.id
    BY <1>5, <1>6, <1>8 DEF AgreedOK
  <2> TAKE u \in agreed..t
  <2>1. CASE u = t
    BY <1>7, <1>12, <2>1
  <2>2. CASE u # t
    <3>1. u \in agreed..sim /\ u \in 1..sim
      BY <1>n, <1>17, <2>2
    <3> QED BY <1>6, <1>11, <3>1 DEF AgreedOK
  <2> QED BY <2>1, <2>2
<1>19. Agrees'
  <2> SUFFICES ASSUME agreed > 0
               PROVE  /\ new.pose = Predicted(sim)'.pose
                      /\ \A u \in agreed..tick :
                           u <= t /\ FindHistory(u)' /\ (\A v \in agreed + 1..u : Followed(v)')
                             => Predicted(u)'.pose = steps[u].pose
    BY <1>5 DEF Agrees
  <2>1. ASSUME NEW u, u = t PROVE new.pose = Predicted(u)'.pose
    BY <1>12, <2>1
  <2>2. body = Predicted(sim).pose
    BY <1>6 DEF Agrees
  <2>3. ASSUME NEW v \in agreed + 1..sim, Followed(v)' PROVE Followed(v)
    BY <1>1, <1>2, <1>5, <1>8, <2>3 DEF Followed
  <2>4. ASSUME NEW u \in agreed..tick, u <= t, FindHistory(u)', \A v \in agreed + 1..u : Followed(v)'
        PROVE  Predicted(u)'.pose = steps[u].pose
    <3>1. CASE u # t
      <4>1. u \in 1..sim /\ u <= sim /\ \A v \in agreed + 1..u : v \in agreed + 1..sim
        BY <1>n, <1>17, <2>4, <3>1
      <4>2. \A v \in agreed + 1..u : Followed(v)
        BY <2>3, <2>4, <4>1
      <4>3. FindHistory(u) /\ Predicted(u)' = Predicted(u)
        BY <1>11, <2>4, <4>1
      <4> QED BY <1>6, <2>4, <4>1, <4>2, <4>3 DEF Agrees
    <3>2. CASE u = t
      <4>1. /\ sim \in agreed..tick /\ sim <= sim /\ sim \in 1..sim /\ t - 1 = sim /\ t \in 2..tick
            /\ \A v \in agreed + 1..sim : v \in agreed + 1..u
            /\ t \in agreed + 1..u /\ sim \in agreed..sim
        BY <1>1, <1>2, <1>13, <1>17, <2>4, <3>2
      <4>2. FindHistory(sim)
        <5>1. sim \in DOMAIN made
          BY <1>6, <1>17, <4>1, RingHas
        <5>2. sim + HistoryCap > sim
          BY <1>1
        <5> QED BY <1>6, <4>1, <5>1, <5>2, RingHas
      <4>3. \A v \in agreed + 1..sim : Followed(v)
        BY <2>3, <2>4, <4>1
      <4>4. Predicted(sim).pose = steps[sim].pose
        BY <1>6, <4>1, <4>2, <4>3 DEF Agrees
      <4>5. Followed(t)'
        BY <2>4, <3>2, <4>1
      <4>6. steps[t].id = ghost.id /\ ~steps[t].pushed /\ steps[t].command.stick = command.stick
        BY <1>5, <1>8, <4>5, Zenon DEF Followed
      <4>7. steps[sim].id = ghost.id
        <5>1. CASE sim = agreed
          BY <1>6, <5>1 DEF AgreedOK
        <5>2. CASE sim # agreed
          <6>1. sim \in agreed + 1..sim
            BY <1>1, <4>1, <5>2
          <6> QED BY <4>3, <6>1 DEF Followed
        <5> QED BY <5>1, <5>2
      <4>8. steps[t].pose = Move[steps[t - 1].pose, steps[t].command.stick]
        <5>1. steps[t].id = steps[t - 1].id /\ steps[t].id # 0
          BY <1>13, <4>1, <4>6, <4>7, Zenon
        <5> QED BY <1>6, <4>1, <4>6, <5>1 DEF StepsMove
      <4>9. steps[t].pose = new.pose
        BY <1>7, <2>2, <4>1, <4>4, <4>6, <4>8, Zenon
      <4> QED BY <1>12, <3>2, <4>9
    <3> QED BY <3>1, <3>2
  <2>5. ASSUME NEW u, u = sim' PROVE new.pose = Predicted(u)'.pose
    BY <1>5, <2>1, <2>5
  <2> QED BY <2>4, <2>5
<1> QED BY <1>14, <1>15, <1>16, <1>18, <1>19 DEF ClientSide

\* Poses that start where the pawn was and go where the commands lead, up to a tick.
GoesBy(f, a, t) ==
  /\ f[a] = steps[a].pose /\ steps[a].id = ghost.id
  /\ \A u \in a + 1..t : Followed(u) /\ f[u] = Move[f[u - 1], made[u].stick]

\* They are where it went.
LEMMA FollowedGo ==
  ASSUME IInv, StepsMove, NEW a \in Nat, 1 <= a, NEW t \in Nat, a <= t, t <= tick, NEW f,
         ghost.id # 0, GoesBy(f, a, t)
  PROVE  f[t] = steps[t].pose
<1> DEFINE S == {u \in Nat : f[u] = steps[u].pose}
<1>1. tick \in Nat
  BY Numbers
<1>2. a \in S
  BY DEF GoesBy
<1>3. ASSUME NEW u \in a + 1..t, u - 1 \in S PROVE u \in S
  <2>1. u \in 2..tick /\ u \in Nat /\ u - 1 \in Nat
    BY <1>1
  <2>2. steps[u].id = ghost.id /\ ~steps[u].pushed /\ steps[u].command.stick = made[u].stick
    BY Zenon DEF GoesBy, Followed
  <2>3. steps[u - 1].id = ghost.id
    <3>1. CASE u - 1 = a
      BY <3>1 DEF GoesBy
    <3>2. CASE u - 1 # a
      <4>1. u - 1 \in a + 1..t
        BY <1>1, <3>2
      <4> QED BY <4>1 DEF GoesBy, Followed
    <3> QED BY <3>1, <3>2
  <2>4. steps[u].id = steps[u - 1].id /\ steps[u].id # 0
    BY <2>2, <2>3, Zenon
  <2>5. steps[u].pose = Move[steps[u - 1].pose, steps[u].command.stick]
    BY <2>1, <2>2, <2>4 DEF StepsMove
  <2>6. f[u] = Move[f[u - 1], made[u].stick]
    BY DEF GoesBy
  <2>7. f[u - 1] = steps[u - 1].pose
    BY <1>3
  <2>8. f[u] = steps[u].pose
    BY <2>2, <2>5, <2>6, <2>7, Zenon
  <2> QED BY <2>1, <2>8
<1> HIDE DEF S
<1>4. \A u \in a..t : u \in S
  BY <1>2, <1>3, Along
<1>5. t \in a..t
  OBVIOUS
<1>6. t \in S
  BY <1>4, <1>5
<1> QED BY <1>6 DEF S

LEMMA ClientSideReconcile ==
  ASSUME IInv, ServerSide, ClientSide, Reconcile
  PROVE  ClientSide'
<1>1. /\ sim \in Nat /\ tick \in Nat /\ latestTick \in Nat /\ reconciled \in Nat /\ agreed \in Nat
      /\ \A slot \in Slot : history[slot].tick \in Nat
      /\ \A u \in Nat : u % HistoryCap \in Slot
  BY Numbers
<1>2. /\ ghost.id # 0 /\ sim # 0 /\ frame' = "predict"
      /\ UNCHANGED <<tick, steps, snaps, latestTick, ghost, sim, made>>
  BY DEF Reconcile, pawnServerVars
<1>3. GhostIsShown /\ RingOK /\ Chain /\ AgreedOK /\ Agrees /\ StepsMove
  BY DEF ClientSide, ServerSide
\* Nothing to compare with.
<1>4. CASE /\ UNCHANGED <<body, history, agreed>>
           /\ reconciled' \in Nat /\ reconciled <= reconciled' /\ reconciled' <= latestTick
  <2>1. GhostIsShown'
    BY <1>2, <1>3, <1>4 DEF GhostIsShown
  <2>2. RingOK'
    BY <1>2, <1>3, <1>4 DEF RingOK, FindHistory
  <2>3. Chain'
    <3>1. \A t \in 2..sim : t > reconciled' => t > reconciled
      BY <1>1, <1>4
    <3> QED BY <1>2, <1>3, <1>4, <3>1 DEF Chain, FindHistory, Predicted
  <2>4. AgreedOK'
    <3>1. agreed <= reconciled => agreed <= reconciled'
      BY <1>1, <1>4
    <3> QED BY <1>2, <1>3, <1>4, <3>1 DEF AgreedOK, FindHistory, Predicted
  <2>5. Agrees'
    BY <1>2, <1>3, <1>4 DEF Agrees, Followed, FindHistory, Predicted
  <2> QED BY <2>1, <2>2, <2>3, <2>4, <2>5 DEF ClientSide
<1>5. ASSUME NEW s \in ghost.samples, Authority(s), s.tick > reconciled, reconciled' = s.tick
      PROVE  /\ s.tick \in 1..tick /\ s.tick \in 1..sim /\ s.tick \in Nat /\ 1 <= s.tick
             /\ s.tick <= sim /\ s.tick <= tick /\ s.tick <= latestTick /\ reconciled <= s.tick
             /\ steps[s.tick].id = ghost.id /\ (s.whole => s.pose = steps[s.tick].pose)
  <2>1. s \in snaps
    BY DEF IInv, GhostOK
  <2>2. /\ s.tick \in 1..tick /\ s.id = steps[s.tick].id /\ (s.whole => s.pose = steps[s.tick].pose)
        /\ s.id = ghost.id /\ s.tick <= latestTick
    BY <1>3, <2>1 DEF StepsMove, GhostIsShown
  <2>3. s.tick <= sim
    BY <1>5 DEF Authority
  <2>4. s.tick \in 1..sim /\ s.tick \in Nat /\ 1 <= s.tick /\ s.tick <= tick /\ reconciled <= s.tick
    BY <1>1, <1>5, <2>2, <2>3
  <2> QED BY <2>2, <2>3, <2>4, Zenon
\* The newest predictions are of this pawn from where it was found to be right.
<1>6. ASSUME NEW s \in ghost.samples, Authority(s), s.tick > reconciled, reconciled' = s.tick,
             FindHistory(s.tick), Predicted(s.tick).pose = s.pose, UNCHANGED <<body, history>>,
             s.whole, Predicted(s.tick).pawn = ghost.id, agreed' = s.tick
      PROVE  ClientSide'
  <2>1. PICK a \in 1..sim : a = s.tick
    BY <1>5, <1>6
  <2>2. /\ a \in Nat /\ 1 <= a /\ a <= sim /\ a <= tick /\ a <= latestTick /\ reconciled < a
        /\ steps[a].id = ghost.id /\ s.pose = steps[a].pose
    BY <1>1, <1>5, <1>6, <2>1
  <2>3. GhostIsShown' /\ RingOK'
    BY <1>2, <1>3, <1>6, <2>1, <2>2 DEF GhostIsShown, RingOK, FindHistory
  <2>4. Chain'
    <3>1. \A t \in 2..sim : t > a => t > reconciled
      BY <1>1, <2>2
    <3> QED BY <1>2, <1>3, <1>6, <2>1, <3>1 DEF Chain, FindHistory, Predicted
  <2>5. a \in DOMAIN made /\ \A t \in a..sim : t \in 1..sim /\ FindHistory(t) /\ Predicted(t).pawn = ghost.id
    <3>1. FindHistory(a) /\ Predicted(a).pawn = ghost.id
      BY <1>6, <2>1
    <3>2. a \in DOMAIN made /\ \A t \in a..sim : t \in 1..sim /\ FindHistory(t) /\ a <= t
      <4>1. a \in DOMAIN made /\ \A t \in a..sim : t \in 1..sim /\ FindHistory(t)
        BY <1>3, <3>1, RingHas
      <4> QED BY <1>1, <2>2, <4>1
    <3> QED BY <1>2, <1>3, <3>1, <3>2 DEF Chain
  <2>6. AgreedOK'
    <3>1. a <= a
      BY <2>2
    <3> QED BY <1>2, <1>6, <2>1, <2>2, <2>5, <3>1 DEF AgreedOK, FindHistory, Predicted
  <2>7. Agrees'
    <3>1. body = Predicted(sim).pose
      <4>1. sim \in a..sim /\ sim > 0
        BY <1>1, <2>2
      <4> QED BY <1>2, <1>3, <2>5, <4>1 DEF Chain
    <3>2. PICK f : f = [t \in Nat |-> Predicted(t).pose]
      OBVIOUS
    <3>3. ASSUME NEW t \in a..tick, t <= sim, \A u \in a + 1..t : Followed(u)
          PROVE  Predicted(t).pose = steps[t].pose
      <4>1. t \in Nat /\ a <= t /\ t <= tick
        BY <1>1, <2>2
      <4>2. f[a] = steps[a].pose
        BY <1>6, <2>1, <2>2, <3>2
      <4>3. ASSUME NEW u \in a + 1..t PROVE f[u] = Move[f[u - 1], made[u].stick]
        <5>1. /\ u \in a..sim /\ u - 1 \in a..sim /\ u \in 2..sim /\ u > reconciled
              /\ u \in Nat /\ u - 1 \in Nat
          BY <1>1, <2>2, <3>3, <4>1
        <5>2. Predicted(u).pose = Move[Predicted(u - 1).pose, Predicted(u).command.stick]
          BY <1>2, <1>3, <2>5, <5>1 DEF Chain
        <5>3. Predicted(u).command = made[u]
          BY <1>3, <2>5, <5>1, RingHas
        <5> QED BY <3>2, <5>1, <5>2, <5>3
      <4>4. f[t] = steps[t].pose
        <5>1. GoesBy(f, a, t)
          BY <2>2, <3>3, <4>2, <4>3 DEF GoesBy
        <5> QED BY <1>2, <1>3, <2>2, <4>1, <5>1, FollowedGo
      <4> QED BY <3>2, <4>1, <4>4
    <3> QED BY <1>2, <1>6, <2>1, <3>1, <3>3 DEF Agrees, Followed, FindHistory, Predicted
  <2> QED BY <2>3, <2>4, <2>6, <2>7 DEF ClientSide
\* The predictions are put where the commands lead from where the pawn was.
<1>7. ASSUME NEW s \in ghost.samples, Authority(s), s.tick > reconciled, reconciled' = s.tick,
             FindHistory(s.tick), Correct(s)
      PROVE  ClientSide'
  <2>1. PICK a \in 1..sim : a = s.tick
    BY <1>5, <1>7
  <2>2. /\ a \in Nat /\ 1 <= a /\ a <= sim /\ a <= tick /\ a <= latestTick /\ reconciled < a
        /\ steps[a].id = ghost.id /\ (s.whole => s.pose = steps[a].pose)
    BY <1>1, <1>5, <1>7, <2>1
  <2>3. PICK path :
          /\ Replays(path, s) /\ body' = path[sim]
          /\ history' = [slot \in DOMAIN history |->
               IF history[slot].tick < s.tick THEN history[slot]
               ELSE [history[slot] EXCEPT !.pose = path[history[slot].tick], !.pawn = ghost.id]]
          /\ agreed' = IF s.whole THEN s.tick ELSE 0
    BY <1>7 DEF Correct
  <2>4. /\ path[a] = s.pose
        /\ \A t \in a + 1..sim : path[t] = Move[path[t - 1], Predicted(t).command.stick]
    BY <2>1, <2>3 DEF Replays
  <2>5. ASSUME NEW slot \in Slot
        PROVE  /\ history'[slot].tick = history[slot].tick /\ history'[slot].command = history[slot].command
               /\ history[slot].tick < a => history'[slot] = history[slot]
               /\ ~(history[slot].tick < a) =>
                    history'[slot].pose = path[history[slot].tick] /\ history'[slot].pawn = ghost.id
    <3>1. /\ slot \in DOMAIN history
          /\ history[slot] \in [tick : Tick, command : Command, pose : Pose, pawn : Pawn]
      BY DEF IInv, HistoryOK
    <3>2. history'[slot] = IF history[slot].tick < a THEN history[slot]
               ELSE [history[slot] EXCEPT !.pose = path[history[slot].tick], !.pawn = ghost.id]
      BY <2>1, <2>3, <3>1
    <3> QED BY <3>1, <3>2
  <2>6. ASSUME NEW t \in 1..sim
        PROVE  /\ FindHistory(t)' <=> FindHistory(t)
               /\ Predicted(t)'.command = Predicted(t).command
               /\ FindHistory(t) /\ t < a => Predicted(t)' = Predicted(t)
               /\ FindHistory(t) /\ a <= t => Predicted(t)'.pose = path[t] /\ Predicted(t)'.pawn = ghost.id
    <3>1. t % HistoryCap \in Slot /\ t \in Nat
      BY <1>1
    <3>2. a <= t => ~(t < a)
      BY <2>2, <3>1
    <3> QED BY <2>5, <3>1, <3>2 DEF FindHistory, Predicted
  <2>7. GhostIsShown'
    BY <1>2, <1>3, <1>7, <2>1, <2>2 DEF GhostIsShown
  <2>8. RingOK'
    <3>1. ASSUME NEW slot \in Slot, history'[slot].tick # 0
          PROVE  history'[slot].pawn # 0 /\ \E r \in snaps : r.tick <= latestTick /\ r.id = history'[slot].pawn
      <4>1. CASE history[slot].tick < a
        <5>1. history'[slot] = history[slot]
          BY <2>5, <4>1
        <5> QED BY <1>3, <3>1, <5>1 DEF RingOK
      <4>2. CASE ~(history[slot].tick < a)
        <5>1. history'[slot].pawn = ghost.id
          BY <2>5, <4>2
        <5>2. PICK q \in snaps : q.tick = latestTick /\ q.id = ghost.id
          BY <1>1, <1>2, <1>3 DEF GhostIsShown
        <5>3. q.tick <= latestTick
          BY <1>1, <5>2
        <5> QED BY <1>2, <5>1, <5>2, <5>3
      <4> QED BY <4>1, <4>2
    <3>2. \A t \in 1..sim : FindHistory(t)' <=> t \in DOMAIN made /\ t + HistoryCap > sim
      BY <1>3, <2>6 DEF RingOK
    <3> QED BY <1>2, <1>3, <3>1, <3>2 DEF RingOK
  <2>9. a \in DOMAIN made /\ \A t \in a..sim : t \in 1..sim /\ FindHistory(t) /\ a <= t
    <3>1. a \in DOMAIN made /\ \A t \in a..sim : t \in 1..sim /\ FindHistory(t)
      BY <1>3, <1>7, <2>1, RingHas
    <3> QED BY <1>1, <2>2, <3>1
  <2>10. sim \in a..sim
    BY <1>1, <2>2
  <2>11. ASSUME NEW u, u = sim PROVE body' = Predicted(u)'.pose
    BY <2>3, <2>6, <2>9, <2>10, <2>11
  <2>12. Chain'
    <3>1. ASSUME NEW b \in 1..sim, NEW c \in 1..sim, b <= c, FindHistory(b)', FindHistory(c)',
                 Predicted(b)'.pawn = ghost.id
          PROVE  Predicted(c)'.pawn = ghost.id
      <4>1. CASE a <= c
        BY <2>6, <3>1, <4>1
      <4>2. CASE ~(a <= c)
        <5>1. b < a /\ c < a
          BY <1>1, <2>2, <3>1, <4>2
        <5>2. /\ FindHistory(b) /\ FindHistory(c)
              /\ Predicted(b)' = Predicted(b) /\ Predicted(c)' = Predicted(c)
          BY <2>6, <3>1, <5>1
        <5> QED BY <1>2, <1>3, <3>1, <5>2 DEF Chain
      <4> QED BY <4>1, <4>2
    <3>2. ASSUME NEW t \in 2..sim, NEW u, u = t - 1, t > a
          PROVE  Predicted(t)'.pose = Move[Predicted(u)'.pose, Predicted(t)'.command.stick]
      <4>1. t \in a..sim /\ u \in a..sim /\ t \in a + 1..sim
        BY <1>1, <2>2, <3>2
      <4>2. Predicted(t)'.pose = path[t] /\ Predicted(u)'.pose = path[u]
        BY <2>6, <2>9, <4>1
      <4>3. Predicted(t)'.command = Predicted(t).command
        BY <2>6, <2>9, <4>1
      <4> QED BY <2>4, <3>2, <4>1, <4>2, <4>3
    <3>3. \A t \in 2..sim :
            t > a => Predicted(t)'.pose = Move[Predicted(t - 1)'.pose, Predicted(t)'.command.stick]
      BY <3>2
    <3> QED BY <1>2, <1>7, <2>1, <2>11, <3>1, <3>3 DEF Chain
  <2>13. AgreedOK'
    <3>1. CASE s.whole
      <4>1. agreed' = a /\ a <= a
        <5>1. agreed' = a
          BY <2>1, <2>3, <3>1, Zenon
        <5> QED BY <2>2, <5>1
      <4>2. \A t \in a..sim : Predicted(t)'.pawn = ghost.id
        BY <2>6, <2>9
      <4> QED BY <1>2, <1>7, <2>1, <2>2, <2>9, <4>1, <4>2 DEF AgreedOK
    <3>2. CASE ~s.whole
      <4>1. agreed' = 0
        BY <2>3, <3>2, Zenon
      <4> QED BY <4>1 DEF AgreedOK
    <3> QED BY <3>1, <3>2
  <2>14. Agrees'
    <3>1. CASE s.whole
      <4>1. agreed' = a
        BY <2>1, <2>3, <3>1, Zenon
      <4>2. path[a] = steps[a].pose
        BY <2>2, <2>4, <3>1
      <4>3. ASSUME NEW t \in a..tick, t <= sim, \A u \in a + 1..t : Followed(u)
            PROVE  Predicted(t)'.pose = steps[t].pose
        <5>1. t \in Nat /\ a <= t /\ t <= tick /\ t \in a..sim
          BY <1>1, <2>2, <4>3
        <5>2. ASSUME NEW u \in a + 1..t PROVE path[u] = Move[path[u - 1], made[u].stick]
          <6>1. u \in a + 1..sim /\ u \in a..sim
            BY <1>1, <2>2, <4>3, <5>1
          <6>2. Predicted(u).command = made[u]
            BY <1>3, <2>9, <6>1, RingHas
          <6> QED BY <2>4, <6>1, <6>2
        <5>3. path[t] = steps[t].pose
          <6>1. GoesBy(path, a, t)
            BY <2>2, <4>2, <4>3, <5>2 DEF GoesBy
          <6> QED BY <1>2, <1>3, <2>2, <5>1, <6>1, FollowedGo
        <5> QED BY <2>6, <2>9, <5>1, <5>3
      <4> QED BY <1>2, <2>11, <4>1, <4>3 DEF Agrees, Followed
    <3>2. CASE ~s.whole
      <4>1. agreed' = 0
        BY <2>3, <3>2, Zenon
      <4> QED BY <4>1 DEF Agrees
    <3> QED BY <3>1, <3>2
  <2> QED BY <2>7, <2>8, <2>12, <2>13, <2>14 DEF ClientSide
<1>8. ASSUME NEW s \in ghost.samples, Authority(s), s.tick > reconciled, reconciled' = s.tick,
             FindHistory(s.tick), Predicted(s.tick).pose = s.pose, Consent(s)
      PROVE  ClientSide'
  <2>1. CASE s.whole /\ Predicted(s.tick).pawn = ghost.id
    BY <1>6, <1>8, <2>1 DEF Consent
  <2>2. CASE ~(s.whole /\ Predicted(s.tick).pawn = ghost.id)
    <3>1. UNCHANGED <<body, history, agreed>>
      BY <1>8, <2>2, Zenon DEF Consent
    <3> QED BY <1>4, <1>5, <1>8, <3>1
  <2> QED BY <2>1, <2>2
<1>9. CASE UNCHANGED <<reconciled, body, history, agreed>>
  <2>1. reconciled <= latestTick /\ reconciled <= reconciled
    BY <1>1, <1>3 DEF GhostIsShown
  <2> QED BY <1>1, <1>4, <1>9, <2>1
<1>10. ASSUME NEW s \in ghost.samples, Authority(s), s.tick > reconciled, reconciled' = s.tick,
              UNCHANGED <<body, history, agreed>>
       PROVE  ClientSide'
  BY <1>4, <1>5, <1>10
<1> QED BY <1>7, <1>8, <1>9, <1>10, Zenon DEF Reconcile

LEMMA ClientSideStep ==
  ASSUME IInv, ServerSide, ClientSide, [PredictionNext]_predictionVars
  PROVE  ClientSide'
<1>1. CASE ServerStep
  BY <1>1, ClientSideServer
<1>2. CASE \E snap \in snaps : ReceiveSnapshot(snap)
  BY <1>2, ClientSideReceive
<1>3. CASE StartPrediction
  BY <1>3, ClientSideStart
<1>4. CASE Reconcile
  BY <1>4, ClientSideReconcile
<1>5. CASE \E command \in Command : PredictTick(command)
  BY <1>5, ClientSidePredict
<1>6. CASE \/ LosePawn \/ UNCHANGED predictionVars \/ \E pose \in Pose : AssignPawn(pose)
           \/ \E packet \in packets : IngestCommands(packet)
  <2>1. UNCHANGED <<tick, steps, snaps, latestTick, ghost, body, sim, history, reconciled, frame, made, agreed>>
    BY <1>6 DEF LosePawn, AssignPawn, IngestCommands, predictionVars, pawnServerVars, pawnClientVars
  <2> QED BY <2>1, ClientSideKept
<1> QED BY <1>1, <1>2, <1>3, <1>4, <1>5, <1>6 DEF PredictionNext

\* From a tick client and server agreed on, every prediction the client keeps of this pawn
\* is what the server makes of that tick, as long as the server has the client's commands
\* and nothing else moves the pawn; whatever was lost, corrected and replayed meanwhile.
THEOREM PredictionsAgree == PredictionSpec => []Agrees
<1>1. PredictionInit => ServerSide /\ ClientSide
  <2> SUFFICES ASSUME PredictionInit PROVE ServerSide /\ ClientSide
    OBVIOUS
  <2>1. /\ tick = 0 /\ pawn.id = 1 /\ snaps = {} /\ latestTick = 0 /\ ghost.id = 0 /\ ghost.samples = {}
        /\ sim = 0 /\ reconciled = 0 /\ frame = "present" /\ odd = MaxOdd /\ agreed = 0
        /\ MaxOdd \in Nat
    BY Limits DEF PredictionInit, NoGhost
  <2>2. DOMAIN made = {} /\ \A slot \in Slot : history[slot].tick = 0
    BY DEF PredictionInit, NoPrediction, Slot
  <2>3. PawnsPass
    BY <2>1 DEF PawnsPass
  <2>4. StepsMove
    BY <2>1 DEF StepsMove
  <2>5. GhostIsShown
    BY <2>1 DEF GhostIsShown
  <2>6. RingOK
    BY <2>1, <2>2 DEF RingOK
  <2>7. Chain /\ AgreedOK /\ Agrees
    BY <2>1 DEF Chain, AgreedOK, Agrees
  <2> QED BY <2>3, <2>4, <2>5, <2>6, <2>7 DEF ServerSide, ClientSide
<1>2. /\ IInv /\ ServerSide /\ ClientSide /\ [PredictionNext]_predictionVars
      => ServerSide' /\ ClientSide'
  BY ServerSideStep, ClientSideStep
<1>3. ClientSide => Agrees
  BY DEF ClientSide
<1> QED
  BY <1>1, <1>2, <1>3, Invariance, PTL DEF PredictionSpec

=============================================================================
