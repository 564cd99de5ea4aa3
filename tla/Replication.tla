---------------------------- MODULE Replication ----------------------------
(***************************************************************************)
(* Snapshot replication (Net/World.cpp): CaptureWorld on the server sends  *)
(* each client the difference between its world and a snapshot the client  *)
(* acknowledged; ApplyPacket on the client rebuilds the full state from    *)
(* that baseline and lets its scene follow.                                *)
(*                                                                         *)
(* One client.  Sequences are plain numbers (Connection proves what their  *)
(* 16 bits mean), one per snapshot, so a sequence also stands for the tick *)
(* it was taken at.  A state is a function from the net ids of entities to *)
(* their fields, a field being absent or a value; a datagram holds Budget  *)
(* records.  Script events, commands and drawing are left out.             *)
(***************************************************************************)
EXTENDS Naturals, Sequences, FiniteSets

CONSTANTS
  Id,           \* net ids, numbers: Gather sorts by them
  Fields,       \* the values an entity's fields can have together
  Budget,       \* records one datagram holds
  RingCap,      \* snapshots the server keeps: 32
  KeepCap,      \* states the client keeps: 64
  Late,         \* bound: how many snapshots a packet can be overtaken by
  MaxSeq,       \* bound: snapshots
  MaxSessions,  \* bound: sessions
  MaxRejoins    \* bound: times a new process of the client takes over

ASSUME IdAssumption == Id \subseteq Nat /\ IsFiniteSet(Id)
ASSUME LimitAssumption ==
  /\ Budget \in Nat /\ RingCap \in Nat \ {0} /\ KeepCap \in Nat \ {0}
  /\ Late \in Nat /\ MaxSeq \in Nat /\ MaxSessions \in Nat \ {0} /\ MaxRejoins \in Nat

State   == UNION {[ids -> Fields] : ids \in SUBSET Id}
Nothing == [i \in {} |-> {}]

VARIABLES
  world,      \* what Gather sees: the replicated entities of the server's scene
  dead,       \* net ids that were destroyed; NextId counts up (and wraps after 65535)
  seq,        \* the last snapshot sent
  ring,       \* Ring::Snaps
  mayHave,    \* Ring::MayHave
  acked,      \* acknowledgements the server's connection has read
  oldest,     \* the oldest packet the server's connection remembers
  base,       \* the baseline CaptureWorld chose, while it builds the snapshot
  net,        \* snapshot packets on their way, lost if they never arrive
  heard,      \* the snapshots the client's connection received
  received,   \* World::Received
  latest,     \* World::LatestTick, 0 without HaveLatest
  applied,    \* World::Applied: the scene's replicated entities
  stamps,     \* history: the state the server recorded for every snapshot
  truth,      \* history: the world every snapshot was taken of
  cut,        \* history: snapshots that did not hold all their records
  sessions, rejoins

serverVars == <<world, dead, seq, ring, mayHave, base, stamps, truth, cut>>
clientVars == <<received, latest, applied>>
connVars   == <<acked, oldest, heard>>
vars == <<serverVars, connVars, net, clientVars, sessions, rejoins>>

Init ==
  /\ world = Nothing /\ dead = {} /\ seq = 0
  /\ ring = <<>> /\ mayHave = {} /\ base = <<>>
  /\ acked = {} /\ oldest = 1
  /\ net = {}
  /\ heard = {} /\ received = <<>> /\ latest = 0 /\ applied = Nothing
  /\ stamps = <<>> /\ truth = <<>> /\ cut = {}
  /\ sessions = 1 /\ rejoins = 0

-----------------------------------------------------------------------------
(* What the two sides compute alike *)

\* An entity's fields with those of an update laid over them.
Overlay(old, update) ==
  [f \in DOMAIN old \cup DOMAIN update |-> IF f \in DOMAIN update THEN update[f] ELSE old[f]]

\* A field is never taken back: a value with fewer fields leaves the others as they were.
ASSUME FieldsAssumption ==
  \A v, w \in Fields : v = [f \in DOMAIN v |-> v[f]] /\ Overlay(v, w) \in Fields

\* The state after a snapshot with these records on this baseline.
StampAfter(state, gone, set) ==
  [i \in (DOMAIN state \ gone) \cup DOMAIN set |->
     IF i \notin DOMAIN state THEN set[i]
     ELSE IF i \in DOMAIN set THEN Overlay(state[i], set[i]) ELSE state[i]]

\* Mutant of Last: one element too many is kept.
Last_OneMore(s, n) == IF Len(s) > n + 1 THEN SubSeq(s, Len(s) - n, Len(s)) ELSE s

\* The last n elements at most: a vector whose front is erased when it is full.
Last(s, n) == IF Len(s) > n THEN SubSeq(s, Len(s) - n + 1, Len(s)) ELSE s

-----------------------------------------------------------------------------
(* The server's main thread: CaptureWorld *)

\* Mutant of ChangedFields: a field the baseline does not have is not sent.
ChangedFields_Known(old, now) == {f \in DOMAIN now : f \in DOMAIN old /\ old[f] # now[f]}

\* The fields that are new or have another value.  A field the entity lost is not
\* mentioned.  (Yaw and Euler angles replace each other: one field, two kinds of value.)
ChangedFields(old, now) == {f \in DOMAIN now : f \notin DOMAIN old \/ old[f] # now[f]}

\* The record Diff makes of an entity: all of it when the baseline does not list it.
Record(state, i) ==
  IF i \notin DOMAIN state THEN world[i]
  ELSE [f \in ChangedFields(state[i], world[i]) |-> world[i][f]]

Changed(state) ==
  {i \in DOMAIN world : i \notin DOMAIN state \/ ChangedFields(state[i], world[i]) # {}}

\* A destroy for what left the baseline, and for all the client may have.
Gone(state, told) == (DOMAIN state \cup told) \ DOMAIN world

\* The n smallest of a set of ids.
Smallest(n, ids) == {i \in ids : Cardinality({j \in ids : j < i}) < n}

Least(m, n) == IF m < n THEN m ELSE n

SnapshotAcked(s) == s \in acked /\ s >= oldest

\* The snapshots of the ring that are acknowledged at this moment.
AckedSnaps == {k \in 1..Len(ring) : SnapshotAcked(ring[k].seq)}

\* The simulation steps between two captures: entities come, change and go.
\* CaptureWorld gathers the world and chooses the newest acknowledged baseline.
ChooseBaseline(w) ==
  /\ base = <<>> /\ seq < MaxSeq
  /\ \A i \in DOMAIN w \ DOMAIN world : \A j \in dead \cup DOMAIN world : i > j
  /\ world' = w
  /\ dead' = dead \cup (DOMAIN world \ DOMAIN w)
  /\ \/ AckedSnaps = {} /\ base' = [seq |-> 0, state |-> Nothing]
     \/ \E k \in AckedSnaps :
          /\ \A j \in AckedSnaps : ring[j].seq <= ring[k].seq
          /\ base' = [seq |-> ring[k].seq, state |-> ring[k].state]
  /\ UNCHANGED <<seq, ring, mayHave, stamps, truth, cut, connVars, net, clientVars, sessions, rejoins>>

\* Mutant of Settled: a destroy is settled once it was sent.
Settled_Sent == UNION {ring[k].gone : k \in 1..Len(ring)}

\* Destroys carried by acknowledged snapshots are settled.
Settled == UNION {ring[k].gone : k \in {k \in AckedSnaps : ~ring[k].confirmed}}

Noted ==
  [k \in 1..Len(ring) |-> [ring[k] EXCEPT !.confirmed = @ \/ SnapshotAcked(ring[k].seq)]]

\* Acknowledgements may have come in since the baseline was chosen.  The datagram
\* begins with the destroys, those of the baseline by id and then the others in the
\* order of a hash set, and goes on with the other records by id.
SendSnapshot ==
  LET told  == mayHave \ Settled
      gone  == Gone(base.state, told)
      moved == Changed(base.state)
      first == Smallest(Budget, gone \cap DOMAIN base.state)
      rest  == gone \ DOMAIN base.state
  IN
  /\ base # <<>>
  /\ \E more \in SUBSET rest :
       LET out   == first \cup more
           in    == Smallest(Budget - Cardinality(out), moved)
           set   == [i \in in |-> Record(base.state, i)]
           stamp == StampAfter(base.state, out, set)
           snap  == [seq |-> seq + 1, state |-> stamp, gone |-> out, confirmed |-> FALSE]
       IN
       /\ Cardinality(more) = Least(Budget - Cardinality(first), Cardinality(rest))
       /\ net' = net \cup {[seq |-> seq + 1, base |-> base.seq, gone |-> out, set |-> set]}
       /\ ring' = Last(Append(Noted, snap), RingCap)
       /\ mayHave' = told \cup (in \ DOMAIN base.state)
       /\ stamps' = Append(stamps, stamp)
       /\ cut' = IF out = gone /\ in = moved THEN cut ELSE cut \cup {seq + 1}
  /\ seq' = seq + 1
  /\ truth' = Append(truth, world)
  /\ base' = <<>>
  /\ UNCHANGED <<world, dead, connVars, clientVars, sessions, rejoins>>

-----------------------------------------------------------------------------
(* The connections and the network *)

\* Bound on reordering: a packet overtaken by more than Late snapshots is lost.
InTime(p) == \A s \in heard : s <= p.seq + Late

AckArrives(s) ==
  /\ s >= oldest
  /\ acked' = acked \cup {s}
  /\ UNCHANGED <<oldest, heard, serverVars, net, clientVars, sessions, rejoins>>

\* The server's connection sent so much else that its oldest packets are forgotten.
Forget(s) ==
  /\ oldest' = s + 1
  /\ UNCHANGED <<acked, heard, serverVars, net, clientVars, sessions, rejoins>>

\* The server heard nothing for so long that it dropped the connection, and the
\* client was admitted again: a new session.  Five seconds of silence are longer
\* than the ring is old, so nothing in it is acknowledged.  CaptureWorld erases
\* the ring when it runs while the account is away; a snapshot it was building as
\* the account left is not sent.
NewSession ==
  /\ sessions < MaxSessions /\ AckedSnaps = {} /\ (base # <<>> => base.seq = 0)
  /\ sessions' = sessions + 1
  /\ acked' = {} /\ heard' = {} /\ net' = {} /\ oldest' = seq + 1
  /\ received' = <<>> /\ latest' = 0
  /\ \/ ring' = <<>> /\ mayHave' = {} /\ base' = <<>>
     \/ base' \in {base, <<>>} /\ UNCHANGED <<ring, mayHave>>
  /\ UNCHANGED <<world, dead, seq, stamps, truth, cut, applied, rejoins>>

\* Another process of the account is admitted while the server still has the
\* connection of the one before it (a restart, a second computer): the server
\* points the connection at the new address and keeps it with its session.
Rejoin ==
  /\ rejoins < MaxRejoins
  /\ rejoins' = rejoins + 1
  /\ heard' = {} /\ net' = {}
  /\ received' = <<>> /\ latest' = 0 /\ applied' = Nothing
  /\ UNCHANGED <<serverVars, acked, oldest, sessions>>

-----------------------------------------------------------------------------
(* The client's main thread: ApplyPacket.  What the connection receives is   *)
(* queued in order and applied before anything that answers it is read, so   *)
(* one action does both.                                                     *)

Known(s) == \E k \in 1..Len(received) : received[k].seq = s

HasBaseline(p) == p.base = 0 \/ Known(p.base)

\* Mutant of BaseState: records are laid over what the scene shows.
BaseState_Latest(p) == IF p.base = 0 THEN Nothing ELSE applied

BaseState(p) ==
  IF p.base = 0 THEN Nothing
  ELSE received[CHOOSE k \in 1..Len(received) : received[k].seq = p.base].state

\* Mutant of Keep: a snapshot that is not applied is not kept.
Keep_Applied(s, state) ==
  IF Known(s) \/ s < latest THEN received
  ELSE Last(Append(received, [seq |-> s, state |-> state]), KeepCap)

\* Kept whether it is applied or not: the server may name it.
Keep(s, state) ==
  IF Known(s) THEN received
  ELSE Last(Append(received, [seq |-> s, state |-> state]), KeepCap)

\* Mutant of Newer: any snapshot is applied.
Newer_Any(p) == p.seq # latest

Newer(p) == p.seq > latest

ApplyPacket(p) ==
  /\ InTime(p)
  /\ heard' = heard \cup {p.seq}
  /\ IF HasBaseline(p)
     THEN LET full == StampAfter(BaseState(p), p.gone, p.set)
          IN  /\ received' = Keep(p.seq, full)
              /\ IF Newer(p) THEN latest' = p.seq /\ applied' = full
                             ELSE UNCHANGED <<latest, applied>>
     ELSE UNCHANGED clientVars
  /\ UNCHANGED <<serverVars, acked, oldest, net, sessions, rejoins>>

-----------------------------------------------------------------------------
Next ==
  \/ \E w \in State : ChooseBaseline(w)
  \/ SendSnapshot
  \/ \E s \in heard \ acked : AckArrives(s)
  \/ \E s \in oldest..seq : Forget(s)
  \/ \E p \in net : ApplyPacket(p)
  \/ NewSession
  \/ Rejoin

Spec == Init /\ [][Next]_vars

-----------------------------------------------------------------------------
Seqs   == 1..MaxSeq
Update == UNION {{[f \in names |-> v[f]] : names \in SUBSET DOMAIN v} : v \in Fields}
Packet == [seq : Seqs, base : 0..MaxSeq, gone : SUBSET Id,
           set : UNION {[ids -> Update] : ids \in SUBSET Id}]
Snap   == [seq : Seqs, state : State, gone : SUBSET Id, confirmed : BOOLEAN]

TypeOK ==
  /\ world \in State /\ dead \subseteq Id /\ seq \in 0..MaxSeq
  /\ ring \in Seq(Snap) /\ Len(ring) <= RingCap
  /\ mayHave \subseteq Id
  /\ base \in {<<>>} \cup [seq : 0..MaxSeq, state : State]
  /\ acked \subseteq Seqs /\ heard \subseteq Seqs /\ oldest \in 1..(MaxSeq + 1)
  /\ net \subseteq Packet
  /\ received \in Seq([seq : Seqs, state : State]) /\ Len(received) <= KeepCap
  /\ latest \in 0..MaxSeq /\ applied \in State
  /\ stamps \in Seq(State) /\ Len(stamps) = seq
  /\ truth \in Seq(State) /\ Len(truth) = seq
  /\ cut \subseteq Seqs
  /\ sessions \in 1..MaxSessions /\ rejoins \in 0..MaxRejoins

\* "Both sides compute the same state from the same records" (World.cpp): every
\* state the client keeps, and the one its scene shows, is the state the server
\* recorded for that sequence, whatever was lost, repeated or reordered.
StampsAgree ==
  /\ \A k \in 1..Len(received) : received[k].state = stamps[received[k].seq]
  /\ latest > 0 => applied = stamps[latest]

\* "Every baseline is a snapshot this client acknowledged, and the server picks
\* among its last 32, so this should not happen" (World.cpp): the baseline of a
\* snapshot the client would apply is one of the states it kept.
NewestDecodes == \A p \in net : InTime(p) /\ p.seq > latest => HasBaseline(p)

\* The scene is the server's world of one past moment, all of it: the entities and
\* every field they had, unless the snapshot could not hold all its records.
SceneIsTheWorld ==
  latest > 0 /\ latest \notin cut =>
    /\ DOMAIN applied = DOMAIN truth[latest]
    /\ \A i \in DOMAIN applied :
         \A f \in DOMAIN truth[latest][i] :
           f \in DOMAIN applied[i] /\ applied[i][f] = truth[latest][i][f]

\* "Any of them that is gone from the world gets a destroy in every snapshot, until
\* a snapshot that carried its destroy is acknowledged": an entity that is gone and
\* still in the client's scene is one the server goes on telling it about (unless
\* the snapshot it shows could not hold the destroys it needed).
ToldUntilGone ==
  latest > 0 /\ latest \notin cut => DOMAIN applied \ DOMAIN world \subseteq mayHave

\* An entity a newer snapshot had already destroyed is not spawned again by an
\* older one that arrives late (nor by a newer one that held all its records).
NoResurrection ==
  [][latest > 0 /\ latest' > 0 /\ latest' \notin cut =>
       \A i \in Id : /\ i \notin DOMAIN applied
                     /\ \E s \in 1..(latest - 1) : i \in DOMAIN truth[s]
                     /\ i \notin DOMAIN truth[latest]
                     => i \notin DOMAIN applied']_vars

\* "Nothing is lost by not applying it: the newer snapshot's state already includes
\* whatever this one changed" (World.cpp): an entity of an older state the client
\* has, still in the world, is in its scene.
NewerIncludesOlder ==
  \A k \in 1..Len(received) :
    received[k].seq < latest =>
      \A i \in DOMAIN received[k].state :
        i \in DOMAIN truth[latest] => i \in DOMAIN applied
=============================================================================
