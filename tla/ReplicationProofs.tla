------------------------- MODULE ReplicationProofs -------------------------
(***************************************************************************)
(* What a client shows is what the server recorded, and a snapshot that    *)
(* held all its records is the world it was taken of; what was destroyed   *)
(* is not spawned again; the client holds every baseline it is asked for,  *)
(* and is told of what is gone: for every set of entities and fields,      *)
(* every size of ring, datagram and history.                               *)
(***************************************************************************)
EXTENDS Replication, SequenceTheorems, FiniteSetTheorems, TLAPS

\* The state a baseline field of a packet names.
BaseOf(s) == IF s = 0 THEN Nothing ELSE stamps[s]

\* What the ring keeps for a sequence is what was recorded for it.
RingOK ==
  \A k \in 1..Len(ring) : ring[k].seq \in 1..seq /\ ring[k].state = stamps[ring[k].seq]

ChosenOK ==
  base # <<>> => base.seq \in 0..seq /\ base.state = BaseOf(base.seq) /\ seq < MaxSeq

\* The records of a packet lead from its baseline to what was recorded for it.
PacketOK(p) ==
  /\ p.seq \in 1..seq /\ p.base \in 0..seq
  /\ stamps[p.seq] = StampAfter(BaseOf(p.base), p.gone, p.set)

ReceivedOK == \A k \in 1..Len(received) : received[k].seq \in 1..seq

\* A state that has every entity of a world and every field it had.
Whole(state, w) ==
  /\ DOMAIN state = DOMAIN w
  /\ \A i \in DOMAIN w : \A f \in DOMAIN w[i] : f \in DOMAIN state[i] /\ state[i][f] = w[i][f]

WholeOK == \A s \in 1..seq : s \notin cut => Whole(stamps[s], truth[s])

\* The inductive invariant.
IInv ==
  /\ TypeOK
  /\ RingOK /\ ChosenOK /\ (\A p \in net : PacketOK(p))
  /\ ReceivedOK /\ latest \in 0..seq
  /\ WholeOK /\ StampsAgree

-----------------------------------------------------------------------------
(* States and records *)

LEMMA StateFacts ==
  /\ \A s \in State : /\ s = [i \in DOMAIN s |-> s[i]]
                      /\ DOMAIN s \subseteq Id
                      /\ \A i \in DOMAIN s : s[i] \in Fields
  /\ \A ids \in SUBSET Id : [ids -> Fields] \subseteq State
  /\ Nothing \in State /\ DOMAIN Nothing = {}
BY DEF State, Nothing

\* Laying the fields that changed over the old ones is laying all the new ones.
LEMMA OverlayChanged ==
  ASSUME NEW v \in Fields, NEW w \in Fields
  PROVE  Overlay(v, [f \in ChangedFields(v, w) |-> w[f]]) = Overlay(v, w)
<1> DEFINE c == [f \in ChangedFields(v, w) |-> w[f]]
<1>1. DOMAIN c = ChangedFields(v, w) /\ ChangedFields(v, w) \subseteq DOMAIN w
  BY DEF ChangedFields
<1>2. DOMAIN v \cup DOMAIN c = DOMAIN v \cup DOMAIN w
  BY <1>1 DEF ChangedFields
<1>3. ASSUME NEW f \in DOMAIN v \cup DOMAIN w
      PROVE  (IF f \in DOMAIN c THEN c[f] ELSE v[f]) = (IF f \in DOMAIN w THEN w[f] ELSE v[f])
  BY <1>1 DEF ChangedFields
<1> QED
  BY <1>2, <1>3 DEF Overlay

LEMMA RecordTyped ==
  ASSUME NEW state \in State, world \in State, NEW i \in DOMAIN world
  PROVE  Record(state, i) \in Update
<1>1. world[i] \in Fields /\ (i \in DOMAIN state => state[i] \in Fields)
  BY StateFacts
<1>2. ASSUME NEW v \in Fields, NEW names \in SUBSET DOMAIN v
      PROVE  [f \in names |-> v[f]] \in Update
  BY DEF Update
<1>3. CASE i \notin DOMAIN state
  <2>1. world[i] = [f \in DOMAIN world[i] |-> world[i][f]]
    BY <1>1, FieldsAssumption
  <2> QED
    BY <1>1, <1>2, <1>3, <2>1 DEF Record
<1>4. CASE i \in DOMAIN state
  BY <1>1, <1>2, <1>4 DEF Record, ChangedFields
<1> QED
  BY <1>3, <1>4

\* The entity a snapshot leaves in place of another: the old fields under the new.
LEMMA StampField ==
  ASSUME NEW state \in State, world \in State, NEW out, NEW set,
         NEW i \in DOMAIN set, i \in DOMAIN world, set[i] = Record(state, i)
  PROVE  /\ StampAfter(state, out, set)[i] =
              IF i \in DOMAIN state THEN Overlay(state[i], world[i]) ELSE world[i]
         /\ StampAfter(state, out, set)[i] \in Fields
<1>1. world[i] \in Fields /\ (i \in DOMAIN state => state[i] \in Fields)
  BY StateFacts
<1>2. CASE i \in DOMAIN state
  <2>1. StampAfter(state, out, set)[i] = Overlay(state[i], Record(state, i))
    BY <1>2 DEF StampAfter
  <2>2. Record(state, i) = [f \in ChangedFields(state[i], world[i]) |-> world[i][f]]
    BY <1>2 DEF Record
  <2>3. StampAfter(state, out, set)[i] = Overlay(state[i], world[i])
    BY <1>1, <1>2, <2>1, <2>2, OverlayChanged
  <2> QED
    BY <1>1, <1>2, <2>3, FieldsAssumption
<1>3. CASE i \notin DOMAIN state
  BY <1>1, <1>3 DEF StampAfter, Record
<1> QED
  BY <1>2, <1>3

LEMMA StampTyped ==
  ASSUME NEW state \in State, world \in State,
         NEW out, NEW set, DOMAIN set \subseteq DOMAIN world,
         \A i \in DOMAIN set : set[i] = Record(state, i)
  PROVE  StampAfter(state, out, set) \in State
<1> DEFINE in    == DOMAIN set
           stamp == StampAfter(state, out, set)
<1>1. DOMAIN stamp = (DOMAIN state \ out) \cup in
  BY DEF StampAfter
<1>2. stamp = [i \in (DOMAIN state \ out) \cup in |-> stamp[i]]
  BY DEF StampAfter
<1>3. ASSUME NEW i \in in PROVE stamp[i] \in Fields
  BY <1>3, StampField
<1>4. ASSUME NEW i \in DOMAIN stamp \ in PROVE stamp[i] \in Fields
  BY StateFacts DEF StampAfter
<1>5. stamp \in [(DOMAIN state \ out) \cup in -> Fields]
  <2> HIDE DEF stamp
  <2> QED
    BY <1>1, <1>2, <1>3, <1>4
<1>6. DOMAIN state \subseteq Id /\ DOMAIN world \subseteq Id
  BY StateFacts
<1> QED
  BY <1>5, <1>6, StateFacts

\* Last keeps a tail of the sequence, no longer than asked for.
LEMMA LastFacts ==
  ASSUME NEW S, NEW s \in Seq(S), NEW n \in Nat \ {0}
  PROVE  /\ Last(s, n) \in Seq(S) /\ Len(Last(s, n)) <= n
         /\ \A k \in 1..Len(Last(s, n)) : \E j \in 1..Len(s) : Last(s, n)[k] = s[j]
<1>1. CASE Len(s) > n
  <2> DEFINE a == Len(s) - n + 1
  <2>1. a \in Int /\ Len(s) \in Nat /\ a >= 1 /\ a <= Len(s)
    BY <1>1
  <2>2. \A i \in a..Len(s) : s[i] \in S
    BY <2>1
  <2>3. /\ SubSeq(s, a, Len(s)) \in Seq(S)
        /\ Len(SubSeq(s, a, Len(s))) = Len(s) - a + 1
        /\ \A i \in 1..(Len(s) - a + 1) : SubSeq(s, a, Len(s))[i] = s[a + i - 1]
    BY <2>1, <2>2, SubSeqProperties, SMTT(30)
  <2>4. Last(s, n) = SubSeq(s, a, Len(s))
    BY <1>1 DEF Last
  <2>5. ASSUME NEW k \in 1..(Len(s) - a + 1)
        PROVE  \E j \in 1..Len(s) : Last(s, n)[k] = s[j]
    <3>1. a + k - 1 \in 1..Len(s) /\ Last(s, n)[k] = s[a + k - 1]
      BY <2>1, <2>3, <2>4
    <3> QED
      BY <3>1
  <2> HIDE DEF a
  <2>6. Len(s) - a + 1 = n
    BY <2>1 DEF a
  <2> QED
    BY <2>3, <2>4, <2>5, <2>6
<1>2. CASE ~(Len(s) > n)
  BY <1>2 DEF Last
<1> QED
  BY <1>1, <1>2

LEMMA NotedFacts ==
  ASSUME ring \in Seq(Snap)
  PROVE  /\ Noted \in Seq(Snap) /\ Len(Noted) = Len(ring)
         /\ \A k \in 1..Len(ring) : Noted[k].seq = ring[k].seq /\ Noted[k].state = ring[k].state
<1>1. Len(ring) \in Nat /\ \A k \in 1..Len(ring) : ring[k] \in Snap
  OBVIOUS
<1>2. ASSUME NEW k \in 1..Len(ring)
      PROVE  /\ Noted[k] \in Snap
             /\ Noted[k].seq = ring[k].seq /\ Noted[k].state = ring[k].state
  <2>1. Noted[k] = [ring[k] EXCEPT !.confirmed = ring[k].confirmed \/ SnapshotAcked(ring[k].seq)]
    BY DEF Noted
  <2>2. ring[k] \in Snap /\ SnapshotAcked(ring[k].seq) \in BOOLEAN
    BY <1>1 DEF SnapshotAcked
  <2> QED
    BY <2>1, <2>2 DEF Snap
<1>3. Noted \in [1..Len(ring) -> Snap]
  BY <1>2 DEF Noted
<1> QED
  BY <1>1, <1>2, <1>3

-----------------------------------------------------------------------------
(* The steps *)

LEMMA InitIInv == Init => IInv
<1> SUFFICES ASSUME Init PROVE IInv
  OBVIOUS
<1> USE DEF Init
<1>1. TypeOK
  <2>1. /\ world \in State /\ applied \in State /\ seq \in 0..MaxSeq /\ latest \in 0..MaxSeq
        /\ oldest \in 1..(MaxSeq + 1) /\ sessions \in 1..MaxSessions /\ rejoins \in 0..MaxRejoins
    BY StateFacts, LimitAssumption
  <2>2. /\ ring \in Seq(Snap) /\ Len(ring) <= RingCap
        /\ received \in Seq([seq : Seqs, state : State]) /\ Len(received) <= KeepCap
        /\ stamps \in Seq(State) /\ Len(stamps) = seq /\ truth \in Seq(State) /\ Len(truth) = seq
    BY EmptySeq, LimitAssumption
  <2>3. /\ dead \subseteq Id /\ mayHave \subseteq Id /\ base \in {<<>>} \cup [seq : 0..MaxSeq, state : State]
        /\ acked \subseteq Seqs /\ heard \subseteq Seqs /\ net \subseteq Packet /\ cut \subseteq Seqs
    OBVIOUS
  <2> QED
    BY <2>1, <2>2, <2>3 DEF TypeOK
<1>2. RingOK /\ ChosenOK /\ (\A p \in net : PacketOK(p)) /\ ReceivedOK /\ latest \in 0..seq
  BY DEF RingOK, ChosenOK, ReceivedOK
<1>3. WholeOK /\ StampsAgree
  BY DEF WholeOK, StampsAgree
<1> QED
  BY <1>1, <1>2, <1>3 DEF IInv

LEMMA ChooseBaselineStep ==
  ASSUME IInv, NEW w \in State, ChooseBaseline(w)
  PROVE  IInv'
<1> USE DEF ChooseBaseline, connVars, clientVars
<1>1. TypeOK /\ RingOK
  BY DEF IInv
<1>2. DOMAIN world \subseteq Id
  BY <1>1, StateFacts DEF TypeOK
<1>3. /\ base' \in [seq : 0..MaxSeq, state : State]
      /\ base'.seq \in 0..seq /\ base'.state = BaseOf(base'.seq)
  <2>1. CASE AckedSnaps = {} /\ base' = [seq |-> 0, state |-> Nothing]
    BY <1>1, <2>1, StateFacts, LimitAssumption DEF BaseOf, TypeOK
  <2>2. ASSUME NEW k \in AckedSnaps, base' = [seq |-> ring[k].seq, state |-> ring[k].state]
        PROVE  /\ base' \in [seq : 0..MaxSeq, state : State]
               /\ base'.seq \in 0..seq /\ base'.state = BaseOf(base'.seq)
    <3>1. ring[k] \in Snap /\ ring[k].seq \in 1..seq /\ ring[k].state = stamps[ring[k].seq]
      BY <1>1 DEF AckedSnaps, TypeOK, RingOK
    <3>2. seq \in Nat /\ seq <= MaxSeq /\ MaxSeq \in Nat
      BY <1>1, LimitAssumption DEF TypeOK
    <3> QED
      BY <2>2, <3>1, <3>2 DEF Snap, Seqs, BaseOf
  <2> QED
    BY <2>1, <2>2
<1>4. TypeOK'
  BY <1>1, <1>2, <1>3 DEF TypeOK
<1>5. ChosenOK'
  BY <1>3 DEF ChosenOK, BaseOf
<1>6. RingOK' /\ (\A p \in net : PacketOK(p))' /\ ReceivedOK' /\ (latest \in 0..seq)'
  BY DEF IInv, RingOK, PacketOK, ReceivedOK, BaseOf
<1>7. WholeOK' /\ StampsAgree'
  BY DEF IInv, WholeOK, StampsAgree
<1> QED
  BY <1>4, <1>5, <1>6, <1>7 DEF IInv

LEMMA SendSnapshotStep ==
  ASSUME IInv, SendSnapshot
  PROVE  IInv'
<1> DEFINE n     == seq + 1
           told  == mayHave \ Settled
           gone  == Gone(base.state, told)
           moved == Changed(base.state)
<1>1. /\ TypeOK /\ RingOK /\ ChosenOK /\ base # <<>>
      /\ base \in [seq : 0..MaxSeq, state : State]
      /\ seq \in Nat /\ n \in Seqs /\ seq < MaxSeq /\ MaxSeq \in Nat
      /\ base.seq \in 0..seq /\ base.state = BaseOf(base.seq) /\ base.state \in State
  BY LimitAssumption DEF IInv, TypeOK, SendSnapshot, ChosenOK, Seqs
<1>2. PICK more \in SUBSET (gone \ DOMAIN base.state) :
        LET out   == Smallest(Budget, gone \cap DOMAIN base.state) \cup more
            in    == Smallest(Budget - Cardinality(out), moved)
            set   == [i \in in |-> Record(base.state, i)]
            stamp == StampAfter(base.state, out, set)
            snap  == [seq |-> n, state |-> stamp, gone |-> out, confirmed |-> FALSE]
        IN
        /\ net' = net \cup {[seq |-> n, base |-> base.seq, gone |-> out, set |-> set]}
        /\ ring' = Last(Append(Noted, snap), RingCap)
        /\ mayHave' = told \cup (in \ DOMAIN base.state)
        /\ stamps' = Append(stamps, stamp)
        /\ cut' = IF out = gone /\ in = moved THEN cut ELSE cut \cup {n}
  <2> HIDE DEF gone, moved
  <2> QED
    BY DEF SendSnapshot, gone, moved
<1> DEFINE out   == Smallest(Budget, gone \cap DOMAIN base.state) \cup more
           in    == Smallest(Budget - Cardinality(out), moved)
           set   == [i \in in |-> Record(base.state, i)]
           stamp == StampAfter(base.state, out, set)
           snap  == [seq |-> n, state |-> stamp, gone |-> out, confirmed |-> FALSE]
<1>3. /\ out \subseteq gone /\ in \subseteq moved
      /\ set = [i \in in |-> Record(base.state, i)]
      /\ stamp = StampAfter(base.state, out, set)
      /\ snap = [seq |-> n, state |-> stamp, gone |-> out, confirmed |-> FALSE]
      /\ net' = net \cup {[seq |-> n, base |-> base.seq, gone |-> out, set |-> set]}
      /\ ring' = Last(Append(Noted, snap), RingCap)
      /\ mayHave' = told \cup (in \ DOMAIN base.state)
      /\ stamps' = Append(stamps, stamp)
      /\ cut' = IF out = gone /\ in = moved THEN cut ELSE cut \cup {n}
  <2>1. ASSUME NEW k, NEW ids PROVE Smallest(k, ids) \subseteq ids
    BY DEF Smallest
  <2>2. out \subseteq gone /\ in \subseteq moved
    BY <2>1
  <2> QED
    BY <1>2, <2>2
<1> HIDE DEF out, in, set, stamp, snap
<1>4. /\ seq' = n /\ truth' = Append(truth, world) /\ base' = <<>>
      /\ UNCHANGED <<world, dead, acked, oldest, heard, received, latest, applied, sessions, rejoins>>
  BY DEF SendSnapshot, connVars, clientVars
<1>5. /\ world \in State /\ DOMAIN world \subseteq Id /\ DOMAIN base.state \subseteq Id
      /\ mayHave \subseteq Id /\ gone \subseteq Id /\ moved \subseteq DOMAIN world
  BY <1>1, StateFacts DEF TypeOK, Gone, Changed
<1>6. /\ stamp \in State
      /\ DOMAIN stamp = (DOMAIN base.state \ out) \cup in
      /\ \A i \in in : stamp[i] = IF i \in DOMAIN base.state
                                  THEN Overlay(base.state[i], world[i]) ELSE world[i]
      /\ \A i \in DOMAIN base.state \ (out \cup in) : stamp[i] = base.state[i]
  <2>1. in \subseteq DOMAIN world /\ DOMAIN set = in /\ \A i \in in : set[i] = Record(base.state, i)
    BY <1>3, <1>5
  <2>2. stamp = StampAfter(base.state, out, set) /\ base.state \in State /\ world \in State
    BY <1>1, <1>3, <1>5
  <2>3. stamp \in State
    BY <2>1, <2>2, StampTyped
  <2>4. DOMAIN stamp = (DOMAIN base.state \ out) \cup in
    BY <2>1, <2>2 DEF StampAfter
  <2>5. ASSUME NEW i \in in
        PROVE  stamp[i] = IF i \in DOMAIN base.state
                            THEN Overlay(base.state[i], world[i]) ELSE world[i]
    BY <2>1, <2>2, StampField
  <2>6. \A i \in DOMAIN base.state \ (out \cup in) : stamp[i] = base.state[i]
    BY <2>1, <2>2 DEF StampAfter
  <2> QED
    BY <2>3, <2>4, <2>5, <2>6
<1>7. /\ stamps' \in Seq(State) /\ Len(stamps') = n
      /\ stamps'[n] = stamp /\ \A s \in 1..seq : stamps'[s] = stamps[s]
      /\ truth' \in Seq(State) /\ Len(truth') = n
      /\ truth'[n] = world /\ \A s \in 1..seq : truth'[s] = truth[s]
  <2>1. /\ stamps \in Seq(State) /\ Len(stamps) = seq /\ truth \in Seq(State) /\ Len(truth) = seq
    BY <1>1 DEF TypeOK
  <2>2. ASSUME NEW s \in Seq(State), Len(s) = seq, NEW x \in State
        PROVE  /\ Append(s, x) \in Seq(State) /\ Len(Append(s, x)) = n
               /\ Append(s, x)[n] = x /\ \A k \in 1..seq : Append(s, x)[k] = s[k]
    BY <1>1, <2>2
  <2>3. stamps' = Append(stamps, stamp) /\ truth' = Append(truth, world) /\ stamp \in State /\ world \in State
    BY <1>3, <1>4, <1>5, <1>6
  <2> HIDE DEF n
  <2> QED
    BY <2>1, <2>2, <2>3
<1>8. \A s \in 0..seq : BaseOf(s)' = BaseOf(s)
  BY <1>7 DEF BaseOf
<1>9. /\ ring' \in Seq(Snap) /\ Len(ring') <= RingCap
      /\ \A k \in 1..Len(ring') :
           \/ ring'[k].seq = n /\ ring'[k].state = stamp
           \/ \E j \in 1..Len(ring) : ring'[k].seq = ring[j].seq /\ ring'[k].state = ring[j].state
  <2>1. snap \in Snap
    BY <1>1, <1>3, <1>5, <1>6 DEF Snap
  <2>2. /\ Noted \in Seq(Snap) /\ Len(Noted) = Len(ring) /\ Len(ring) \in Nat
        /\ \A k \in 1..Len(ring) : Noted[k].seq = ring[k].seq /\ Noted[k].state = ring[k].state
    <3>1. ring \in Seq(Snap) /\ Len(ring) \in Nat
      BY <1>1 DEF TypeOK
    <3> QED
      BY <3>1, NotedFacts
  <2> DEFINE longer == Append(Noted, snap)
  <2>3. /\ longer \in Seq(Snap)
        /\ \A j \in 1..Len(longer) : \/ longer[j] = snap
                                     \/ j \in 1..Len(ring) /\ longer[j] = Noted[j]
    BY <2>1, <2>2
  <2>4. ring' = Last(longer, RingCap)
    BY <1>3
  <2>5. snap.seq = n /\ snap.state = stamp
    BY <1>3
  <2> HIDE DEF longer
  <2>6. /\ ring' \in Seq(Snap) /\ Len(ring') <= RingCap
        /\ \A k \in 1..Len(ring') : \E j \in 1..Len(longer) : ring'[k] = longer[j]
    <3>1. longer \in Seq(Snap) /\ RingCap \in Nat \ {0}
      BY <2>3, LimitAssumption
    <3> QED
      BY <2>4, <3>1, LastFacts
  <2>7. ASSUME NEW k \in 1..Len(ring')
        PROVE  \/ ring'[k].seq = n /\ ring'[k].state = stamp
               \/ \E j \in 1..Len(ring) : ring'[k].seq = ring[j].seq /\ ring'[k].state = ring[j].state
    <3>1. PICK j \in 1..Len(longer) : ring'[k] = longer[j]
      BY <2>6
    <3>2. CASE longer[j] = snap
      BY <2>5, <3>1, <3>2
    <3>3. CASE j \in 1..Len(ring) /\ longer[j] = Noted[j]
      BY <2>2, <3>1, <3>3
    <3> QED
      BY <2>3, <3>2, <3>3
  <2> QED
    BY <2>6, <2>7
<1>10. TypeOK'
  <2>1. /\ ring' \in Seq(Snap) /\ Len(ring') <= RingCap
        /\ stamps' \in Seq(State) /\ Len(stamps') = seq'
        /\ truth' \in Seq(State) /\ Len(truth') = seq'
    BY <1>4, <1>7, <1>9
  <2>2. seq' \in 0..MaxSeq /\ mayHave' \subseteq Id /\ base' \in {<<>>} \cup [seq : 0..MaxSeq, state : State]
    BY <1>1, <1>3, <1>4, <1>5 DEF Seqs
  <2>3. net' \subseteq Packet
    <3>1. \A i \in in : Record(base.state, i) \in Update
      BY <1>1, <1>3, <1>5, RecordTyped
    <3>2. in \in SUBSET Id /\ set \in [in -> Update]
      BY <1>3, <1>5, <3>1
    <3>3. set \in UNION {[ids -> Update] : ids \in SUBSET Id}
      BY <3>2
    <3>4. [seq |-> n, base |-> base.seq, gone |-> out, set |-> set] \in Packet
      BY <1>1, <1>3, <1>5, <3>3 DEF Packet
    <3> QED
      BY <1>1, <1>3, <3>4 DEF TypeOK
  <2>4. cut' \subseteq Seqs
    BY <1>1, <1>3 DEF TypeOK
  <2> QED
    BY <1>1, <1>4, <2>1, <2>2, <2>3, <2>4 DEF TypeOK
<1>11. RingOK'
  <2>1. ASSUME NEW k \in 1..Len(ring')
        PROVE  ring'[k].seq \in 1..n /\ ring'[k].state = stamps'[ring'[k].seq]
    <3>1. CASE ring'[k].seq = n /\ ring'[k].state = stamp
      BY <1>1, <1>7, <3>1
    <3>2. ASSUME NEW j \in 1..Len(ring), ring'[k].seq = ring[j].seq /\ ring'[k].state = ring[j].state
          PROVE  ring'[k].seq \in 1..n /\ ring'[k].state = stamps'[ring'[k].seq]
      <4>1. ring[j].seq \in 1..seq /\ ring[j].state = stamps[ring[j].seq]
        BY <1>1 DEF RingOK
      <4> QED
        BY <1>1, <1>7, <3>2, <4>1
    <3> QED
      BY <1>9, <3>1, <3>2
  <2> QED
    BY <1>4, <2>1 DEF RingOK
<1>12. ChosenOK'
  BY <1>4 DEF ChosenOK
<1>13. (\A p \in net : PacketOK(p))'
  <2>1. ASSUME NEW p \in net PROVE PacketOK(p)'
    <3>1. PacketOK(p)
      BY DEF IInv
    <3> QED
      BY <1>1, <1>4, <1>7, <1>8, <3>1 DEF PacketOK
  <2>2. ASSUME NEW p, p = [seq |-> n, base |-> base.seq, gone |-> out, set |-> set]
        PROVE  PacketOK(p)'
    BY <1>1, <1>3, <1>4, <1>7, <1>8, <2>2 DEF PacketOK
  <2> QED
    BY <1>3, <2>1, <2>2
<1>14. ReceivedOK' /\ (latest \in 0..seq)' /\ StampsAgree'
  <2>1. ReceivedOK /\ latest \in 0..seq /\ StampsAgree
    BY DEF IInv
  <2>2. ReceivedOK' /\ (latest \in 0..seq)'
    BY <1>1, <1>4, <2>1 DEF ReceivedOK
  <2>3. \A k \in 1..Len(received) : received[k].state = stamps'[received[k].seq]
    BY <1>7, <2>1 DEF ReceivedOK, StampsAgree
  <2>4. latest > 0 => applied = stamps'[latest]
    <3>1. latest > 0 => latest \in 1..seq
      BY <1>1, <2>1
    <3> QED
      BY <1>7, <2>1, <3>1 DEF StampsAgree
  <2> QED
    BY <1>4, <2>2, <2>3, <2>4 DEF StampsAgree
<1>15. WholeOK'
  <2>1. ASSUME NEW s \in 1..seq, s \notin cut' PROVE Whole(stamps'[s], truth'[s])
    BY <1>3, <1>7, <2>1 DEF IInv, WholeOK
  <2>2. ASSUME n \notin cut' PROVE Whole(stamps'[n], truth'[n])
    <3>1. out = gone /\ in = moved
      BY <1>3, <2>2
    <3>2. out = Gone(base.state, told) /\ in = Changed(base.state) /\ base.state \in State
      BY <1>1, <3>1
    <3>3. DOMAIN stamp = DOMAIN world
      BY <1>6, <3>2 DEF Gone, Changed
    <3>4. ASSUME NEW i \in DOMAIN world, NEW f \in DOMAIN world[i]
          PROVE  f \in DOMAIN stamp[i] /\ stamp[i][f] = world[i][f]
      <4>1. CASE i \in in
        BY <1>6, <4>1 DEF Overlay
      <4>2. CASE i \notin in
        <5>1. i \in DOMAIN base.state /\ ChangedFields(base.state[i], world[i]) = {}
          BY <3>2, <4>2 DEF Changed
        <5>2. stamp[i] = base.state[i]
          BY <1>6, <3>2, <4>2, <5>1 DEF Gone
        <5> QED
          BY <5>1, <5>2 DEF ChangedFields
      <4> QED
        BY <4>1, <4>2
    <3>5. Whole(stamp, world)
      BY <3>3, <3>4 DEF Whole
    <3> QED
      BY <1>7, <3>5
  <2>3. ASSUME NEW s \in 1..n, s \notin cut' PROVE Whole(stamps'[s], truth'[s])
    <3>1. s = n \/ s \in 1..seq
      BY <1>1
    <3> QED
      BY <2>1, <2>2, <2>3, <3>1
  <2> QED
    BY <1>4, <2>3 DEF WholeOK, Whole
<1> QED
  BY <1>10, <1>11, <1>12, <1>13, <1>14, <1>15 DEF IInv

\* What the connections and the sessions do to the invariant: acknowledgements,
\* histories and received states may go, nothing that was recorded changes.
LEMMA ConnectionStep ==
  ASSUME IInv,
         \/ \E s \in heard \ acked : AckArrives(s)
         \/ \E s \in oldest..seq : Forget(s)
         \/ NewSession
         \/ Rejoin
  PROVE  IInv'
<1>1. /\ TypeOK /\ RingOK /\ ChosenOK /\ (\A p \in net : PacketOK(p)) /\ ReceivedOK
      /\ latest \in 0..seq /\ WholeOK /\ StampsAgree
  BY DEF IInv
<1>2. /\ UNCHANGED <<world, dead, seq, stamps, truth, cut>>
      /\ \/ UNCHANGED <<ring, mayHave>>
         \/ ring' = <<>> /\ mayHave' = {}
      /\ base' = base \/ base' = <<>>
      /\ net' = net \/ net' = {}
      /\ \/ UNCHANGED clientVars
         \/ received' = <<>> /\ latest' = 0 /\ applied' \in {applied, Nothing}
  BY DEF AckArrives, Forget, NewSession, Rejoin, serverVars, clientVars
<1>3. /\ acked' \subseteq Seqs /\ heard' \subseteq Seqs /\ oldest' \in 1..(MaxSeq + 1)
      /\ sessions' \in 1..MaxSessions /\ rejoins' \in 0..MaxRejoins
  <2>1. ASSUME NEW s \in heard \ acked, AckArrives(s) PROVE <1>3
    BY <1>1, <2>1 DEF AckArrives, TypeOK
  <2>2. ASSUME NEW s \in oldest..seq, Forget(s) PROVE <1>3
    BY <1>1, <2>2, LimitAssumption DEF Forget, TypeOK
  <2>3. CASE NewSession
    BY <1>1, <2>3, LimitAssumption DEF NewSession, TypeOK
  <2>4. CASE Rejoin
    BY <1>1, <2>4, LimitAssumption DEF Rejoin, TypeOK
  <2> QED
    BY <2>1, <2>2, <2>3, <2>4
<1>4. TypeOK'
  <2>1. /\ world' \in State /\ dead' \subseteq Id /\ seq' \in 0..MaxSeq
        /\ base' \in {<<>>} \cup [seq : 0..MaxSeq, state : State] /\ net' \subseteq Packet
        /\ stamps' \in Seq(State) /\ Len(stamps') = seq'
        /\ truth' \in Seq(State) /\ Len(truth') = seq' /\ cut' \subseteq Seqs
    BY <1>1, <1>2 DEF TypeOK
  <2> DEFINE S == [seq : Seqs, state : State]
  <2>empty. /\ <<>> \in Seq(Snap) /\ <<>> \in Seq(S) /\ Len(<<>>) = 0
            /\ 0 <= RingCap /\ 0 <= KeepCap
    BY EmptySeq, LimitAssumption
  <2>2. ring' \in Seq(Snap) /\ Len(ring') <= RingCap /\ mayHave' \subseteq Id
    BY <1>1, <1>2, <2>empty DEF TypeOK
  <2>3. received' \in Seq(S) /\ Len(received') <= KeepCap
    BY <1>1, <1>2, <2>empty DEF TypeOK, clientVars
  <2>4. latest' \in 0..MaxSeq /\ applied' \in State
    BY <1>1, <1>2, StateFacts, LimitAssumption, SMTT(30) DEF TypeOK, clientVars
  <2> QED
    BY <1>3, <2>1, <2>2, <2>3, <2>4 DEF TypeOK
<1>5. RingOK' /\ ChosenOK' /\ (\A p \in net : PacketOK(p))'
  BY <1>1, <1>2 DEF RingOK, ChosenOK, PacketOK, BaseOf
<1>6. ReceivedOK' /\ (latest \in 0..seq)' /\ WholeOK' /\ StampsAgree'
  BY <1>1, <1>2 DEF ReceivedOK, WholeOK, StampsAgree, clientVars, TypeOK
<1> QED
  BY <1>4, <1>5, <1>6 DEF IInv

\* A packet with a baseline decodes to what the server recorded for it.
LEMMA FullIsTheStamp ==
  ASSUME IInv, NEW p \in net, HasBaseline(p)
  PROVE  /\ StampAfter(BaseState(p), p.gone, p.set) = stamps[p.seq]
         /\ stamps[p.seq] \in State /\ p.seq \in Seqs /\ p.seq \in 1..seq
<1>1. PacketOK(p) /\ StampsAgree /\ p.seq \in Seqs /\ p.seq \in 1..seq /\ stamps[p.seq] \in State
  BY DEF IInv, TypeOK, PacketOK, Packet
<1>2. CASE p.base = 0
  BY <1>1, <1>2 DEF PacketOK, BaseOf, BaseState
<1>3. CASE p.base # 0
  <2> DEFINE k == CHOOSE k \in 1..Len(received) : received[k].seq = p.base
  <2>1. k \in 1..Len(received) /\ received[k].seq = p.base
    BY <1>3 DEF HasBaseline, Known
  <2>2. BaseState(p) = received[k].state
    BY <1>3 DEF BaseState
  <2> HIDE DEF k
  <2> QED
    BY <1>1, <1>3, <2>1, <2>2 DEF StampsAgree, PacketOK, BaseOf
<1> QED
  BY <1>1, <1>2, <1>3

LEMMA ApplyPacketStep ==
  ASSUME IInv, NEW p \in net, ApplyPacket(p)
  PROVE  IInv'
<1>1. /\ TypeOK /\ RingOK /\ ChosenOK /\ (\A q \in net : PacketOK(q)) /\ ReceivedOK
      /\ latest \in 0..seq /\ WholeOK /\ StampsAgree
  BY DEF IInv
<1>2. /\ heard' = heard \cup {p.seq}
      /\ UNCHANGED <<world, dead, seq, ring, mayHave, base, stamps, truth, cut>>
      /\ UNCHANGED <<acked, oldest, net, sessions, rejoins>>
  BY DEF ApplyPacket, serverVars
<1>3. /\ PacketOK(p) /\ p.seq \in Seqs /\ p.seq \in 1..seq
      /\ seq \in 0..MaxSeq /\ MaxSeq \in Nat /\ stamps[p.seq] \in State
  <2>1. PacketOK(p) /\ p \in Packet /\ stamps \in Seq(State) /\ Len(stamps) = seq
    BY <1>1 DEF TypeOK
  <2>2. p.seq \in Seqs /\ p.seq \in 1..seq
    BY <2>1 DEF PacketOK, Packet
  <2>3. seq \in 0..MaxSeq /\ MaxSeq \in Nat
    BY <1>1, LimitAssumption DEF TypeOK
  <2> QED BY <2>1, <2>2, <2>3
<1>4. ASSUME HasBaseline(p)
      PROVE  StampAfter(BaseState(p), p.gone, p.set) = stamps[p.seq]
  BY <1>4, FullIsTheStamp
<1>5. /\ received' \in Seq([seq : Seqs, state : State]) /\ Len(received') <= KeepCap
      /\ \A k \in 1..Len(received') :
           received'[k].seq \in 1..seq /\ received'[k].state = stamps[received'[k].seq]
  <2> DEFINE S     == [seq : Seqs, state : State]
             entry == [seq |-> p.seq, state |-> stamps[p.seq]]
  <2>1. /\ received \in Seq(S) /\ Len(received) <= KeepCap /\ Len(received) \in Nat
        /\ \A k \in 1..Len(received) :
             received[k].seq \in 1..seq /\ received[k].state = stamps[received[k].seq]
    BY <1>1 DEF TypeOK, ReceivedOK, StampsAgree
  <2>2. received' = received \/ received' = Last(Append(received, entry), KeepCap)
    <3>1. CASE ~HasBaseline(p)
      BY <3>1 DEF ApplyPacket, clientVars
    <3>2. CASE HasBaseline(p)
      <4>1. received' = Keep(p.seq, stamps[p.seq])
        BY <1>4, <3>2 DEF ApplyPacket
      <4> QED
        BY <4>1 DEF Keep
    <3> QED
      BY <3>1, <3>2
  <2>3. CASE received' = received
    BY <2>1, <2>3
  <2>4. CASE received' = Last(Append(received, entry), KeepCap)
    <3>1. entry \in S /\ entry.seq = p.seq /\ entry.state = stamps[p.seq]
      BY <1>3
    <3> DEFINE longer == Append(received, entry)
    <3>2. /\ longer \in Seq(S)
          /\ \A j \in 1..Len(longer) : \/ longer[j] = entry
                                       \/ j \in 1..Len(received) /\ longer[j] = received[j]
      <4> HIDE DEF S, entry
      <4> QED
        BY <2>1, <3>1
    <3> HIDE DEF longer, S, entry
    <3>3. /\ received' \in Seq(S) /\ Len(received') <= KeepCap
          /\ \A k \in 1..Len(received') : \E j \in 1..Len(longer) : received'[k] = longer[j]
      <4>1. received' = Last(longer, KeepCap)
        BY <2>4 DEF longer
      <4>2. longer \in Seq(S) /\ KeepCap \in Nat \ {0}
        BY <3>2, LimitAssumption
      <4> QED
        BY <4>1, <4>2, LastFacts
    <3>4. ASSUME NEW k \in 1..Len(received')
          PROVE  received'[k].seq \in 1..seq /\ received'[k].state = stamps[received'[k].seq]
      <4>1. PICK j \in 1..Len(longer) : received'[k] = longer[j]
        BY <3>3
      <4>2. CASE longer[j] = entry
        BY <1>3, <3>1, <4>1, <4>2
      <4>3. CASE j \in 1..Len(received) /\ longer[j] = received[j]
        BY <2>1, <4>1, <4>3
      <4> QED
        BY <3>2, <4>2, <4>3
    <3> QED
      BY <3>3, <3>4 DEF S
  <2> QED
    BY <2>2, <2>3, <2>4
<1>6. /\ latest' \in 0..seq /\ latest' \in 0..MaxSeq /\ applied' \in State
      /\ latest' > 0 => applied' = stamps[latest']
  <2>1. /\ latest \in 0..MaxSeq /\ applied \in State
        /\ latest > 0 => applied = stamps[latest]
    BY <1>1 DEF TypeOK, StampsAgree
  <2>2. \/ latest' = latest /\ applied' = applied
        \/ latest' = p.seq /\ applied' = stamps[p.seq]
    BY <1>4 DEF ApplyPacket, clientVars
  <2> QED
    BY <1>1, <1>3, <2>1, <2>2
<1>7. TypeOK'
  BY <1>1, <1>2, <1>3, <1>5, <1>6 DEF TypeOK
<1>8. RingOK' /\ ChosenOK' /\ (\A q \in net : PacketOK(q))' /\ WholeOK'
  BY <1>1, <1>2 DEF RingOK, ChosenOK, PacketOK, BaseOf, WholeOK
<1>9. ReceivedOK' /\ (latest \in 0..seq)' /\ StampsAgree'
  BY <1>2, <1>5, <1>6 DEF ReceivedOK, StampsAgree
<1> QED
  BY <1>7, <1>8, <1>9 DEF IInv

-----------------------------------------------------------------------------
(* The theorems *)

\* IInv is inductive.
THEOREM Inductive == Spec => []IInv
<1>1. ASSUME IInv, [Next]_vars PROVE IInv'
  <2>1. ASSUME NEW w \in State, ChooseBaseline(w) PROVE IInv'
    BY <1>1, <2>1, ChooseBaselineStep
  <2>2. CASE SendSnapshot
    BY <1>1, <2>2, SendSnapshotStep
  <2>3. CASE \/ \E s \in heard \ acked : AckArrives(s)
             \/ \E s \in oldest..seq : Forget(s)
             \/ NewSession
             \/ Rejoin
    BY <1>1, <2>3, ConnectionStep
  <2>4. ASSUME NEW p \in net, ApplyPacket(p) PROVE IInv'
    BY <1>1, <2>4, ApplyPacketStep
  <2>5. CASE UNCHANGED vars
    BY <1>1, <2>5 DEF vars, serverVars, connVars, clientVars, IInv, TypeOK, RingOK, ChosenOK,
       PacketOK, ReceivedOK, WholeOK, StampsAgree, BaseOf
  <2> QED
    BY <1>1, <2>1, <2>2, <2>3, <2>4, <2>5 DEF Next
<1> QED
  BY InitIInv, <1>1, PTL DEF Spec

\* Server, client and network keep their types in every reachable state.
THEOREM TypeCorrect == Spec => []TypeOK
<1>1. IInv => TypeOK
  BY DEF IInv
<1> QED
  BY <1>1, Inductive, PTL

\* Every state the client keeps or shows is the one the server recorded for that
\* snapshot, whatever was lost, repeated, reordered or taken over.
THEOREM BothSidesAgree == Spec => []StampsAgree
<1>1. IInv => StampsAgree
  BY DEF IInv
<1> QED
  BY <1>1, Inductive, PTL

\* The client's scene is the server's world of one past moment, unless the
\* snapshot of that moment could not hold all its records.
THEOREM TheSceneIsTheWorld == Spec => []SceneIsTheWorld
<1>1. IInv => SceneIsTheWorld
  <2> SUFFICES ASSUME IInv, latest > 0, latest \notin cut
               PROVE  Whole(applied, truth[latest])
    BY DEF SceneIsTheWorld, Whole
  <2>1. latest \in 1..seq /\ applied = stamps[latest]
    BY DEF IInv, StampsAgree, TypeOK
  <2> QED
    BY <2>1 DEF IInv, WholeOK
<1> QED
  BY <1>1, Inductive, PTL

-----------------------------------------------------------------------------
(* Entities that go *)

\* From the snapshot t on, an entity is gone for good.
GoneSince(i, t) == i \in dead /\ \A u \in t..seq : i \notin DOMAIN truth[u]

\* Whatever was recorded, seen or told is there or gone, and what is gone stays gone.
IdsOK ==
  /\ dead \cap DOMAIN world = {} /\ mayHave \subseteq DOMAIN world \cup dead
  /\ \A s \in 1..seq : DOMAIN stamps[s] \cup DOMAIN truth[s] \subseteq DOMAIN world \cup dead
  /\ \A s, t \in 1..seq : s <= t => \A i \in DOMAIN truth[s] \ DOMAIN truth[t] : GoneSince(i, t)

\* The ring is the last snapshots, in their order, and their destroys are of entities that
\* were gone.
RingInOrder ==
  \A k \in 1..Len(ring) :
    /\ ring[k].seq = seq - Len(ring) + k
    /\ \A i \in ring[k].gone : GoneSince(i, ring[k].seq)

EntitiesOK == IdsOK /\ RingInOrder

\* Last is the end of the sequence.
LEMMA LastIsTheEnd ==
  ASSUME NEW S, NEW s \in Seq(S), NEW n \in Nat \ {0}
  PROVE  /\ Len(Last(s, n)) = (IF Len(s) > n THEN n ELSE Len(s))
         /\ \A k \in 1..Len(Last(s, n)) :
              /\ Len(s) - Len(Last(s, n)) + k \in 1..Len(s)
              /\ Last(s, n)[k] = s[Len(s) - Len(Last(s, n)) + k]
<1>1. CASE Len(s) > n
  <2> DEFINE a == Len(s) - n + 1
  <2>1. a \in Int /\ Len(s) \in Nat /\ a >= 1 /\ a <= Len(s)
    BY <1>1
  <2>2. /\ Len(SubSeq(s, a, Len(s))) = Len(s) - a + 1
        /\ \A i \in 1..(Len(s) - a + 1) : SubSeq(s, a, Len(s))[i] = s[a + i - 1]
    <3>1. \A i \in a..Len(s) : s[i] \in S
      BY <2>1
    <3> HIDE DEF a
    <3> QED BY <2>1, <3>1, SubSeqProperties
  <2>3. Last(s, n) = SubSeq(s, a, Len(s))
    BY <1>1 DEF Last
  <2>4. Len(Last(s, n)) = n
    BY <2>1, <2>2, <2>3
  <2>5. ASSUME NEW k \in 1..n
        PROVE  Len(s) - n + k \in 1..Len(s) /\ Last(s, n)[k] = s[Len(s) - n + k]
    <3>1. Len(s) - a + 1 = n /\ a + k - 1 = Len(s) - n + k
      BY <2>1
    <3>2. SubSeq(s, a, Len(s))[k] = s[a + k - 1]
      BY <2>2, <3>1
    <3> QED BY <1>1, <2>1, <2>3, <3>1, <3>2
  <2> QED
    BY <1>1, <2>4, <2>5
<1>2. CASE ~(Len(s) > n)
  BY <1>2 DEF Last
<1> QED
  BY <1>1, <1>2

\* What a snapshot does to what is recorded and told.
LEMMA SendFacts ==
  ASSUME IInv, SendSnapshot
  PROVE  \E out, in, set, stamp :
           /\ out \subseteq (DOMAIN base.state \cup (mayHave \ Settled)) \ DOMAIN world
           /\ in \subseteq DOMAIN world
           /\ mayHave' = (mayHave \ Settled) \cup (in \ DOMAIN base.state)
           /\ net' = net \cup {[seq |-> seq + 1, base |-> base.seq, gone |-> out, set |-> set]}
           /\ stamps' = Append(stamps, stamp) /\ DOMAIN stamp = (DOMAIN base.state \ out) \cup in
           /\ ring' = Last(Append(Noted, [seq |-> seq + 1, state |-> stamp, gone |-> out,
                                          confirmed |-> FALSE]), RingCap)
<1> DEFINE told  == mayHave \ Settled
           gone  == Gone(base.state, told)
           moved == Changed(base.state)
<1>1. PICK more \in SUBSET (gone \ DOMAIN base.state) :
        LET out   == Smallest(Budget, gone \cap DOMAIN base.state) \cup more
            in    == Smallest(Budget - Cardinality(out), moved)
            set   == [i \in in |-> Record(base.state, i)]
            stamp == StampAfter(base.state, out, set)
            snap  == [seq |-> seq + 1, state |-> stamp, gone |-> out, confirmed |-> FALSE]
        IN
        /\ net' = net \cup {[seq |-> seq + 1, base |-> base.seq, gone |-> out, set |-> set]}
        /\ ring' = Last(Append(Noted, snap), RingCap)
        /\ mayHave' = told \cup (in \ DOMAIN base.state)
        /\ stamps' = Append(stamps, stamp)
  <2> HIDE DEF gone, moved
  <2> QED BY DEF SendSnapshot, gone, moved
<1> DEFINE out   == Smallest(Budget, gone \cap DOMAIN base.state) \cup more
           in    == Smallest(Budget - Cardinality(out), moved)
           set   == [i \in in |-> Record(base.state, i)]
           stamp == StampAfter(base.state, out, set)
<1>2. out \subseteq gone /\ in \subseteq moved
  <2>1. ASSUME NEW k, NEW ids PROVE Smallest(k, ids) \subseteq ids
    BY DEF Smallest
  <2> QED BY <2>1
<1>3. gone = (DOMAIN base.state \cup told) \ DOMAIN world /\ moved \subseteq DOMAIN world
  BY DEF Gone, Changed
<1>4. DOMAIN stamp = (DOMAIN base.state \ out) \cup in
  <2>1. DOMAIN set = in
    OBVIOUS
  <2> HIDE DEF set
  <2> QED BY <2>1 DEF StampAfter
<1>5. /\ net' = net \cup {[seq |-> seq + 1, base |-> base.seq, gone |-> out, set |-> set]}
      /\ ring' = Last(Append(Noted, [seq |-> seq + 1, state |-> stamp, gone |-> out,
                                     confirmed |-> FALSE]), RingCap)
      /\ mayHave' = told \cup (in \ DOMAIN base.state)
      /\ stamps' = Append(stamps, stamp)
  BY <1>1
<1> HIDE DEF out, in, set, stamp, gone, moved
<1> QED
  BY <1>2, <1>3, <1>4, <1>5

\* What was recorded before stays recorded.
LEMMA SendRecords ==
  ASSUME IInv, SendSnapshot
  PROVE  /\ seq \in Nat /\ seq' = seq + 1
         /\ \A s \in 1..seq : stamps'[s] = stamps[s] /\ truth'[s] = truth[s]
         /\ truth'[seq'] = world
         /\ \A stamp : stamps' = Append(stamps, stamp) => stamps'[seq'] = stamp
<1>1. /\ stamps \in Seq(State) /\ Len(stamps) = seq /\ truth \in Seq(State) /\ Len(truth) = seq
      /\ seq \in Nat /\ seq' = seq + 1 /\ truth' = Append(truth, world)
  BY LimitAssumption DEF IInv, TypeOK, SendSnapshot
<1>2. PICK stamp : stamps' = Append(stamps, stamp)
  BY SendFacts
<1>3. ASSUME NEW s \in Seq(State), Len(s) = seq, NEW x
      PROVE  Append(s, x)[seq + 1] = x /\ \A k \in 1..seq : Append(s, x)[k] = s[k]
  BY <1>1, <1>3
<1> QED
  BY <1>1, <1>2, <1>3

\* The ring moves up by one, its oldest snapshot giving way when it is full.
LEMMA SendRing ==
  ASSUME IInv, SendSnapshot, NEW snap \in Snap, ring' = Last(Append(Noted, snap), RingCap)
  PROVE  /\ Len(ring') \in 1..RingCap /\ Len(ring') <= Len(ring) + 1
         /\ ring'[Len(ring')] = snap
         /\ \A k \in 1..(Len(ring') - 1) :
              /\ Len(ring) + 1 - Len(ring') + k \in 1..Len(ring)
              /\ ring'[k].seq = ring[Len(ring) + 1 - Len(ring') + k].seq
              /\ ring'[k].gone = ring[Len(ring) + 1 - Len(ring') + k].gone
<1>1. ring \in Seq(Snap) /\ Len(ring) \in Nat /\ RingCap \in Nat \ {0}
  BY LimitAssumption DEF IInv, TypeOK
<1>2. /\ Noted \in Seq(Snap) /\ Len(Noted) = Len(ring)
      /\ \A k \in 1..Len(ring) : Noted[k].seq = ring[k].seq
  BY <1>1, NotedFacts
<1>3. \A k \in 1..Len(ring) : Noted[k].gone = ring[k].gone
  <2>1. ASSUME NEW k \in 1..Len(ring) PROVE Noted[k].gone = ring[k].gone
    <3>1. ring[k] \in Snap
      BY <1>1
    <3>2. Noted[k] = [ring[k] EXCEPT !.confirmed = ring[k].confirmed \/ SnapshotAcked(ring[k].seq)]
      BY DEF Noted
    <3> QED BY <3>1, <3>2 DEF Snap
  <2> QED BY <2>1
<1> DEFINE longer == Append(Noted, snap)
<1>4. /\ longer \in Seq(Snap) /\ Len(longer) = Len(ring) + 1 /\ longer[Len(ring) + 1] = snap
      /\ \A j \in 1..Len(ring) : longer[j] = Noted[j]
  BY <1>1, <1>2
<1> HIDE DEF longer
<1>5. /\ Len(ring') = IF Len(longer) > RingCap THEN RingCap ELSE Len(longer)
      /\ \A k \in 1..Len(ring') : ring'[k] = longer[Len(longer) - Len(ring') + k]
  <2>1. /\ Len(Last(longer, RingCap)) = (IF Len(longer) > RingCap THEN RingCap ELSE Len(longer))
        /\ \A k \in 1..Len(Last(longer, RingCap)) :
             Last(longer, RingCap)[k] = longer[Len(longer) - Len(Last(longer, RingCap)) + k]
    BY <1>1, <1>4, LastIsTheEnd
  <2>2. ring' = Last(longer, RingCap)
    BY DEF longer
  <2> QED BY <2>1, <2>2
<1>6. Len(ring') \in 1..RingCap /\ Len(ring') <= Len(ring) + 1
  BY <1>1, <1>4, <1>5
<1>7. ring'[Len(ring')] = snap
  <2>1. Len(ring') \in 1..Len(ring') /\ Len(longer) - Len(ring') + Len(ring') = Len(ring) + 1
    BY <1>1, <1>4, <1>6
  <2> QED BY <1>4, <1>5, <2>1
<1>8. ASSUME NEW k \in 1..(Len(ring') - 1)
      PROVE  /\ Len(ring) + 1 - Len(ring') + k \in 1..Len(ring)
             /\ ring'[k] = Noted[Len(ring) + 1 - Len(ring') + k]
  <2>1. Len(ring) + 1 - Len(ring') + k \in 1..Len(ring)
    BY <1>1, <1>6
  <2>2. /\ k \in 1..Len(ring')
        /\ Len(longer) - Len(ring') + k = Len(ring) + 1 - Len(ring') + k
    BY <1>1, <1>4, <1>6
  <2> QED BY <1>4, <1>5, <2>1, <2>2
<1>9. ASSUME NEW k \in 1..(Len(ring') - 1), NEW j \in 1..Len(ring), j = Len(ring) + 1 - Len(ring') + k
      PROVE  ring'[k].seq = ring[j].seq /\ ring'[k].gone = ring[j].gone
  BY <1>2, <1>3, <1>8, <1>9
<1> QED
  BY <1>6, <1>7, <1>8, <1>9

\* What does not touch the server's records leaves the entities as they are.
LEMMA EntitiesKept ==
  ASSUME EntitiesOK, UNCHANGED <<world, dead, seq, stamps, truth>>,
         UNCHANGED <<ring, mayHave>> \/ (ring' = <<>> /\ mayHave' = {})
  PROVE  EntitiesOK'
<1>1. IdsOK'
  BY DEF EntitiesOK, IdsOK, GoneSince
<1>2. RingInOrder'
  BY DEF EntitiesOK, RingInOrder, GoneSince
<1> QED
  BY <1>1, <1>2 DEF EntitiesOK

\* An entity that comes has a net id no entity had before it.
LEMMA EntitiesChange ==
  ASSUME IInv, EntitiesOK, NEW w \in State, ChooseBaseline(w)
  PROVE  EntitiesOK'
<1>1. /\ UNCHANGED <<seq, ring, mayHave, stamps, truth>> /\ world' = w
      /\ dead' = dead \cup (DOMAIN world \ DOMAIN w)
      /\ \A i \in DOMAIN w \ DOMAIN world : \A j \in dead \cup DOMAIN world : i > j
  BY DEF ChooseBaseline
<1>2. dead \cap DOMAIN w = {}
  <2> SUFFICES ASSUME NEW i \in dead, i \in DOMAIN w PROVE FALSE
    OBVIOUS
  <2>1. i \in Nat
    BY IdAssumption DEF IInv, TypeOK
  <2>2. i \notin DOMAIN world
    BY DEF EntitiesOK, IdsOK
  <2> QED BY <1>1, <2>1, <2>2
<1>3. ASSUME NEW i, NEW t, GoneSince(i, t) PROVE GoneSince(i, t)'
  BY <1>1, <1>3 DEF GoneSince
<1>4. IdsOK'
  <2>1. DOMAIN world \cup dead \subseteq DOMAIN world' \cup dead'
    BY <1>1
  <2>2. (dead \cap DOMAIN world = {})' /\ (mayHave \subseteq DOMAIN world \cup dead)'
    BY <1>1, <1>2, <2>1 DEF EntitiesOK, IdsOK
  <2>3. \A s \in 1..seq : DOMAIN stamps[s] \cup DOMAIN truth[s] \subseteq DOMAIN world' \cup dead'
    BY <2>1 DEF EntitiesOK, IdsOK
  <2>4. \A s, t \in 1..seq : s <= t => \A i \in DOMAIN truth[s] \ DOMAIN truth[t] : GoneSince(i, t)'
    BY <1>3 DEF EntitiesOK, IdsOK
  <2> QED BY <1>1, <2>2, <2>3, <2>4 DEF IdsOK
<1>5. RingInOrder'
  BY <1>1, <1>3 DEF EntitiesOK, RingInOrder
<1> QED
  BY <1>4, <1>5 DEF EntitiesOK

\* A snapshot records the world as it is, and destroys only what is gone from it.
LEMMA EntitiesSent ==
  ASSUME IInv, EntitiesOK, SendSnapshot
  PROVE  EntitiesOK'
<1>1. /\ UNCHANGED <<world, dead>> /\ seq \in Nat /\ seq' = seq + 1 /\ seq' \in 1..seq'
      /\ truth'[seq'] = world
      /\ \A s \in 1..seq : stamps'[s] = stamps[s] /\ truth'[s] = truth[s]
      /\ \A s \in 1..seq' : s \in 1..seq \/ s = seq'
  <2>1. UNCHANGED <<world, dead>> /\ seq \in Nat /\ seq' = seq + 1
    BY SendRecords DEF SendSnapshot
  <2>2. seq' \in 1..seq' /\ \A s \in 1..seq' : s \in 1..seq \/ s = seq'
    BY <2>1
  <2> QED BY <2>1, <2>2, SendRecords
<1>2. PICK out, in, set, stamp :
        /\ out \subseteq (DOMAIN base.state \cup (mayHave \ Settled)) \ DOMAIN world
        /\ in \subseteq DOMAIN world
        /\ mayHave' = (mayHave \ Settled) \cup (in \ DOMAIN base.state)
        /\ net' = net \cup {[seq |-> seq + 1, base |-> base.seq, gone |-> out, set |-> set]}
        /\ stamps' = Append(stamps, stamp) /\ DOMAIN stamp = (DOMAIN base.state \ out) \cup in
        /\ ring' = Last(Append(Noted, [seq |-> seq + 1, state |-> stamp, gone |-> out,
                                       confirmed |-> FALSE]), RingCap)
  BY SendFacts
<1>3. stamps'[seq'] = stamp
  BY <1>2, SendRecords
<1>4. DOMAIN base.state \subseteq DOMAIN world \cup dead
  <2>1. base.seq \in 0..seq /\ base.state = BaseOf(base.seq)
    BY DEF IInv, ChosenOK, SendSnapshot
  <2> QED
    BY <1>1, <2>1, StateFacts DEF BaseOf, EntitiesOK, IdsOK
<1>5. ASSUME NEW i, NEW t \in 1..seq, GoneSince(i, t) PROVE GoneSince(i, t)'
  <2>1. i \in dead' /\ i \notin DOMAIN world
    BY <1>1, <1>5 DEF GoneSince, EntitiesOK, IdsOK
  <2>2. ASSUME NEW u \in t..seq' PROVE i \notin DOMAIN truth'[u]
    <3>1. (u \in t..seq /\ u \in 1..seq) \/ u = seq'
      BY <1>1, <1>5
    <3> QED BY <1>1, <1>5, <2>1, <3>1 DEF GoneSince
  <2> QED BY <2>1, <2>2 DEF GoneSince
<1>6. ASSUME NEW i \in dead, NEW t, t = seq + 1 PROVE GoneSince(i, t)'
  <2>1. i \notin DOMAIN world
    BY DEF EntitiesOK, IdsOK
  <2>2. \A u \in t..seq' : u = seq'
    BY <1>1, <1>6
  <2> QED BY <1>1, <2>1, <2>2 DEF GoneSince
<1>7. IdsOK'
  <2>1. (dead \cap DOMAIN world = {})' /\ (mayHave \subseteq DOMAIN world \cup dead)'
    BY <1>1, <1>2 DEF EntitiesOK, IdsOK
  <2>2. ASSUME NEW s \in 1..seq'
        PROVE  DOMAIN stamps'[s] \cup DOMAIN truth'[s] \subseteq DOMAIN world \cup dead
    BY <1>1, <1>2, <1>3, <1>4 DEF EntitiesOK, IdsOK
  <2>3. ASSUME NEW s \in 1..seq', NEW t \in 1..seq', s <= t, NEW i \in DOMAIN truth'[s] \ DOMAIN truth'[t]
        PROVE  GoneSince(i, t)'
    <3>1. CASE t \in 1..seq
      <4>1. s \in 1..seq
        BY <1>1, <2>3, <3>1
      <4> QED BY <1>1, <1>5, <2>3, <3>1, <4>1 DEF EntitiesOK, IdsOK
    <3>2. CASE t = seq'
      <4>1. i \in dead
        BY <1>1, <2>2, <2>3, <3>2
      <4> QED BY <1>1, <1>6, <3>2, <4>1
    <3> QED BY <1>1, <3>1, <3>2
  <2> QED BY <1>1, <2>1, <2>2, <2>3 DEF IdsOK
<1>8. RingInOrder'
  <2> DEFINE snap == [seq |-> seq + 1, state |-> stamp, gone |-> out, confirmed |-> FALSE]
  <2>1. snap \in Snap /\ snap.seq = seq + 1 /\ snap.gone = out
    <3>1. stamp \in State
      <4>1. stamps' \in Seq(State) /\ Len(stamps') = seq'
        BY SendSnapshotStep DEF IInv, TypeOK
      <4> QED BY <1>1, <1>3, <4>1
    <3>2. out \subseteq Id /\ seq + 1 \in Seqs
      <4>1. DOMAIN world \subseteq Id /\ dead \subseteq Id /\ mayHave \subseteq Id
        BY StateFacts DEF IInv, TypeOK
      <4>2. seq < MaxSeq /\ MaxSeq \in Nat
        BY LimitAssumption DEF IInv, SendSnapshot, ChosenOK
      <4> QED BY <1>1, <1>2, <1>4, <4>1, <4>2 DEF Seqs
    <3> QED BY <3>1, <3>2 DEF Snap
  <2>2. /\ Len(ring') \in 1..RingCap /\ ring'[Len(ring')] = snap
        /\ \A k \in 1..(Len(ring') - 1) :
              /\ Len(ring) + 1 - Len(ring') + k \in 1..Len(ring)
              /\ ring'[k].seq = ring[Len(ring) + 1 - Len(ring') + k].seq
              /\ ring'[k].gone = ring[Len(ring) + 1 - Len(ring') + k].gone
    BY <1>2, <2>1, SendRing
  <2>len. Len(ring) \in Nat /\ RingCap \in Nat
    BY LimitAssumption DEF IInv, TypeOK
  <2> HIDE DEF snap
  <2>3. ASSUME NEW k \in 1..Len(ring')
        PROVE  /\ ring'[k].seq = seq' - Len(ring') + k
               /\ (\A i \in ring[k].gone : GoneSince(i, ring[k].seq))'
    <3>1. CASE k = Len(ring')
      <4>1. ring'[k].seq = seq + 1 /\ ring'[k].gone = out /\ seq' - Len(ring') + k = seq + 1
        BY <1>1, <2>1, <2>2, <2>len, <3>1
      <4>2. out \subseteq dead
        BY <1>2, <1>4 DEF EntitiesOK, IdsOK
      <4>3. ASSUME NEW i \in ring'[k].gone, NEW t, t = ring'[k].seq PROVE GoneSince(i, t)'
        BY <1>6, <4>1, <4>2, <4>3
      <4> QED BY <4>1, <4>3 DEF GoneSince
    <3>2. CASE k # Len(ring')
      <4> DEFINE j == Len(ring) + 1 - Len(ring') + k
      <4>1. k \in 1..(Len(ring') - 1)
        BY <2>2, <2>len, <3>2
      <4>2. j \in 1..Len(ring) /\ ring'[k].seq = ring[j].seq /\ ring'[k].gone = ring[j].gone
        BY <2>2, <4>1
      <4>3. seq - Len(ring) + j = seq' - Len(ring') + k
        BY <1>1, <2>2, <2>len
      <4> HIDE DEF j
      <4>4. ring[j].seq = seq - Len(ring) + j /\ \A i \in ring[j].gone : GoneSince(i, ring[j].seq)
        BY <4>2 DEF EntitiesOK, RingInOrder
      <4>5. ring[j].seq \in 1..seq
        BY <4>2 DEF IInv, RingOK
      <4>6. ASSUME NEW i \in ring'[k].gone, NEW t, t = ring'[k].seq PROVE GoneSince(i, t)'
        BY <1>5, <4>2, <4>4, <4>5, <4>6
      <4> QED BY <4>2, <4>3, <4>4, <4>6 DEF GoneSince
    <3> QED BY <3>1, <3>2
  <2> QED BY <2>3 DEF RingInOrder
<1> QED
  BY <1>7, <1>8 DEF EntitiesOK

LEMMA EntitiesStep ==
  ASSUME IInv, EntitiesOK, [Next]_vars
  PROVE  EntitiesOK'
<1>1. ASSUME NEW w \in State, ChooseBaseline(w) PROVE EntitiesOK'
  BY <1>1, EntitiesChange
<1>2. CASE SendSnapshot
  BY <1>2, EntitiesSent
<1>3. CASE \/ \E s \in heard \ acked : AckArrives(s)
           \/ \E s \in oldest..seq : Forget(s)
           \/ \E p \in net : ApplyPacket(p)
           \/ NewSession
           \/ Rejoin
           \/ UNCHANGED vars
  <2>1. /\ UNCHANGED <<world, dead, seq, stamps, truth>>
        /\ UNCHANGED <<ring, mayHave>> \/ (ring' = <<>> /\ mayHave' = {})
    BY <1>3 DEF AckArrives, Forget, ApplyPacket, NewSession, Rejoin, serverVars, vars
  <2> QED BY <2>1, EntitiesKept
<1> QED
  BY <1>1, <1>2, <1>3 DEF Next

\* What was recorded, seen or told of entities agrees in every reachable state: what is
\* gone from one snapshot on is gone for good.
THEOREM GoneForGood == Spec => []EntitiesOK
<1>1. Init => EntitiesOK
  BY StateFacts DEF Init, EntitiesOK, IdsOK, RingInOrder
<1>2. IInv /\ EntitiesOK /\ [Next]_vars => EntitiesOK'
  BY EntitiesStep
<1> QED
  BY <1>1, <1>2, Inductive, PTL DEF Spec

\* An entity that a newer snapshot had destroyed is not spawned again by an older one
\* that arrives late, nor by a newer one that held all its records.
THEOREM OldSnapshotsSpawnNothing == Spec => NoResurrection
<1> DEFINE Kept == latest > 0 /\ latest' > 0 /\ latest' \notin cut =>
                     \A i \in Id : /\ i \notin DOMAIN applied
                                   /\ \E s \in 1..(latest - 1) : i \in DOMAIN truth[s]
                                   /\ i \notin DOMAIN truth[latest]
                                   => i \notin DOMAIN applied'
<1>1. ASSUME IInv, EntitiesOK, IInv', [Next]_vars PROVE Kept \/ UNCHANGED vars
  <2> SUFFICES ASSUME latest > 0, latest' > 0, latest' \notin cut, NEW i \in Id,
                      i \notin DOMAIN applied, NEW s \in 1..(latest - 1),
                      i \in DOMAIN truth[s], i \notin DOMAIN truth[latest]
               PROVE  i \notin DOMAIN applied'
    OBVIOUS
  <2>1. latest \in 1..seq /\ seq \in Nat /\ latest \in Nat
    BY <1>1 DEF IInv, TypeOK
  <2>2. CASE UNCHANGED <<latest, applied>>
    BY <2>2
  <2>3. ASSUME NEW p \in net, ApplyPacket(p), ~UNCHANGED <<latest, applied>> PROVE i \notin DOMAIN applied'
    <3>1. /\ latest' = p.seq /\ p.seq > latest /\ UNCHANGED <<seq, truth, cut>>
      BY <2>3 DEF ApplyPacket, Newer, serverVars, clientVars
    <3>2. latest' \in 1..seq' /\ DOMAIN applied' = DOMAIN truth'[latest']
      <4>1. latest' \in 1..seq' /\ applied' = stamps'[latest'] /\ latest' \notin cut'
        <5>1. StampsAgree' /\ latest' \in 0..seq'
          BY <1>1 DEF IInv
        <5>2. seq' \in Nat
          BY <2>1, <3>1
        <5>3. latest' \in 1..seq'
          BY <5>1, <5>2
        <5> QED BY <3>1, <5>1, <5>3 DEF StampsAgree
      <4>2. WholeOK'
        BY <1>1 DEF IInv
      <4> QED BY <4>1, <4>2 DEF WholeOK, Whole
    <3>3. GoneSince(i, latest)
      BY <1>1, <2>1 DEF EntitiesOK, IdsOK
    <3>4. latest' \in latest..seq
      BY <2>1, <3>1, <3>2
    <3> QED BY <3>1, <3>2, <3>3, <3>4 DEF GoneSince
  <2>4. UNCHANGED <<latest, applied>> \/ \E p \in net : ApplyPacket(p)
    BY <1>1 DEF Next, ChooseBaseline, SendSnapshot, AckArrives, Forget, NewSession, Rejoin,
       clientVars, vars
  <2> QED BY <2>2, <2>3, <2>4
<1>2. IInv /\ EntitiesOK /\ IInv' /\ [Next]_vars => [Kept]_vars
  BY <1>1
<1> QED
  BY <1>2, Inductive, GoneForGood, PTL DEF Spec, NoResurrection

-----------------------------------------------------------------------------
(* What the client still has *)

\* The client keeps the snapshots of the server's ring and those that packets can be
\* overtaken by, before and after them.  The code keeps 64 for a ring of 32.
KeepsEnough == KeepCap >= RingCap + 2 * Late

\* A process takes over only while nothing the one before it received is acknowledged.
TakesOverEarly == [][Rejoin => acked = {}]_vars

\* Acknowledgements, baselines and what the client shows are of this session, the
\* baselines not older than the ring.
SessionOK ==
  /\ acked \subseteq heard /\ heard \subseteq {p.seq : p \in net}
  /\ \A p \in net : p.base # 0 => p.base \in heard /\ p.seq - p.base \in 1..RingCap
  /\ base # <<>> /\ base.seq # 0 => base.seq \in acked /\ seq + 1 - base.seq \in 1..RingCap
  /\ latest > 0 => latest \in heard
  /\ \A s \in heard : s <= latest

\* The snapshots that can have come after s.
Since(s) == {t \in heard : t # s /\ t + Late >= s}

\* A snapshot is kept until KeepCap others came after it.
KeptOK ==
  /\ \A k \in 1..Len(received) : received[k].seq \in heard
  /\ \A j, k \in 1..Len(received) : j < k =>
        received[j].seq # received[k].seq /\ received[j].seq <= received[k].seq + Late
  /\ \A s \in heard : Known(s) \/ Cardinality(Since(s)) >= KeepCap

\* An entity a packet of this session shows is told about, or the client heard a snapshot
\* of after it was gone.
Told ==
  \A p \in net : \A i \in DOMAIN stamps[p.seq] : i \in mayHave \/ \E t \in heard : GoneSince(i, t)

ClientHas == SessionOK /\ KeptOK /\ Told

LEMMA HeardFacts ==
  ASSUME IInv, SessionOK
  PROVE  /\ seq \in Nat /\ heard \subseteq 1..seq /\ IsFiniteSet(heard)
         /\ \A S : S \subseteq heard => IsFiniteSet(S) /\ Cardinality(S) \in Nat
<1>1. seq \in Nat /\ MaxSeq \in Nat /\ heard \subseteq Seqs
  BY LimitAssumption DEF IInv, TypeOK
<1>2. heard \subseteq 1..seq
  BY DEF SessionOK, IInv, PacketOK
<1>3. IsFiniteSet(1..seq)
  BY <1>1, FS_Interval
<1>4. IsFiniteSet(heard)
  BY <1>2, <1>3, FS_Subset
<1>5. ASSUME NEW S, S \subseteq heard PROVE IsFiniteSet(S) /\ Cardinality(S) \in Nat
  BY <1>4, <1>5, FS_Subset, FS_CardinalityType
<1> QED
  BY <1>1, <1>2, <1>4, <1>5

\* Fewer than KeepCap snapshots fit between a baseline and the packet that names it.
LEMMA UnheardDecodes ==
  ASSUME KeepsEnough, IInv, SessionOK, KeptOK, NEW p \in net, InTime(p), p.seq \notin heard
  PROVE  HasBaseline(p)
<1> SUFFICES ASSUME p.base # 0, ~Known(p.base) PROVE FALSE
  BY DEF HasBaseline
<1> DEFINE b == p.base
           n == p.seq
           between == (b - Late)..(n + Late)
<1>1. /\ b \in heard /\ b \in Nat /\ n \in Nat /\ n - b \in 1..RingCap
      /\ RingCap \in Nat /\ KeepCap \in Nat /\ Late \in Nat
  <2>1. b \in heard /\ n - b \in 1..RingCap
    BY DEF SessionOK
  <2>2. n \in 1..seq /\ b \in 0..seq /\ seq \in Nat
    BY HeardFacts DEF IInv, PacketOK
  <2> QED BY <2>1, <2>2, LimitAssumption
<1>2. Cardinality(Since(b)) >= KeepCap
  BY <1>1 DEF KeptOK
<1>3. Since(b) \subseteq (between \ {b}) \ {n}
  <2> SUFFICES ASSUME NEW t \in Since(b) PROVE t \in (between \ {b}) \ {n}
    OBVIOUS
  <2>1. t \in heard /\ t # b /\ t + Late >= b /\ t <= n + Late /\ t # n
    BY DEF Since, InTime
  <2>2. t \in Nat
    BY <2>1, HeardFacts
  <2> QED BY <1>1, <2>1, <2>2
<1>4. IsFiniteSet(between) /\ Cardinality(between) = n - b + 2 * Late + 1
  <2>1. b - Late \in Int /\ n + Late \in Int /\ b - Late <= n + Late
    BY <1>1
  <2>2. /\ IsFiniteSet(between)
        /\ Cardinality(between) = IF b - Late > n + Late THEN 0 ELSE (n + Late) - (b - Late) + 1
    BY <2>1, FS_Interval
  <2> HIDE DEF between
  <2> QED BY <1>1, <2>1, <2>2
<1>5. b \in between /\ n \in between \ {b}
  BY <1>1
<1> HIDE DEF between, b, n
<1>6. /\ IsFiniteSet(between \ {b}) /\ Cardinality(between \ {b}) = Cardinality(between) - 1
      /\ IsFiniteSet((between \ {b}) \ {n})
      /\ Cardinality((between \ {b}) \ {n}) = Cardinality(between \ {b}) - 1
  <2>1. IsFiniteSet(between \ {b}) /\ Cardinality(between \ {b}) = Cardinality(between) - 1
    BY <1>4, <1>5, FS_RemoveElement
  <2> QED BY <1>5, <2>1, FS_RemoveElement
<1>7. /\ Cardinality(Since(b)) <= Cardinality((between \ {b}) \ {n})
      /\ Cardinality(Since(b)) \in Nat
  BY <1>3, <1>6, FS_Subset, FS_CardinalityType
<1> QED
  BY <1>1, <1>2, <1>4, <1>6, <1>7 DEF KeepsEnough

LEMMA NewestDecodesNow ==
  ASSUME KeepsEnough, IInv, SessionOK, KeptOK
  PROVE  NewestDecodes
<1> SUFFICES ASSUME NEW p \in net, InTime(p), p.seq > latest PROVE HasBaseline(p)
  BY DEF NewestDecodes
<1>1. p.seq \notin heard
  <2>1. p.seq \in 1..seq /\ latest \in 0..seq /\ seq \in Nat
    BY HeardFacts DEF IInv, PacketOK
  <2> QED BY <2>1 DEF SessionOK
<1> QED
  BY <1>1, UnheardDecodes

\* The first of a full queue gives way only to KeepCap others, all of them distinct.
LEMMA KeptApply ==
  ASSUME KeepsEnough, IInv, SessionOK, KeptOK, NEW p \in net, ApplyPacket(p)
  PROVE  KeptOK'
<1> DEFINE S == [seq : Seqs, state : State]
<1>1. /\ received \in Seq(S) /\ Len(received) \in Nat /\ Len(received) <= KeepCap
      /\ KeepCap \in Nat \ {0} /\ Late \in Nat /\ p.seq \in Nat
  <2>1. p.seq \in 1..seq /\ seq \in Nat
    BY HeardFacts DEF IInv, PacketOK
  <2> QED BY <2>1, LimitAssumption DEF IInv, TypeOK
<1>2. heard' = heard \cup {p.seq} /\ InTime(p)
  BY DEF ApplyPacket
<1>3. /\ heard' \subseteq Nat /\ IsFiniteSet(heard') /\ IsFiniteSet(heard)
  BY <1>1, <1>2, HeardFacts, FS_AddElement
<1>4. ASSUME NEW s \in heard, Cardinality(Since(s)) >= KeepCap
      PROVE  Cardinality(Since(s)') >= KeepCap
  <2>1. Since(s) \subseteq Since(s)' /\ Since(s)' \subseteq heard'
    BY <1>2 DEF Since
  <2>2. IsFiniteSet(Since(s)')
    BY <1>3, <2>1, FS_Subset
  <2>3. /\ Cardinality(Since(s)) \in Nat /\ Cardinality(Since(s)') \in Nat
        /\ Cardinality(Since(s)) <= Cardinality(Since(s)')
    BY <2>1, <2>2, FS_Subset, FS_CardinalityType
  <2> QED BY <1>1, <1>4, <2>3
<1>5. CASE received' = received /\ (p.seq \notin heard => Known(p.seq))
  <2>1. /\ \A k \in 1..Len(received) : received[k].seq \in heard'
        /\ \A j, k \in 1..Len(received) : j < k =>
             received[j].seq # received[k].seq /\ received[j].seq <= received[k].seq + Late
    BY <1>2 DEF KeptOK
  <2>2. ASSUME NEW s \in heard' PROVE Known(s)' \/ Cardinality(Since(s)') >= KeepCap
    <3>1. Known(s) <=> Known(s)'
      BY <1>5 DEF Known
    <3> QED BY <1>2, <1>4, <1>5, <3>1 DEF KeptOK
  <2> QED BY <1>5, <2>1, <2>2 DEF KeptOK
<1>6. ASSUME NEW e, e \in S, e.seq = p.seq, ~Known(p.seq),
             received' = Last(Append(received, e), KeepCap)
      PROVE  KeptOK'
  <2> DEFINE longer == Append(received, e)
             off    == Len(longer) - Len(received')
  <2>1. /\ longer \in Seq(S) /\ Len(longer) = Len(received) + 1
        /\ longer[Len(received) + 1] = e /\ \A j \in 1..Len(received) : longer[j] = received[j]
    <3> HIDE DEF S
    <3> QED BY <1>1, <1>6
  <2> HIDE DEF longer, S
  <2>2. /\ Len(received') = (IF Len(longer) > KeepCap THEN KeepCap ELSE Len(longer))
        /\ \A k \in 1..Len(received') : off + k \in 1..Len(longer) /\ received'[k] = longer[off + k]
    <3>1. received' = Last(longer, KeepCap)
      BY <1>6 DEF longer
    <3> QED BY <1>1, <2>1, <3>1, LastIsTheEnd
  <2>3. /\ off \in {0, 1} /\ Len(received') \in 1..KeepCap /\ Len(received') = Len(received) + 1 - off
        /\ off = 1 => Len(received') = KeepCap /\ Len(received) = KeepCap
    BY <1>1, <2>1, <2>2
  <2> HIDE DEF off
  <2>4. /\ \A k \in 1..Len(longer) : longer[k].seq \in heard'
        /\ \A j, k \in 1..Len(longer) : j < k =>
             longer[j].seq # longer[k].seq /\ longer[j].seq <= longer[k].seq + Late
    <3>1. \A k \in 1..Len(received) : received[k].seq \in heard /\ received[k].seq # p.seq
      BY <1>6 DEF KeptOK, Known
    <3>2. ASSUME NEW k \in 1..Len(longer)
          PROVE  \/ k \in 1..Len(received) /\ longer[k] = received[k]
                 \/ k = Len(received) + 1 /\ longer[k] = e
      BY <1>1, <2>1
    <3>3. \A k \in 1..Len(longer) : longer[k].seq \in heard'
      BY <1>2, <1>6, <3>1, <3>2
    <3>4. ASSUME NEW j \in 1..Len(longer), NEW k \in 1..Len(longer), j < k
          PROVE  longer[j].seq # longer[k].seq /\ longer[j].seq <= longer[k].seq + Late
      <4>1. j \in 1..Len(received) /\ longer[j] = received[j]
        BY <1>1, <2>1, <3>4
      <4>2. CASE k \in 1..Len(received) /\ longer[k] = received[k]
        BY <3>4, <4>1, <4>2 DEF KeptOK
      <4>3. CASE longer[k] = e
        <5>1. longer[j].seq \in heard /\ longer[j].seq # p.seq /\ longer[k].seq = p.seq
          BY <1>6, <3>1, <4>1, <4>3
        <5>2. \A s \in heard : s <= p.seq + Late
          BY <1>2 DEF InTime
        <5> QED BY <5>1, <5>2
      <4> QED BY <3>2, <4>2, <4>3
    <3> QED BY <3>3, <3>4
  <2>5. \A k \in 1..Len(received') : received'[k].seq \in heard'
    BY <2>2, <2>4
  <2>6. ASSUME NEW j \in 1..Len(received'), NEW k \in 1..Len(received'), j < k
        PROVE  received'[j].seq # received'[k].seq /\ received'[j].seq <= received'[k].seq + Late
    <3>1. off + j < off + k
      BY <2>3, <2>6
    <3> QED BY <2>2, <2>4, <3>1
  <2>7. ASSUME NEW j \in 1..Len(longer), ~(j = 1 /\ off = 1), NEW s, s = longer[j].seq PROVE Known(s)'
    <3>1. j - off \in 1..Len(received') /\ off + (j - off) = j
      BY <1>1, <2>1, <2>3, <2>7
    <3>2. received'[j - off].seq = longer[j].seq
      BY <2>2, <3>1
    <3> QED BY <2>7, <3>1, <3>2 DEF Known
  <2>8. ASSUME off = 1, NEW s, s = longer[1].seq PROVE Cardinality(Since(s)') >= KeepCap
    <3> DEFINE f == [k \in 1..KeepCap |-> received'[k].seq]
    <3>1. ASSUME NEW k \in 1..KeepCap PROVE f[k] \in Since(s)'
      <4>1. f[k] = longer[1 + k].seq /\ 1 + k \in 1..Len(longer) /\ 1 \in 1..Len(longer) /\ 1 < 1 + k
        BY <1>1, <2>2, <2>3, <2>8
      <4>2. f[k] # s /\ s <= f[k] + Late /\ f[k] \in heard'
        BY <2>4, <2>8, <4>1
      <4> HIDE DEF f
      <4> QED BY <4>2 DEF Since
    <3>2. ASSUME NEW j \in 1..KeepCap, NEW k \in 1..KeepCap, j # k PROVE f[j] # f[k]
      <4>1. j < k \/ k < j
        BY <1>1, <3>2
      <4> QED BY <2>3, <2>6, <2>8, <4>1
    <3>3. f \in Injection(1..KeepCap, Since(s)')
      <4> HIDE DEF f
      <4>1. f = [k \in 1..KeepCap |-> f[k]]
        BY DEF f
      <4> QED BY <3>1, <3>2, <4>1 DEF Injection, IsInjective
    <3>4. IsFiniteSet(Since(s)') /\ Cardinality(Since(s)') \in Nat
      <4>1. Since(s)' \subseteq heard'
        BY DEF Since
      <4> QED BY <1>3, <4>1, FS_Subset, FS_CardinalityType
    <3>5. IsFiniteSet(1..KeepCap) /\ Cardinality(1..KeepCap) = KeepCap
      BY <1>1, FS_Interval
    <3> HIDE DEF f
    <3> QED BY <1>1, <3>3, <3>4, <3>5, FS_Injection
  <2>9. ASSUME NEW s \in heard' PROVE Known(s)' \/ Cardinality(Since(s)') >= KeepCap
    <3>1. CASE s = p.seq
      <4>1. Len(longer) \in 1..Len(longer) /\ longer[Len(longer)].seq = s
            /\ ~(Len(longer) = 1 /\ off = 1)
        BY <1>1, <1>6, <2>1, <2>3, <3>1
      <4> QED BY <2>7, <4>1
    <3>2. CASE s \in heard /\ ~Known(s)
      BY <1>4, <3>2 DEF KeptOK
    <3>3. ASSUME NEW j \in 1..Len(received), received[j].seq = s
          PROVE  Known(s)' \/ Cardinality(Since(s)') >= KeepCap
      <4>1. j \in 1..Len(longer) /\ longer[j].seq = s
        BY <1>1, <2>1, <3>3
      <4> QED BY <2>7, <2>8, <4>1
    <3> QED BY <1>2, <3>1, <3>2, <3>3 DEF Known
  <2> QED BY <2>5, <2>6, <2>9 DEF KeptOK
<1>7. CASE HasBaseline(p)
  <2> DEFINE full == StampAfter(BaseState(p), p.gone, p.set)
             e    == [seq |-> p.seq, state |-> full]
  <2>1. received' = Keep(p.seq, full)
    BY <1>7 DEF ApplyPacket
  <2>2. CASE Known(p.seq)
    BY <1>5, <2>1, <2>2 DEF Keep
  <2>3. CASE ~Known(p.seq)
    <3>1. received' = Last(Append(received, e), KeepCap) /\ e.seq = p.seq
      BY <2>1, <2>3 DEF Keep
    <3>2. e \in S
      <4>1. full \in State /\ p.seq \in Seqs
        BY <1>7, FullIsTheStamp
      <4> HIDE DEF full
      <4> QED BY <4>1
    <3> HIDE DEF e, S
    <3> QED BY <1>6, <2>3, <3>1, <3>2
  <2> QED BY <2>2, <2>3
<1>8. CASE ~HasBaseline(p)
  <2>1. received' = received
    BY <1>8 DEF ApplyPacket, clientVars
  <2> QED BY <1>2, <1>5, <1>8, <2>1, UnheardDecodes
<1> QED
  BY <1>7, <1>8

\* Every snapshot the client hears is of the session, and becomes the newest when it is.
LEMMA SessionApply ==
  ASSUME KeepsEnough, IInv, SessionOK, KeptOK, NEW p \in net, ApplyPacket(p)
  PROVE  SessionOK'
<1>1. /\ UNCHANGED <<acked, net, base, seq>> /\ heard' = heard \cup {p.seq}
      /\ p.seq \in Nat /\ p.seq > 0 /\ latest \in Nat /\ heard \subseteq Nat
  BY HeardFacts DEF ApplyPacket, serverVars, IInv, PacketOK, TypeOK
<1>2. p.seq > latest => HasBaseline(p)
  BY NewestDecodesNow DEF NewestDecodes, ApplyPacket
<1>3. latest' = IF p.seq > latest THEN p.seq ELSE latest
  BY <1>2 DEF ApplyPacket, Newer, clientVars
<1>4. latest' > 0 => latest' \in heard'
  BY <1>1, <1>3 DEF SessionOK
<1>5. ASSUME NEW s \in heard' PROVE s <= latest'
  <2>1. s \in Nat /\ (s <= latest \/ s = p.seq)
    BY <1>1 DEF SessionOK
  <2> QED BY <1>1, <1>3, <2>1
<1>6. /\ acked' \subseteq heard' /\ heard' \subseteq {q.seq : q \in net'}
      /\ \A q \in net' : q.base # 0 => q.base \in heard' /\ q.seq - q.base \in 1..RingCap
      /\ base' # <<>> /\ base'.seq # 0 => base'.seq \in acked' /\ seq' + 1 - base'.seq \in 1..RingCap
  BY <1>1 DEF SessionOK
<1> QED
  BY <1>4, <1>5, <1>6 DEF SessionOK

LEMMA SessionStep ==
  ASSUME KeepsEnough, IInv, EntitiesOK, SessionOK, KeptOK, [Next]_vars,
         [Rejoin => acked = {}]_vars
  PROVE  SessionOK' /\ KeptOK'
<1>1. ASSUME NEW w \in State, ChooseBaseline(w) PROVE SessionOK' /\ KeptOK'
  <2>1. UNCHANGED <<seq, acked, heard, net, received, latest>>
    BY <1>1 DEF ChooseBaseline, connVars, clientVars
  <2>2. base'.seq # 0 => base'.seq \in acked /\ seq + 1 - base'.seq \in 1..RingCap
    <3>1. ASSUME NEW k \in AckedSnaps
          PROVE  ring[k].seq \in acked /\ seq + 1 - ring[k].seq \in 1..RingCap
      <4>1. /\ k \in 1..Len(ring) /\ ring[k].seq \in acked /\ ring[k].seq = seq - Len(ring) + k
        BY DEF AckedSnaps, SnapshotAcked, EntitiesOK, RingInOrder
      <4>2. seq \in Nat /\ Len(ring) \in Nat /\ Len(ring) <= RingCap /\ RingCap \in Nat
        BY HeardFacts, LimitAssumption DEF IInv, TypeOK
      <4> QED BY <4>1, <4>2
    <3>2. \/ base' = [seq |-> 0, state |-> Nothing]
          \/ \E k \in AckedSnaps : base' = [seq |-> ring[k].seq, state |-> ring[k].state]
      BY <1>1 DEF ChooseBaseline
    <3> QED BY <3>1, <3>2
  <2>3. SessionOK'
    BY <2>1, <2>2 DEF SessionOK
  <2>4. KeptOK'
    BY <2>1 DEF KeptOK, Known, Since
  <2> QED BY <2>3, <2>4
<1>2. CASE SendSnapshot
  <2>1. UNCHANGED <<acked, oldest, heard, received, latest>> /\ base # <<>> /\ base' = <<>>
    BY <1>2 DEF SendSnapshot, connVars, clientVars
  <2>2. PICK out, set : net' = net \cup {[seq |-> seq + 1, base |-> base.seq, gone |-> out, set |-> set]}
    BY <1>2, SendFacts
  <2> DEFINE sent == [seq |-> seq + 1, base |-> base.seq, gone |-> out, set |-> set]
  <2>3. \A q \in net' : q.base # 0 => q.base \in heard /\ q.seq - q.base \in 1..RingCap
    <3>1. sent.base # 0 => sent.base \in heard /\ sent.seq - sent.base \in 1..RingCap
      <4>1. sent.base = base.seq /\ sent.seq = seq + 1
        OBVIOUS
      <4> HIDE DEF sent
      <4>2. /\ base.seq # 0 => base.seq \in heard /\ seq + 1 - base.seq \in 1..RingCap
            /\ base.seq \in Nat /\ seq \in Nat
        BY <2>1, HeardFacts DEF SessionOK, IInv, ChosenOK
      <4> QED BY <4>1, <4>2
    <3> HIDE DEF sent
    <3>2. \A q \in net' : q \in net \/ q = sent
      BY <2>2 DEF sent
    <3> QED BY <3>1, <3>2 DEF SessionOK
  <2>4. heard \subseteq {q.seq : q \in net'}
    BY <2>2 DEF SessionOK
  <2>5. SessionOK'
    BY <2>1, <2>3, <2>4 DEF SessionOK
  <2>6. KeptOK'
    BY <2>1 DEF KeptOK, Known, Since
  <2> QED BY <2>5, <2>6
<1>3. ASSUME NEW p \in net, ApplyPacket(p) PROVE SessionOK' /\ KeptOK'
  BY <1>3, SessionApply, KeptApply
<1>4. CASE \/ \E s \in heard \ acked : AckArrives(s)
           \/ \E s \in oldest..seq : Forget(s)
           \/ UNCHANGED vars
  <2>1. /\ UNCHANGED <<seq, base, heard, net, received, latest>>
        /\ acked \subseteq acked' /\ acked' \subseteq heard
    BY <1>4 DEF AckArrives, Forget, vars, connVars, serverVars, clientVars, SessionOK
  <2>2. SessionOK'
    BY <2>1 DEF SessionOK
  <2>3. KeptOK'
    BY <2>1 DEF KeptOK, Known, Since
  <2> QED BY <2>2, <2>3
<1>5. CASE NewSession \/ Rejoin
  <2>1. heard' = {} /\ net' = {} /\ received' = <<>> /\ latest' = 0 /\ acked' = {}
    <3>1. CASE NewSession
      BY <3>1 DEF NewSession
    <3>2. CASE Rejoin /\ rejoins' # rejoins
      BY <3>2 DEF Rejoin, vars
    <3>3. Rejoin => rejoins' # rejoins
      BY DEF Rejoin, IInv, TypeOK
    <3> QED BY <1>5, <3>1, <3>2, <3>3
  <2>2. base' # <<>> => base'.seq = 0
    <3>1. CASE NewSession
      BY <3>1 DEF NewSession
    <3>2. CASE Rejoin
      <4>1. base' = base /\ acked' = acked
        BY <3>2 DEF Rejoin, serverVars
      <4> QED BY <2>1, <4>1 DEF SessionOK
    <3> QED BY <1>5, <3>1, <3>2
  <2>3. SessionOK'
    BY <2>1, <2>2 DEF SessionOK
  <2>4. KeptOK'
    BY <2>1 DEF KeptOK
  <2> QED BY <2>3, <2>4
<1> QED
  BY <1>1, <1>2, <1>3, <1>4, <1>5 DEF Next

\* A destroy is settled only when the client heard a snapshot that carried it.
LEMMA ToldStep ==
  ASSUME IInv, EntitiesOK, SessionOK, Told, [Next]_vars
  PROVE  Told'
<1>1. ASSUME NEW w \in State, ChooseBaseline(w) PROVE Told'
  <2>1. UNCHANGED <<seq, net, mayHave, stamps, truth, heard>> /\ dead \subseteq dead'
    BY <1>1 DEF ChooseBaseline, connVars
  <2> QED BY <2>1 DEF Told, GoneSince
<1>2. CASE SendSnapshot
  <2>1. /\ seq \in Nat /\ seq' = seq + 1 /\ UNCHANGED <<world, dead, heard>>
        /\ \A s \in 1..seq : stamps'[s] = stamps[s] /\ truth'[s] = truth[s]
        /\ truth'[seq'] = world
        /\ \A stamp : stamps' = Append(stamps, stamp) => stamps'[seq'] = stamp
    BY <1>2, SendRecords DEF SendSnapshot, connVars
  <2>2. PICK out, in, set, stamp :
          /\ in \subseteq DOMAIN world
          /\ mayHave' = (mayHave \ Settled) \cup (in \ DOMAIN base.state)
          /\ net' = net \cup {[seq |-> seq + 1, base |-> base.seq, gone |-> out, set |-> set]}
          /\ stamps' = Append(stamps, stamp) /\ DOMAIN stamp = (DOMAIN base.state \ out) \cup in
    BY <1>2, SendFacts
  <2>3. ASSUME NEW i, NEW t \in heard, GoneSince(i, t) PROVE GoneSince(i, t)'
    <3>1. i \in dead' /\ i \notin DOMAIN world /\ t \in 1..seq
      BY <2>1, <2>3, HeardFacts DEF GoneSince, EntitiesOK, IdsOK
    <3>2. ASSUME NEW u \in t..seq' PROVE i \notin DOMAIN truth'[u]
      <4>1. (u \in t..seq /\ u \in 1..seq) \/ u = seq'
        BY <2>1, <3>1
      <4> QED BY <2>1, <2>3, <3>1, <4>1 DEF GoneSince
    <3> QED BY <3>1, <3>2 DEF GoneSince
  <2>4. ASSUME NEW p \in net, NEW i \in DOMAIN stamps[p.seq]
        PROVE  i \in mayHave' \/ \E t \in heard : GoneSince(i, t)'
    <3>1. CASE i \in mayHave /\ i \in Settled
      <4>1. PICK k \in AckedSnaps : i \in ring[k].gone
        BY <3>1 DEF Settled
      <4>2. ring[k].seq \in heard /\ GoneSince(i, ring[k].seq)
        BY <4>1 DEF AckedSnaps, SnapshotAcked, SessionOK, EntitiesOK, RingInOrder
      <4>3. PICK t \in heard : t = ring[k].seq /\ GoneSince(i, t)
        BY <4>2
      <4> QED BY <2>3, <4>3
    <3>2. CASE i \in mayHave \ Settled
      BY <2>2, <3>2
    <3>3. CASE \E t \in heard : GoneSince(i, t)
      BY <2>3, <3>3
    <3> QED BY <3>1, <3>2, <3>3 DEF Told
  <2>5. ASSUME NEW i \in DOMAIN base.state PROVE i \in mayHave' \/ \E t \in heard : GoneSince(i, t)'
    <3>1. base.seq \in 0..seq /\ base.state = BaseOf(base.seq) /\ base # <<>>
      BY <1>2 DEF IInv, ChosenOK, SendSnapshot
    <3>2. base.seq # 0 /\ base.state = stamps[base.seq]
      BY <3>1, StateFacts DEF BaseOf
    <3>3. PICK p \in net : p.seq = base.seq
      BY <3>1, <3>2 DEF SessionOK
    <3> QED BY <2>4, <3>2, <3>3
  <2> DEFINE sent == [seq |-> seq + 1, base |-> base.seq, gone |-> out, set |-> set]
  <2>6. sent.seq = seq'
    BY <2>1
  <2> HIDE DEF sent
  <2>7. \A q \in net' : q \in net \/ q = sent
    BY <2>2 DEF sent
  <2>8. ASSUME NEW q \in net', NEW i \in DOMAIN stamps'[q.seq]
        PROVE  i \in mayHave' \/ \E t \in heard : GoneSince(i, t)'
    <3>1. CASE q \in net
      <4>1. q.seq \in 1..seq
        BY <3>1 DEF IInv, PacketOK
      <4> QED BY <2>1, <2>4, <2>8, <3>1, <4>1
    <3>2. CASE q = sent
      <4>1. i \in DOMAIN base.state \/ i \in mayHave'
        BY <2>1, <2>2, <2>6, <2>8, <3>2
      <4> QED BY <2>5, <4>1
    <3> QED BY <2>7, <3>1, <3>2
  <2> QED BY <2>1, <2>8 DEF Told
<1>3. CASE \/ \E s \in heard \ acked : AckArrives(s)
           \/ \E s \in oldest..seq : Forget(s)
           \/ \E p \in net : ApplyPacket(p)
           \/ UNCHANGED vars
  <2>1. UNCHANGED <<dead, seq, net, mayHave, stamps, truth>> /\ heard \subseteq heard'
    BY <1>3 DEF AckArrives, Forget, ApplyPacket, serverVars, connVars, vars
  <2> QED BY <2>1 DEF Told, GoneSince
<1>4. CASE NewSession \/ Rejoin
  BY <1>4 DEF NewSession, Rejoin, Told
<1> QED
  BY <1>1, <1>2, <1>3, <1>4 DEF Next

LEMMA ToldUntilGoneNow ==
  ASSUME IInv, SessionOK, Told
  PROVE  ToldUntilGone
<1> SUFFICES ASSUME latest > 0, latest \notin cut, NEW i \in DOMAIN applied, i \notin mayHave
             PROVE  FALSE
  BY DEF ToldUntilGone
<1>1. latest \in 1..seq /\ applied = stamps[latest] /\ seq \in Nat
  BY HeardFacts DEF IInv, StampsAgree
<1>2. i \in DOMAIN truth[latest]
  BY <1>1 DEF IInv, WholeOK, Whole
<1>3. PICK p \in net : p.seq = latest
  BY DEF SessionOK
<1>4. PICK t \in heard : GoneSince(i, t)
  BY <1>1, <1>3 DEF Told
<1>5. latest \in t..seq
  BY <1>1, HeardFacts DEF SessionOK
<1> QED
  BY <1>2, <1>4, <1>5 DEF GoneSince

\* Every snapshot the client would apply decodes, and what is gone and still shown is told
\* about, as long as the client keeps enough states and processes take over early.
LEMMA ClientHasAlways ==
  ASSUME KeepsEnough
  PROVE  Spec /\ TakesOverEarly => []ClientHas
<1>1. Init => ClientHas
  BY DEF Init, ClientHas, SessionOK, KeptOK, Told
<1>2. IInv /\ EntitiesOK /\ ClientHas /\ [Next]_vars /\ [Rejoin => acked = {}]_vars => ClientHas'
  BY SessionStep, ToldStep DEF ClientHas
<1> QED
  BY <1>1, <1>2, Inductive, GoneForGood, PTL DEF Spec, TakesOverEarly

\* The client still holds the baseline of every snapshot it would apply, in however many
\* sessions, whatever is lost, repeated and reordered, if it keeps the server's ring and
\* the reordering twice, and no process takes over once something is acknowledged.
THEOREM BaselinesAreKept ==
  ASSUME KeepsEnough
  PROVE  Spec /\ TakesOverEarly => []NewestDecodes
<1>1. IInv /\ ClientHas => NewestDecodes
  BY NewestDecodesNow DEF ClientHas
<1> QED
  BY <1>1, ClientHasAlways, Inductive, PTL

\* An entity that is gone and that a whole snapshot still shows is one the server goes on
\* telling the client about, under the same conditions.
THEOREM GoneIsTold ==
  ASSUME KeepsEnough
  PROVE  Spec /\ TakesOverEarly => []ToldUntilGone
<1>1. IInv /\ ClientHas => ToldUntilGone
  BY ToldUntilGoneNow DEF ClientHas
<1> QED
  BY <1>1, ClientHasAlways, Inductive, PTL
=============================================================================
