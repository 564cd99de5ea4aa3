----------------------------- MODULE Connection -----------------------------
(***************************************************************************)
(* Net::Connection (Net/Connection.h, Connection.cpp): the packet header   *)
(* with its acknowledgement bitfield, and the reliable channel on top of   *)
(* it, one Connection object at each end of a session.  The network loses, *)
(* duplicates and reorders datagrams.                                      *)
(*                                                                         *)
(* Numbers are those of SerialNumbers.  A reliable message is identified   *)
(* with the number its sender gave it; the receiver reads only that        *)
(* number's wire value, and `log` records which message was handed up when *)
(* a given id was expected.  Payload sizes only decide how many messages   *)
(* fit in a datagram, so Build takes any non-empty prefix of the queue     *)
(* that spans at most MaxSpan ids.  The clock appears as the choice of     *)
(* whether the keepalive is due.                                           *)
(***************************************************************************)
EXTENDS SerialNumbers, Sequences, FiniteSets

CONSTANTS
  Client, Server,   \* the two ends
  AckBits,          \* width of the ack bitfield: 32
  SentCap,          \* packets remembered in m_Sent: 128
  MaxSpan,          \* widest run of ids one datagram can carry: 235
  Window,           \* kReliableWindow: 256
  MaxSeq,           \* bound: packets each end may send
  MaxId,            \* bound: reliable messages each end may queue
  MaxInFlight       \* bound: datagrams in the network at once

Peer == {Client, Server}
Other(p) == IF p = Client THEN Server ELSE Client

ASSUME PeerAssumption == Client # Server
ASSUME SizeAssumption ==
  /\ AckBits \in Nat \ {0} /\ SentCap \in Nat \ {0}
  /\ MaxSpan \in Nat /\ Window \in Nat
  /\ AckBits <= Half /\ 2 * SentCap <= Half
  /\ MaxSpan < Window /\ Window < Half
ASSUME BoundAssumption ==
  /\ MaxSeq \in [Peer -> Nat] /\ MaxId \in [Peer -> Nat] /\ MaxInFlight \in Nat

VARIABLES
  localSeq,     \* m_LocalSeq: last packet sent
  recv,         \* m_RecvAck, m_RecvBits, m_RecvExpected, m_RecvGot
  ackPending,   \* m_AckPending
  sent,         \* m_Sent
  tally,        \* m_Resolved and m_Lost
  outgoing,     \* m_Outgoing
  nextId,       \* m_NextReliable
  expect,       \* m_ExpectReliable
  held,         \* m_Held
  refused,      \* m_ReliableRefused
  log,          \* history: log[p][i] was delivered when i was expected
  got,          \* history: the peer's packets that Receive has seen
  net           \* datagrams in flight

sendVars == <<localSeq, sent, tally, outgoing, nextId>>
recvVars == <<recv, expect, held, refused, log, got>>
vars == <<sendVars, recvVars, ackPending, net>>

Init ==
  /\ localSeq = [p \in Peer |-> 0]
  /\ recv = [p \in Peer |-> [ack |-> 0, bits |-> {}, expected |-> 0, got |-> 0]]
  /\ ackPending = [p \in Peer |-> FALSE]
  /\ sent = [p \in Peer |-> <<>>]
  /\ tally = [p \in Peer |-> [resolved |-> 0, lost |-> 0]]
  /\ outgoing = [p \in Peer |-> {}]
  /\ nextId = [p \in Peer |-> 1]
  /\ expect = [p \in Peer |-> 1]
  /\ held = [p \in Peer |-> {}]
  /\ refused = [p \in Peer |-> 0]
  /\ log = [p \in Peer |-> <<>>]
  /\ got = [p \in Peer |-> {}]
  /\ net = {}

-----------------------------------------------------------------------------
(* Sending *)

Enqueue(p) ==
  /\ nextId[p] <= MaxId[p]
  /\ outgoing' = [outgoing EXCEPT ![p] = @ \cup {nextId[p]}]
  /\ nextId' = [nextId EXCEPT ![p] = After(@)]
  /\ UNCHANGED <<localSeq, sent, tally, recvVars, ackPending, net>>

\* Mutant of Remember: the cap on m_Sent is forgotten.
Remember_Uncapped(entries, entry) == Append(entries, entry)

\* Append to m_Sent and forget the oldest entry past the cap.
Remember(entries, entry) ==
  LET longer == Append(entries, entry)
  IN  IF Len(longer) > SentCap THEN Tail(longer) ELSE longer

\* A datagram may never be received, or be received again and again; a full
\* network forgets one it may or may not have delivered.
Kept(flight) ==
  IF Cardinality(flight) < MaxInFlight THEN {flight} ELSE {flight \ {d} : d \in flight}

\* One packet leaves p with the header of its receive state and these messages.
Transmit(p, msgs) ==
  LET seq == After(localSeq[p]) IN
  /\ localSeq[p] < MaxSeq[p]
  /\ localSeq' = [localSeq EXCEPT ![p] = seq]
  /\ sent' = [sent EXCEPT ![p] = Remember(@,
               [seq |-> seq, msgs |-> msgs, acked |-> FALSE, resolved |-> FALSE])]
  /\ ackPending' = [ackPending EXCEPT ![p] = FALSE]
  /\ \E kept \in Kept(net) :
       net' = kept \cup {[to |-> Other(p), seq |-> seq, msgs |-> msgs,
                          ack |-> recv[p].ack, bits |-> recv[p].bits]}
  /\ UNCHANGED <<tally, outgoing, nextId, recvVars>>

\* The messages of a data packet: the queue, oldest first, until one does not fit.
Prefixes(queue) ==
  {{m \in queue : m <= last} :
     last \in {m \in queue : \A first \in queue : m - first <= MaxSpan}}

\* Build for kKindData.  `due` is the keepalive interval having elapsed.
BuildData(p) ==
  \E due \in BOOLEAN :
    /\ due \/ outgoing[p] # {} \/ ackPending[p]
    /\ IF outgoing[p] = {} THEN Transmit(p, {})
       ELSE \E msgs \in Prefixes(outgoing[p]) : Transmit(p, msgs)

\* BuildSnapshot, and Build for the session request and accept: no messages.
BuildBare(p) == Transmit(p, {})

-----------------------------------------------------------------------------
(* Receiving *)

\* Mutants of Shifted: the previous newest packet one bit too high; no 32-bit edge.
Shifted_OneHigh(bits, diff) ==
  IF diff >= AckBits THEN {}
  ELSE {diff} \cup {i \in 0..AckBits-1 : i - diff \in bits}

Shifted_Endless(bits, diff) == {diff - 1} \cup {i + diff : i \in bits}

\* The bit field after the newest sequence moves up by diff; bit i stands for
\* the packet i + 1 before it.  A jump of AckBits or more clears the field.
Shifted(bits, diff) ==
  IF diff >= AckBits THEN {}
  ELSE {diff - 1} \cup {i \in 0..AckBits-1 : i - diff \in bits}

\* NoteSequence: the newest sequence and which of those before it arrived.
NoteSequence(p, seq) ==
  LET r    == recv[p]
      diff == Ahead(seq, r.ack)
      Set(new) == recv' = [recv EXCEPT ![p] = new]
  IN
  \/ /\ ~Used(seq)
     /\ UNCHANGED recv
  \/ /\ Used(seq) /\ r.ack = 0
     /\ Set([ack |-> seq, bits |-> {}, expected |-> 1, got |-> 1])
  \/ /\ Used(seq) /\ r.ack # 0 /\ diff > 0
     /\ Set([ack |-> r.ack + diff, bits |-> Shifted(r.bits, diff),
             expected |-> r.expected + diff, got |-> r.got + 1])
  \/ /\ Used(seq) /\ r.ack # 0 /\ diff <= 0
     /\ Set(IF diff < 0 /\ diff >= -AckBits /\ (-diff - 1) \notin r.bits
            THEN [r EXCEPT !.bits = @ \cup {-diff - 1}, !.got = @ + 1]
            ELSE r)

\* The packets a header acknowledges, and the entries of m_Sent they mark.
Acknowledged(d) ==
  IF d.ack = 0 THEN {} ELSE {d.ack} \cup {d.ack - 1 - i : i \in d.bits}

NewlyAcked(p, d) ==
  {k \in DOMAIN sent[p] : /\ ~sent[p][k].acked
                          /\ \E a \in Acknowledged(d) : Wire(a) = Wire(sent[p][k].seq)}

\* Resolve: too far behind the newest ack to be acknowledged any more.
GivenUp(p, d) ==
  {k \in DOMAIN sent[p] \ NewlyAcked(p, d) :
     /\ d.ack # 0 /\ ~sent[p][k].resolved
     /\ Ahead(d.ack, sent[p][k].seq) > AckBits}

Marked(entries, acked, lost) ==
  [k \in DOMAIN entries |->
     [entries[k] EXCEPT !.acked = @ \/ k \in acked, !.resolved = @ \/ k \in acked \cup lost]]

\* For every id of an acknowledged packet the first message in the queue that has this
\* id's field is erased: as many of those that share a field as there were such ids.
Erased(p, acked) ==
  {m \in outgoing[p] :
     LET Same(x) == Wire(x) = Wire(m) IN
     Cardinality({x \in outgoing[p] : Same(x) /\ x <= m})
       <= Cardinality({k \in acked : \E i \in sent[p][k].msgs : Same(i)})}

NoteAcks(p, d) ==
  LET acked == NewlyAcked(p, d)
      lost  == GivenUp(p, d)
  IN
  /\ sent' = [sent EXCEPT ![p] = Marked(@, acked, lost)]
  /\ outgoing' = [outgoing EXCEPT ![p] = @ \ Erased(p, acked)]
  /\ tally' = [tally EXCEPT ![p] =
       [resolved |-> @.resolved + Cardinality(acked) + Cardinality(lost),
        lost     |-> @.lost + Cardinality(lost)]]

\* Messages past the expected one that the bounds on m_Held turn away.  The
\* loop takes a packet oldest first; the run of ids it carries either starts
\* no later than the expected one, and nothing is held, or past it, and
\* nothing is delivered.
Refused(p, msgs) ==
  LET e     == expect[p]
      ahead == {m \in msgs : Ahead(m, e) > 0}
      Before(m) == {x \in ahead : Ahead(x, e) < Ahead(m, e)}
  IN  IF \E m \in msgs : Ahead(m, e) = 0 THEN {}
      ELSE {m \in ahead : \/ Ahead(m, e) > Window
                          \/ Cardinality(held[p] \cup Before(m)) >= Window}

\* Mutant of Due: the message before the expected one passes for it.
Due_OneBehind(pool, i) == {m \in pool : Ahead(m, i) \in {-1, 0}}

\* The messages that are delivered when id i is the expected one.
Due(pool, i) == {m \in pool : Ahead(m, i) = 0}

\* Everything from the expected id to the first id that is missing is delivered,
\* what is past that is held, and what is older than the expected id is ignored.
Deliver(p, pool) ==
  LET e == expect[p] IN
  \E next \in e..(e + Half) :
    /\ Used(next) /\ Due(pool, next) = {}
    /\ \A i \in e..(next - 1) : Used(i) => Due(pool, i) # {}
    /\ expect' = [expect EXCEPT ![p] = next]
    /\ log' = [log EXCEPT ![p] = [i \in 1..(next - 1) |->
                 IF i < e THEN @[i]
                 ELSE IF Used(i) THEN CHOOSE m \in Due(pool, i) : TRUE ELSE 0]]
    /\ held' = [held EXCEPT ![p] =
                 {m \in pool : Ahead(m, e) > 0 /\ \A i \in e..(next - 1) : m \notin Due(pool, i)}]

\* The loop over a packet's messages, with the drain of m_Held after each
\* delivery.
TakeMessages(p, msgs) ==
  LET off == Refused(p, msgs) IN
  /\ Deliver(p, held[p] \cup (msgs \ off))
  /\ refused' = [refused EXCEPT ![p] = @ + Cardinality(off)]

\* What the wrap asks of the network: no datagram arrives so late, or after so
\* long a silence, that half of a number space lies in between.  (A session
\* ends after five silent seconds; half of the sequences last nine minutes.)
\* And of the sender: a message it acknowledges has no whole space of them queued
\* behind it.
Timely(d) ==
  LET p == d.to IN
  /\ recv[p].ack # 0 => d.seq - recv[p].ack \in (1 - Half)..(Half - 1)
  /\ localSeq[p] - d.ack < Half
  /\ \A m \in d.msgs : expect[p] - m < Half
  /\ \A k \in NewlyAcked(p, d) : \A i \in sent[p][k].msgs, m \in outgoing[p] : m - i < Modulus

\* Connection::Receive.  The datagram stays in the network: it may come again.
Receive(d) ==
  LET p == d.to IN
  /\ Timely(d)
  /\ ackPending' = [ackPending EXCEPT ![p] = TRUE]
  /\ NoteSequence(p, d.seq)
  /\ NoteAcks(p, d)
  /\ TakeMessages(p, d.msgs)
  /\ got' = [got EXCEPT ![p] = @ \cup {d.seq}]
  /\ UNCHANGED <<localSeq, nextId, net>>

-----------------------------------------------------------------------------
Next ==
  \/ \E p \in Peer : Enqueue(p) \/ BuildData(p) \/ BuildBare(p)
  \/ \E d \in net : Receive(d)

Spec == Init /\ [][Next]_vars

\* Connection::IsAcked, which picks the baselines of the world's snapshots.
IsAcked(p, seq) == \E k \in DOMAIN sent[p] : Wire(sent[p][k].seq) = Wire(seq) /\ sent[p][k].acked

-----------------------------------------------------------------------------
Datagram == [to : Peer, seq : Nat, msgs : SUBSET Nat, ack : Nat, bits : SUBSET (0..AckBits-1)]
Entry    == [seq : Nat, msgs : SUBSET Nat, acked : BOOLEAN, resolved : BOOLEAN]

\* The type invariant of both Connection objects and of the network.
TypeOK ==
  /\ localSeq \in [Peer -> Nat]
  /\ recv \in [Peer -> [ack : Nat, bits : SUBSET (0..AckBits-1), expected : Nat, got : Nat]]
  /\ ackPending \in [Peer -> BOOLEAN]
  /\ sent \in [Peer -> Seq(Entry)]
  /\ tally \in [Peer -> [resolved : Nat, lost : Nat]]
  /\ outgoing \in [Peer -> SUBSET Nat]
  /\ nextId \in [Peer -> Nat]
  /\ expect \in [Peer -> Nat]
  /\ held \in [Peer -> SUBSET Nat]
  /\ refused \in [Peer -> Nat]
  /\ log \in [Peer -> Seq(Nat)]
  /\ got \in [Peer -> SUBSET Nat]
  /\ net \in SUBSET Datagram

\* Receive hands up exactly the messages the peer queued, each once, in the
\* order of Enqueue, whatever was lost, duplicated or reordered, and across the
\* wrap of the ids.
InOrder ==
  \A p \in Peer :
    /\ log[p] = [i \in 1..(expect[p] - 1) |-> IF Used(i) THEN i ELSE 0]
    /\ expect[p] <= nextId[Other(p)]

\* NoteAcks erases a message from m_Outgoing only when the peer has delivered it
\* or holds it: an acknowledgement that names the wrong packet would lose it.
NoneForgotten ==
  \A p \in Peer : \A i \in 1..(nextId[p] - 1) :
    Used(i) => \/ i \in outgoing[p]
               \/ i < expect[Other(p)]
               \/ i \in held[Other(p)]

\* "An honest sender cannot hit either limit" (netcode.md): the bounds on m_Held
\* never turn away a message Build sent.
NeverRefused == \A p \in Peer : refused[p] = 0

\* A packet IsAcked reports was received by the peer, although acknowledgements
\* are 16-bit numbers and a bit mask that arrive late and twice: the server
\* encodes snapshots against packets it believes the client has.
AcksAreTrue ==
  \A p \in Peer : \A k \in DOMAIN sent[p] :
    IsAcked(p, sent[p][k].seq) => sent[p][k].seq \in got[Other(p)]

\* "A packet that arrived late fills a gap the jump ahead already charged to
\* loss" (Connection.cpp:359): m_RecvGot never passes m_RecvExpected, whose
\* unsigned difference LossIn reports.
LateArrivalsWereCharged == \A p \in Peer : recv[p].got <= recv[p].expected

-----------------------------------------------------------------------------
(* The channel the two ends implement *)

\* The message ids up to n, and the list of them.
Numbered(n) == {i \in 1..n : Used(i)}
Ids(n) == [k \in 1..Cardinality(Numbered(n)) |->
             CHOOSE i \in Numbered(n) : Cardinality(Numbered(i)) = k]

\* What Enqueue was given at p, and what Receive handed up there, in order.
Queued(p) == Ids(nextId[p] - 1)
HandedUp(p) == LET ids == Ids(expect[p] - 1) IN [k \in DOMAIN ids |-> log[p][ids[k]]]

ToServer == INSTANCE Fifo WITH
  Message <- 1..MaxId[Client], written <- Queued(Client), read <- HandedUp(Server)
ToClient == INSTANCE Fifo WITH
  Message <- 1..MaxId[Server], written <- Queued(Server), read <- HandedUp(Client)

\* The two Connection objects with the network between them implement a FIFO
\* channel in each direction: Enqueue writes, Receive reads.
ImplementsFifo == ToServer!Spec /\ ToClient!Spec
=============================================================================
