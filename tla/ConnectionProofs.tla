-------------------------- MODULE ConnectionProofs --------------------------
(***************************************************************************)
(* The safety of the connection for every number space, window, history    *)
(* length and bound: an inductive invariant of Connection and what follows *)
(* from it; and that the connection implements Fifo in each direction.     *)
(* Before them, what 16-bit comparison gives for numbers less than half    *)
(* the space apart: the exact difference.                                  *)
(***************************************************************************)
EXTENDS Connection, FiniteSetTheorems, WellFoundedInduction, TLAPS

-----------------------------------------------------------------------------
(* Numbers *)

\* Division with remainder.
LEMMA Division ==
  ASSUME NEW m \in Nat \ {0}, NEW n \in Int
  PROVE  /\ n \div m \in Int
         /\ n % m \in 0..(m - 1)
         /\ n = m * (n \div m) + (n % m)
OBVIOUS

LEMMA MultipleIsLarge ==
  ASSUME NEW m \in Nat \ {0}, NEW k \in Int, k # 0
  PROVE  m * k >= m \/ m * k <= -m
BY Z3

LEMMA Distributes ==
  ASSUME NEW m \in Nat, NEW j \in Int, NEW k \in Int
  PROVE  m * j - m * k = m * (j - k) /\ m * (j - k) \in Int
BY Z3

LEMMA ModulusType == Modulus \in Nat \ {0}
BY HalfAssumption DEF Modulus

\* A number and its wire value differ by whole spaces.
LEMMA WireDivision ==
  ASSUME NEW n \in Int
  PROVE  /\ Wire(n) \in 0..(Modulus - 1)
         /\ \E k \in Int : n = Modulus * k + Wire(n)
BY Division, ModulusType DEF Wire

\* Numbers less than a whole space apart are told apart by their wire values.
LEMMA WireInjective ==
  ASSUME NEW x \in Int, NEW y \in Int, x - y < Modulus, y - x < Modulus,
         Wire(x) = Wire(y)
  PROVE  x = y
<1>1. PICK j \in Int : x = Modulus * j + Wire(x)
  BY WireDivision
<1>2. PICK k \in Int : y = Modulus * k + Wire(y)
  BY WireDivision
<1>3. x - y = Modulus * (j - k)
  <2>1. Modulus * j \in Int /\ Modulus * k \in Int /\ Wire(y) \in Int
    BY WireDivision, ModulusType
  <2>2. x - y = Modulus * j - Modulus * k
    BY <1>1, <1>2, <2>1
  <2> QED
    BY <2>2, Distributes, ModulusType
<1>4. j - k = 0
  <2> SUFFICES ASSUME j - k # 0 PROVE FALSE
    OBVIOUS
  <2>1. Modulus * (j - k) >= Modulus \/ Modulus * (j - k) <= -Modulus
    BY MultipleIsLarge, ModulusType
  <2> QED
    BY <2>1, <1>3, ModulusType
<1> QED
  BY <1>3, <1>4, ModulusType

\* The comparison of two numbers is exact when they are less than half a space
\* apart: the signed 16-bit difference of the fields is their distance.
THEOREM AheadExact ==
  ASSUME NEW x \in Int, NEW y \in Int, x - y < Half, y - x <= Half
  PROVE  Ahead(x, y) = x - y
<1> DEFINE d == Wire(x) - Wire(y)
           r == d % Modulus
<1>1. /\ Wire(x) \in 0..(Modulus - 1) /\ Wire(y) \in 0..(Modulus - 1)
      /\ d \in Int
  <2>1. Wire(x) \in 0..(Modulus - 1) /\ Wire(y) \in 0..(Modulus - 1)
    BY WireDivision
  <2> QED
    BY <2>1, ModulusType
<1>2. PICK i \in Int, j \in Int :
        x = Modulus * i + Wire(x) /\ y = Modulus * j + Wire(y)
  BY WireDivision
<1>3. /\ r \in 0..(Modulus - 1)
      /\ \E k \in Int : d = Modulus * k + r
  BY Division, ModulusType, <1>1
<1>4. PICK k \in Int : d = Modulus * k + r
  BY <1>3
<1> DEFINE s == IF r >= Half THEN r - Modulus ELSE r
<1>5. s - (x - y) = Modulus * (j - i - k) \/ s - (x - y) = Modulus * (j - i - k - 1)
  <2>1. /\ Modulus * i \in Int /\ Modulus * j \in Int /\ Modulus * k \in Int
    BY ModulusType
  <2>2. r - (x - y) = (Modulus * j - Modulus * i) - Modulus * k
    <3> DEFINE a == Modulus * i
               b == Modulus * j
               c == Modulus * k
    <3>1. /\ x = a + Wire(x) /\ y = b + Wire(y) /\ Wire(x) - Wire(y) = c + r
          /\ a \in Int /\ b \in Int /\ c \in Int /\ r \in Int
          /\ Wire(x) \in Int /\ Wire(y) \in Int
      BY <1>1, <1>2, <1>3, <1>4, <2>1, ModulusType
    <3> HIDE DEF a, b, c, d, r
    <3>2. r - (x - y) = (b - a) - c
      BY <3>1
    <3> QED
      BY <3>2 DEF a, b, c
  <2> HIDE DEF r
  <2>3. r - (x - y) = Modulus * (j - i - k)
    BY <2>2, Distributes, ModulusType
  <2>4. (Modulus * (j - i - k)) - Modulus = Modulus * (j - i - k - 1)
    BY Distributes, ModulusType
  <2> QED
    BY <2>3, <2>4, <1>3, ModulusType
<1>6. /\ s \in (-Half)..(Half - 1)
      /\ x - y \in (-Half)..(Half - 1)
  BY <1>3, HalfAssumption DEF Modulus
<1>7. s = x - y
  <2> HIDE DEF s
  <2>1. PICK n \in Int : s - (x - y) = Modulus * n
    BY <1>5
  <2>2. n = 0
    <3> SUFFICES ASSUME n # 0 PROVE FALSE
      OBVIOUS
    <3>1. Modulus * n >= Modulus \/ Modulus * n <= -Modulus
      BY MultipleIsLarge, ModulusType
    <3> QED
      BY <3>1, <2>1, <1>6, HalfAssumption DEF Modulus
  <2> QED
    BY <2>1, <2>2, <1>6, ModulusType
<1> QED
  BY <1>7 DEF Ahead, SeqDiff, Signed

\* Two numbers compare as equal exactly when their fields are.
LEMMA AheadZero ==
  ASSUME NEW x \in Int, NEW y \in Int
  PROVE  /\ Ahead(x, y) \in Int
         /\ Ahead(x, y) = 0 => Wire(x) = Wire(y)
<1>1. Wire(x) \in 0..(Modulus - 1) /\ Wire(y) \in 0..(Modulus - 1)
  BY WireDivision
<1> DEFINE d == Wire(x) - Wire(y)
           r == d % Modulus
<1>2. d \in Int /\ r \in 0..(Modulus - 1)
  BY <1>1, Division, ModulusType
<1>3. Ahead(x, y) = IF r >= Half THEN r - Modulus ELSE r
  BY DEF Ahead, SeqDiff, Signed
<1>4. Ahead(x, y) \in Int
  BY <1>2, <1>3, ModulusType, HalfAssumption
<1>5. ASSUME Ahead(x, y) = 0 PROVE Wire(x) = Wire(y)
  <2>1. r = 0
    BY <1>2, <1>3, <1>5, ModulusType, HalfAssumption
  <2>2. PICK k \in Int : d = Modulus * k + r
    BY <1>2, Division, ModulusType
  <2>3. d \in (1 - Modulus)..(Modulus - 1)
    BY <1>1, ModulusType
  <2>4. d = Modulus * k /\ Modulus * k \in Int
    BY <2>1, <2>2, ModulusType
  <2>5. k = 0
    <3> HIDE DEF d
    <3> SUFFICES ASSUME k # 0 PROVE FALSE
      OBVIOUS
    <3>1. Modulus * k >= Modulus \/ Modulus * k <= -Modulus
      BY MultipleIsLarge, ModulusType
    <3> QED
      BY <3>1, <2>4, <2>3, ModulusType
  <2>6. d = 0
    BY <2>4, <2>5, ModulusType
  <2> QED
    BY <2>6, <1>1, ModulusType
<1> QED
  BY <1>4, <1>5

LEMMA AheadSelf ==
  ASSUME NEW x \in Int
  PROVE  Ahead(x, x) = 0
BY AheadExact, HalfAssumption

\* After steps over at most one number, the one whose field would be 0.
LEMMA AfterSteps ==
  ASSUME NEW n \in Nat
  PROVE  /\ After(n) \in Nat /\ n < After(n) /\ After(n) <= n + 2
         /\ Used(After(n))
         /\ \A i \in Nat : n < i /\ i < After(n) => ~Used(i)
<1>1. CASE Used(n + 1)
  BY <1>1 DEF After
<1>2. CASE ~Used(n + 1)
  <2>1. Modulus >= 2
    BY HalfAssumption DEF Modulus
  <2>2. Used(n + 2)
    <3> SUFFICES ASSUME Wire(n + 2) = 0 PROVE FALSE
      BY DEF Used
    <3>1. Wire(n + 1) = Wire(n + 2)
      BY <1>2 DEF Used
    <3>2. n + 1 = n + 2
      BY <3>1, <2>1, WireInjective, ModulusType
    <3> QED
      BY <3>2
  <2>3. After(n) = n + 2
    BY <1>2 DEF After
  <2>4. \A i \in Nat : n < i /\ i < n + 2 => i = n + 1
    OBVIOUS
  <2> QED
    BY <1>2, <2>2, <2>3, <2>4
<1> QED
  BY <1>1, <1>2

LEMMA OneIsUsed == Used(1)
<1>1. 1 % Modulus = 1
  BY HalfAssumption DEF Modulus
<1> QED
  BY <1>1 DEF Used, Wire

-----------------------------------------------------------------------------
(* The invariant *)

\* Ids are never 0 on the wire, delivery stays behind the sender, and because
\* every packet starts at the sender's oldest message no hole ever opens.
IdsOK(p) ==
  /\ nextId[p] >= 1 /\ Used(nextId[p])
  /\ expect[p] >= 1 /\ Used(expect[p]) /\ expect[p] <= nextId[Other(p)]
  /\ held[p] = {} /\ refused[p] = 0

LogOK(p) == log[p] = [i \in 1..(expect[p] - 1) |-> IF Used(i) THEN i ELSE 0]

QueueOK(p) ==
  /\ \A m \in outgoing[p] : Used(m) /\ m \in 1..(nextId[p] - 1)
  /\ \A i \in 1..(nextId[p] - 1) : Used(i) => i \in outgoing[p] \/ i < expect[Other(p)]

\* An end acknowledges only what it received, and received only what was sent.
RecvOK(p) ==
  /\ got[p] \subseteq 1..localSeq[Other(p)]
  /\ Acknowledged(recv[p]) \subseteq got[p]

\* The packets remembered are recent, acknowledged only if received, and what a
\* received packet carried has been delivered.
SentOK(p) ==
  /\ Len(sent[p]) <= SentCap
  /\ \A k \in DOMAIN sent[p] :
       /\ sent[p][k].seq \in 1..localSeq[p]
       /\ localSeq[p] - sent[p][k].seq <= 2 * (Len(sent[p]) - k)
       /\ sent[p][k].acked => sent[p][k].seq \in got[Other(p)]
       /\ sent[p][k].seq \in got[Other(p)] =>
            \A m \in sent[p][k].msgs : m < expect[Other(p)]

\* Messages that p may put in a packet: near the id its peer expects, and with
\* everything the peer still needs before them.
MsgsOK(p, msgs) ==
  \A m \in msgs :
    /\ Used(m) /\ m \in 1..(nextId[p] - 1)
    /\ m <= expect[Other(p)] + MaxSpan
    /\ \A i \in 1..(m - 1) : Used(i) => i < expect[Other(p)] \/ i \in msgs

DatagramOK(d) ==
  LET p == Other(d.to) IN
  /\ d.seq \in 1..localSeq[p]
  /\ Acknowledged(d) \subseteq got[p]
  /\ MsgsOK(p, d.msgs)
  /\ \A k \in DOMAIN sent[p] : sent[p][k].seq = d.seq => sent[p][k].msgs = d.msgs

\* The inductive invariant.
IInv ==
  /\ TypeOK
  /\ \A p \in Peer : IdsOK(p) /\ LogOK(p) /\ QueueOK(p) /\ RecvOK(p) /\ SentOK(p)
  /\ \A d \in net : DatagramOK(d)

-----------------------------------------------------------------------------
LEMMA Others ==
  /\ \A p \in Peer : Other(p) \in Peer /\ Other(p) # p /\ Other(Other(p)) = p
  /\ \A p, r \in Peer : r # p => r = Other(p)
BY PeerAssumption DEF Peer, Other

LEMMA InitIInv == Init => IInv
<1> SUFFICES ASSUME Init PROVE IInv
  OBVIOUS
<1> USE DEF Init
<1>1. TypeOK
  BY DEF TypeOK
<1>2. ASSUME NEW p \in Peer
      PROVE  IdsOK(p) /\ LogOK(p) /\ QueueOK(p) /\ RecvOK(p) /\ SentOK(p)
  <2>1. IdsOK(p)
    BY OneIsUsed, Others DEF IdsOK
  <2>2. LogOK(p)
    BY DEF LogOK
  <2>3. QueueOK(p)
    BY DEF QueueOK
  <2>4. RecvOK(p)
    BY DEF RecvOK, Acknowledged
  <2>5. SentOK(p)
    BY SizeAssumption DEF SentOK
  <2> QED
    BY <2>1, <2>2, <2>3, <2>4, <2>5
<1> QED
  BY <1>1, <1>2 DEF IInv

-----------------------------------------------------------------------------
LEMMA EnqueueStep ==
  ASSUME IInv, NEW p \in Peer, Enqueue(p)
  PROVE  IInv'
<1> DEFINE n == nextId[p]
           q == Other(p)
<1> USE DEF Enqueue, sendVars, recvVars
<1>1. /\ n \in Nat /\ n >= 1 /\ Used(n)
      /\ TypeOK /\ q \in Peer /\ q # p
  BY Others DEF IInv, TypeOK, IdsOK
<1>2. /\ After(n) \in Nat /\ n < After(n) /\ Used(After(n))
      /\ \A i \in Nat : n < i /\ i < After(n) => ~Used(i)
  BY <1>1, AfterSteps
<1>3. /\ nextId' = [nextId EXCEPT ![p] = After(n)]
      /\ outgoing' = [outgoing EXCEPT ![p] = @ \cup {n}]
      /\ UNCHANGED <<localSeq, sent, tally, recv, expect, held, refused, log, got, ackPending, net>>
  OBVIOUS
<1> HIDE DEF Enqueue
<1>types. /\ nextId \in [Peer -> Nat] /\ expect \in [Peer -> Nat]
          /\ \A x \in Peer : nextId'[x] = IF x = p THEN After(n) ELSE nextId[x]
          /\ \A x \in Peer : nextId[x] <= nextId'[x]
  <2>1. nextId \in [Peer -> Nat] /\ expect \in [Peer -> Nat]
    BY <1>1 DEF TypeOK
  <2>2. \A x \in Peer : nextId'[x] = IF x = p THEN After(n) ELSE nextId[x]
    BY <2>1, <1>3
  <2> QED
    BY <2>1, <2>2, <1>2
<1>4. TypeOK'
  BY <1>1, <1>2, <1>3 DEF TypeOK
<1>5. ASSUME NEW r \in Peer
      PROVE  (IdsOK(r) /\ LogOK(r) /\ QueueOK(r) /\ RecvOK(r) /\ SentOK(r))'
  <2>1. IdsOK(r) /\ LogOK(r) /\ QueueOK(r) /\ RecvOK(r) /\ SentOK(r)
    BY DEF IInv
  <2>2. /\ nextId[r] \in Nat /\ nextId'[r] \in Nat /\ expect[r] \in Nat
        /\ nextId[Other(r)] \in Nat /\ nextId[Other(r)] <= nextId'[Other(r)]
        /\ expect[Other(r)] \in Nat
    BY <1>types, <1>2, Others
  <2>3. IdsOK(r)'
    BY <1>1, <1>2, <1>3, <1>types, <2>1, <2>2, Others DEF IdsOK
  <2>4. LogOK(r)'
    BY <1>3, <2>1 DEF LogOK
  <2>5. QueueOK(r)'
    <3>1. CASE r = p
      <4>1. outgoing'[p] = outgoing[p] \cup {n} /\ nextId'[p] = After(n)
        BY <1>1, <1>3 DEF TypeOK
      <4>2. \A i \in 1..(After(n) - 1) : Used(i) => i \in 1..(n - 1) \/ i = n
        BY <1>1, <1>2
      <4>3. \A i \in 1..(n - 1) : Used(i) => i \in outgoing[p] \/ i < expect[q]
        BY <2>1, <3>1 DEF QueueOK
      <4>4. \A m \in outgoing[p] : Used(m) /\ m \in 1..(n - 1)
        BY <2>1, <3>1 DEF QueueOK
      <4>5. \A m \in 1..(n - 1) : m \in 1..(After(n) - 1)
        BY <1>1, <1>2
      <4>6. n \in 1..(After(n) - 1)
        BY <1>1, <1>2
      <4> HIDE DEF n
      <4> QED
        BY <1>1, <1>3, <3>1, <4>1, <4>2, <4>3, <4>4, <4>5, <4>6 DEF QueueOK
    <3>2. CASE r # p
      BY <1>1, <1>3, <2>1, <3>2 DEF QueueOK, TypeOK
    <3> QED
      BY <3>1, <3>2
  <2>6. RecvOK(r)' /\ SentOK(r)'
    BY <1>3, <2>1 DEF RecvOK, SentOK, Acknowledged
  <2> QED
    BY <2>3, <2>4, <2>5, <2>6
<1>6. ASSUME NEW d \in net' PROVE DatagramOK(d)'
  <2>1. d \in net /\ DatagramOK(d)
    BY <1>3 DEF IInv
  <2>2. d.to \in Peer /\ Other(d.to) \in Peer
    BY <1>1, <2>1, Others DEF TypeOK, Datagram
  <2>3. \A x \in Peer : nextId[x] \in Nat /\ nextId'[x] \in Nat /\ nextId[x] <= nextId'[x]
    BY <1>2, <1>types
  <2>4. MsgsOK(Other(d.to), d.msgs)'
    <3>1. MsgsOK(Other(d.to), d.msgs)
      BY <2>1 DEF DatagramOK
    <3>2. \A m \in 1..(nextId[Other(d.to)] - 1) : m \in 1..(nextId'[Other(d.to)] - 1)
      BY <2>2, <2>3
    <3> QED
      BY <1>3, <3>1, <3>2 DEF MsgsOK
  <2> QED
    BY <1>3, <2>1, <2>4 DEF DatagramOK, Acknowledged
<1> QED
  BY <1>4, <1>5, <1>6 DEF IInv

-----------------------------------------------------------------------------
\* Remember keeps the cap: the entry comes last and the others keep their
\* distance from the end.
LEMMA RememberEntries ==
  ASSUME NEW s \in Seq(Entry), NEW e \in Entry, Len(s) <= SentCap
  PROVE  LET R == Remember(s, e) IN
         /\ R \in Seq(Entry) /\ Len(R) <= SentCap
         /\ \A k \in DOMAIN R :
              \/ k = Len(R) /\ R[k] = e
              \/ \E j \in DOMAIN s : R[k] = s[j] /\ Len(R) - k = Len(s) - j + 1
<1> DEFINE longer == Append(s, e)
<1>1. /\ longer \in Seq(Entry) /\ Len(longer) = Len(s) + 1 /\ Len(s) \in Nat
      /\ \A k \in 1..Len(s) : longer[k] = s[k]
      /\ longer[Len(s) + 1] = e
  OBVIOUS
<1> HIDE DEF longer
<1>2. CASE Len(longer) > SentCap
  <2>1. Remember(s, e) = Tail(longer)
    BY <1>2 DEF Remember, longer
  <2>2. /\ Tail(longer) \in Seq(Entry) /\ Len(Tail(longer)) = Len(s)
        /\ \A k \in 1..Len(s) : Tail(longer)[k] = longer[k + 1]
    BY <1>1
  <2>3. \A k \in 1..Len(s) : \/ k = Len(s) /\ Tail(longer)[k] = e
                             \/ k + 1 \in 1..Len(s) /\ Tail(longer)[k] = s[k + 1]
    BY <1>1, <2>2
  <2>4. DOMAIN s = 1..Len(s) /\ DOMAIN Tail(longer) = 1..Len(s)
    BY <2>2
  <2>5. \A k \in 1..Len(s) : k + 1 \in 1..Len(s) => Len(s) - k = Len(s) - (k + 1) + 1
    BY <1>1
  <2>6. ASSUME NEW k \in DOMAIN Tail(longer)
        PROVE  \/ k = Len(Tail(longer)) /\ Tail(longer)[k] = e
               \/ \E j \in DOMAIN s :
                    Tail(longer)[k] = s[j] /\ Len(Tail(longer)) - k = Len(s) - j + 1
    <3>1. k \in 1..Len(s) /\ Len(Tail(longer)) = Len(s)
      BY <2>2, <2>4, <2>6
    <3>2. CASE k = Len(s) /\ Tail(longer)[k] = e
      BY <3>1, <3>2
    <3>3. CASE k + 1 \in 1..Len(s) /\ Tail(longer)[k] = s[k + 1]
      <4>1. k + 1 \in DOMAIN s /\ Len(s) - k = Len(s) - (k + 1) + 1
        BY <2>4, <2>5, <3>1, <3>3
      <4> QED
        BY <3>1, <3>3, <4>1
    <3> QED
      BY <2>3, <3>1, <3>2, <3>3
  <2>7. Len(Tail(longer)) <= SentCap
    BY <2>2
  <2> QED
    BY <2>1, <2>2, <2>6, <2>7
<1>3. CASE ~(Len(longer) > SentCap)
  <2>1. Remember(s, e) = longer
    BY <1>3 DEF Remember, longer
  <2>2. DOMAIN s = 1..Len(s) /\ DOMAIN longer = 1..(Len(s) + 1)
    BY <1>1
  <2>3. Len(longer) <= SentCap
    BY <1>1, <1>3, SizeAssumption
  <2>4. \A k \in 1..(Len(s) + 1) : k \in 1..Len(s) \/ k = Len(s) + 1
    BY <1>1
  <2>5. \A k \in 1..Len(s) : Len(s) + 1 - k = Len(s) - k + 1
    BY <1>1
  <2> QED
    BY <1>1, <2>1, <2>2, <2>3, <2>4, <2>5
<1> QED
  BY <1>2, <1>3

LEMMA TransmitStep ==
  ASSUME IInv, NEW p \in Peer, NEW msgs \in SUBSET Nat, MsgsOK(p, msgs),
         Transmit(p, msgs)
  PROVE  IInv'
<1> DEFINE q     == Other(p)
           n     == After(localSeq[p])
           entry == [seq |-> n, msgs |-> msgs, acked |-> FALSE, resolved |-> FALSE]
           new   == [to |-> q, seq |-> n, msgs |-> msgs,
                     ack |-> recv[p].ack, bits |-> recv[p].bits]
<1>1. /\ TypeOK /\ q \in Peer /\ q # p /\ Other(q) = p
      /\ localSeq \in [Peer -> Nat]
      /\ IdsOK(p) /\ QueueOK(p) /\ RecvOK(p) /\ SentOK(p)
  BY Others DEF IInv, TypeOK
<1>2. n \in Nat /\ localSeq[p] < n /\ n <= localSeq[p] + 2 /\ localSeq[p] \in Nat
  BY <1>1, AfterSteps
<1>3. /\ localSeq' = [localSeq EXCEPT ![p] = n]
      /\ sent' = [sent EXCEPT ![p] = Remember(@, entry)]
      /\ ackPending' = [ackPending EXCEPT ![p] = FALSE]
      /\ UNCHANGED <<tally, outgoing, nextId, recv, expect, held, refused, log, got>>
  BY DEF Transmit, recvVars
<1>4. \A d \in net' : d \in net \/ d = new
  BY DEF Transmit, Kept
<1>5. /\ sent[p] \in Seq(Entry) /\ sent \in [Peer -> Seq(Entry)] /\ entry \in Entry
      /\ sent'[p] = Remember(sent[p], entry)
      /\ \A r \in Peer \ {p} : sent'[r] = sent[r] /\ localSeq'[r] = localSeq[r]
      /\ localSeq'[p] = n
  <2>1. sent \in [Peer -> Seq(Entry)]
    BY <1>1 DEF TypeOK
  <2>2. entry \in Entry
    BY <1>2 DEF Entry
  <2> HIDE DEF entry, n
  <2> QED
    BY <1>1, <1>3, <2>1, <2>2
<1>6. /\ sent'[p] \in Seq(Entry) /\ Len(sent'[p]) <= SentCap
      /\ \A k \in DOMAIN sent'[p] :
           \/ k = Len(sent'[p]) /\ sent'[p][k] = entry
           \/ \E j \in DOMAIN sent[p] : /\ sent'[p][k] = sent[p][j]
                                       /\ Len(sent'[p]) - k = Len(sent[p]) - j + 1
  <2>1. Len(sent[p]) <= SentCap
    BY <1>1 DEF SentOK
  <2> HIDE DEF entry
  <2> QED
    BY <1>5, <2>1, RememberEntries
<1>7. \A j \in DOMAIN sent[p] : sent[p][j].seq \in 1..localSeq[p]
  BY <1>1 DEF SentOK
<1>8. got[q] \subseteq 1..localSeq[p]
  BY <1>1 DEF IInv, RecvOK
<1>counts. \A x \in Peer : /\ localSeq[x] \in Nat /\ localSeq'[x] \in Nat
                           /\ localSeq[x] <= localSeq'[x]
  <2> HIDE DEF n
  <2> QED
    BY <1>1, <1>2, <1>5, SMTT(30)
<1>9. new \in Datagram
  BY <1>1, <1>2 DEF TypeOK, Datagram
<1>10. TypeOK'
  <2>1. localSeq' \in [Peer -> Nat] /\ sent' \in [Peer -> Seq(Entry)]
    <3> HIDE DEF entry, n
    <3> QED
      BY <1>1, <1>2, <1>3, <1>5, <1>6
  <2>2. net' \in SUBSET Datagram
    BY <1>1, <1>4, <1>9 DEF TypeOK
  <2>3. ackPending' \in [Peer -> BOOLEAN]
    BY <1>1, <1>3 DEF TypeOK
  <2> QED
    BY <1>1, <1>3, <2>1, <2>2, <2>3 DEF TypeOK
<1>11. ASSUME NEW r \in Peer
       PROVE  (IdsOK(r) /\ LogOK(r) /\ QueueOK(r) /\ RecvOK(r) /\ SentOK(r))'
  <2>1. IdsOK(r) /\ LogOK(r) /\ QueueOK(r) /\ RecvOK(r) /\ SentOK(r)
    BY DEF IInv
  <2>2. IdsOK(r)' /\ LogOK(r)' /\ QueueOK(r)'
    BY <1>3, <2>1 DEF IdsOK, LogOK, QueueOK
  <2>3. RecvOK(r)'
    <3>1. \A x \in Peer : 1..localSeq[x] \subseteq 1..localSeq'[x]
      BY <1>counts
    <3> QED
      BY <1>3, <2>1, <3>1, Others DEF RecvOK, Acknowledged
  <2>4. SentOK(r)'
    <3>1. CASE r # p
      BY <1>3, <1>5, <2>1, <3>1 DEF SentOK
    <3>2. ASSUME NEW k \in DOMAIN sent'[p]
          PROVE  /\ sent'[p][k].seq \in 1..n
                 /\ n - sent'[p][k].seq <= 2 * (Len(sent'[p]) - k)
                 /\ sent'[p][k].acked => sent'[p][k].seq \in got[q]
                 /\ sent'[p][k].seq \in got[q] => \A m \in sent'[p][k].msgs : m < expect[q]
      <4>1. CASE k = Len(sent'[p]) /\ sent'[p][k] = entry
        <5>1. sent'[p][k].seq = n /\ ~sent'[p][k].acked
          BY <4>1
        <5>2. n \notin got[q] /\ n \in 1..n
          BY <1>2, <1>8
        <5> HIDE DEF n
        <5> QED
          BY <1>2, <4>1, <5>1, <5>2, <1>6
      <4>2. ASSUME NEW j \in DOMAIN sent[p], sent'[p][k] = sent[p][j],
                   Len(sent'[p]) - k = Len(sent[p]) - j + 1
            PROVE  /\ sent'[p][k].seq \in 1..n
                   /\ n - sent'[p][k].seq <= 2 * (Len(sent'[p]) - k)
                   /\ sent'[p][k].acked => sent'[p][k].seq \in got[q]
                   /\ sent'[p][k].seq \in got[q] => \A m \in sent'[p][k].msgs : m < expect[q]
        <5>1. /\ sent[p][j].seq \in 1..localSeq[p]
              /\ localSeq[p] - sent[p][j].seq <= 2 * (Len(sent[p]) - j)
              /\ sent[p][j].acked => sent[p][j].seq \in got[q]
              /\ sent[p][j].seq \in got[q] => \A m \in sent[p][j].msgs : m < expect[q]
          BY <1>1 DEF SentOK
        <5>2. Len(sent[p]) \in Nat /\ j \in Nat /\ k \in Nat /\ Len(sent'[p]) \in Nat
          BY <1>5, <1>6
        <5> HIDE DEF n
        <5>3. sent[p][j].seq \in 1..n
          BY <5>1, <1>2
        <5>4. n - sent[p][j].seq <= 2 * (Len(sent'[p]) - k)
          <6>1. 2 * (Len(sent'[p]) - k) = 2 * (Len(sent[p]) - j) + 2
            <7> DEFINE x == Len(sent'[p]) - k
                       y == Len(sent[p]) - j
            <7>1. x \in Int /\ y \in Int
              BY <5>2
            <7>2. x = y + 1
              BY <4>2
            <7> HIDE DEF x, y
            <7>3. 2 * x = 2 * y + 2
              BY <7>1, <7>2
            <7> QED
              BY <7>3 DEF x, y
          <6>2. sent[p][j].seq \in Int /\ 2 * (Len(sent[p]) - j) \in Int
            BY <5>1, <5>2
          <6> QED
            BY <5>1, <6>1, <6>2, <1>2, SMTT(30)
        <5> QED
          BY <4>2, <5>1, <5>3, <5>4
      <4> QED
        BY <1>6, <4>1, <4>2
    <3>3. CASE r = p
      BY <1>3, <1>5, <1>6, <3>2, <3>3 DEF SentOK
    <3> QED
      BY <3>1, <3>3
  <2> QED
    BY <2>2, <2>3, <2>4
<1>12. ASSUME NEW d \in net' PROVE DatagramOK(d)'
  <2>1. CASE d = new
    <3>1. d.seq \in 1..localSeq'[p]
      BY <1>2, <1>5, <2>1
    <3>2. Acknowledged(d)' \subseteq got'[p]
      BY <1>1, <1>3, <2>1 DEF RecvOK, Acknowledged
    <3>3. MsgsOK(p, d.msgs)'
      BY <1>3, <2>1 DEF MsgsOK
    <3>4. ASSUME NEW k \in DOMAIN sent'[p], sent'[p][k].seq = d.seq
          PROVE  sent'[p][k].msgs = d.msgs
      <4>1. \A j \in DOMAIN sent[p] : sent[p][j].seq # n
        BY <1>2, <1>7
      <4>2. d.seq = n /\ d.msgs = msgs /\ entry.msgs = msgs
        BY <2>1
      <4> HIDE DEF n, entry
      <4> QED
        BY <1>6, <3>4, <4>1, <4>2
    <3>5. Other(d.to) = p
      BY <1>1, <2>1
    <3> QED
      BY <3>1, <3>2, <3>3, <3>4, <3>5 DEF DatagramOK
  <2>2. CASE d \in net
    <3> DEFINE s == Other(d.to)
    <3>1. DatagramOK(d) /\ s \in Peer
      BY <1>1, <2>2, Others DEF IInv, TypeOK, Datagram
    <3>2. d.seq \in 1..localSeq[s] /\ d.seq \in 1..localSeq'[s]
      BY <1>counts, <3>1 DEF DatagramOK
    <3>3. Acknowledged(d)' \subseteq got'[s]
      BY <1>3, <3>1 DEF DatagramOK, Acknowledged
    <3>4. MsgsOK(s, d.msgs)'
      BY <1>3, <3>1 DEF DatagramOK, MsgsOK
    <3>5. ASSUME NEW k \in DOMAIN sent'[s], sent'[s][k].seq = d.seq
          PROVE  sent'[s][k].msgs = d.msgs
      <4>1. \A j \in DOMAIN sent[s] : sent[s][j].seq = d.seq => sent[s][j].msgs = d.msgs
        BY <3>1 DEF DatagramOK
      <4>2. CASE s = p
        <5>1. d.seq # n
          BY <1>2, <3>2, <4>2
        <5>2. entry.seq = n
          OBVIOUS
        <5> HIDE DEF n, entry
        <5>3. k \in DOMAIN sent'[p] /\ sent'[p][k].seq = d.seq
          BY <3>5, <4>2
        <5>4. PICK j \in DOMAIN sent[p] : sent'[p][k] = sent[p][j]
          BY <1>6, <5>1, <5>2, <5>3
        <5>5. sent[p][j].seq = d.seq
          BY <5>3, <5>4
        <5> QED
          BY <4>1, <4>2, <5>4, <5>5
      <4>3. CASE s # p
        BY <1>5, <3>1, <3>5, <4>1, <4>3
      <4> QED
        BY <4>2, <4>3
    <3> QED
      BY <3>2, <3>3, <3>4, <3>5 DEF DatagramOK
  <2> QED
    BY <1>4, <2>1, <2>2
<1> QED
  BY <1>10, <1>11, <1>12 DEF IInv

\* Build takes the queue from its oldest message, and the id the peer expects is
\* still queued unless nothing is.
LEMMA PrefixesAreOK ==
  ASSUME IInv, NEW p \in Peer, NEW msgs \in Prefixes(outgoing[p])
  PROVE  msgs \in SUBSET Nat /\ MsgsOK(p, msgs)
<1> DEFINE queue == outgoing[p]
           e     == expect[Other(p)]
<1>1. PICK last \in queue : /\ \A first \in queue : last - first <= MaxSpan
                            /\ msgs = {m \in queue : m <= last}
  BY DEF Prefixes
<1>2. /\ QueueOK(p) /\ queue \in SUBSET Nat /\ nextId[p] \in Nat
      /\ e \in Nat /\ e >= 1 /\ Used(e) /\ e <= nextId[p]
  BY Others DEF IInv, TypeOK, IdsOK
<1>3. \A m \in queue : Used(m) /\ m \in 1..(nextId[p] - 1)
  BY <1>2 DEF QueueOK
<1>4. \A i \in 1..(nextId[p] - 1) : Used(i) => i \in queue \/ i < e
  BY <1>2 DEF QueueOK
<1> HIDE DEF queue, e
<1>5. last <= e + MaxSpan
  <2>1. CASE e = nextId[p]
    BY <1>1, <1>2, <1>3, <2>1, SizeAssumption
  <2>2. CASE e < nextId[p]
    <3>1. e \in queue
      BY <1>2, <1>4, <2>2
    <3> QED
      BY <1>1, <1>2, <1>3, <3>1, SizeAssumption
  <2> QED
    BY <1>2, <2>1, <2>2
<1>6. ASSUME NEW m \in msgs
      PROVE  /\ Used(m) /\ m \in 1..(nextId[p] - 1)
             /\ m <= e + MaxSpan
             /\ \A i \in 1..(m - 1) : Used(i) => i < e \/ i \in msgs
  <2>1. m \in queue /\ m <= last /\ m \in Nat /\ last \in Nat /\ e \in Nat
    BY <1>1, <1>2
  <2>2. m <= e + MaxSpan
    BY <1>5, <2>1, SizeAssumption
  <2>3. \A i \in 1..(m - 1) : i \in 1..(nextId[p] - 1) /\ i <= last
    BY <1>2, <1>3, <2>1
  <2> QED
    BY <1>1, <1>3, <1>4, <2>1, <2>2, <2>3
<1> QED
  BY <1>1, <1>2, <1>6 DEF MsgsOK, e

LEMMA BuildStep ==
  ASSUME IInv, NEW p \in Peer, BuildData(p) \/ BuildBare(p)
  PROVE  IInv'
<1>1. MsgsOK(p, {})
  BY DEF MsgsOK
<1>2. CASE Transmit(p, {})
  BY <1>1, <1>2, TransmitStep
<1>3. ASSUME NEW msgs \in Prefixes(outgoing[p]), Transmit(p, msgs) PROVE IInv'
  BY <1>3, PrefixesAreOK, TransmitStep
<1> QED
  BY <1>2, <1>3 DEF BuildData, BuildBare

-----------------------------------------------------------------------------
\* The header of a packet that p sends next names only packets p received.
LEMMA SequenceNoted ==
  ASSUME IInv, NEW d \in net, Timely(d), NoteSequence(d.to, d.seq)
  PROVE  LET p == d.to IN
         /\ recv' \in [Peer -> [ack : Nat, bits : SUBSET (0..AckBits-1), expected : Nat, got : Nat]]
         /\ \A x \in Peer : x # p => recv'[x] = recv[x]
         /\ Acknowledged(recv'[p]) \subseteq got[p] \cup {d.seq}
<1> DEFINE p    == d.to
           r    == recv[p]
           diff == Ahead(d.seq, r.ack)
           Field == [ack : Nat, bits : SUBSET (0..AckBits-1), expected : Nat, got : Nat]
<1>1. /\ p \in Peer /\ d.seq \in Nat /\ recv \in [Peer -> Field] /\ r \in Field
      /\ AckBits \in Nat /\ AckBits >= 1
  BY SizeAssumption, SMTT(30) DEF IInv, TypeOK, Datagram
<1>2. Acknowledged(r) \subseteq got[p]
  BY <1>1 DEF IInv, RecvOK
<1>3. \E new \in Field : /\ recv' = [recv EXCEPT ![p] = new]
                         /\ Acknowledged(new) \subseteq got[p] \cup {d.seq}
  <2>1. CASE ~Used(d.seq) /\ UNCHANGED recv
    <3>1. recv' = [recv EXCEPT ![p] = r]
      BY <1>1, <2>1
    <3> QED
      BY <1>1, <1>2, <3>1
  <2>2. CASE r.ack = 0 /\ recv' = [recv EXCEPT ![p] =
               [ack |-> d.seq, bits |-> {}, expected |-> 1, got |-> 1]]
    <3> DEFINE new == [ack |-> d.seq, bits |-> {}, expected |-> 1, got |-> 1]
    <3>1. new \in Field
      BY <1>1
    <3>2. Acknowledged(new) \subseteq got[p] \cup {d.seq}
      BY DEF Acknowledged
    <3> HIDE DEF new, Field
    <3> QED
      BY <2>2, <3>1, <3>2 DEF new
  <2>3. CASE /\ r.ack # 0 /\ diff > 0
             /\ recv' = [recv EXCEPT ![p] =
                  [ack |-> r.ack + diff, bits |-> Shifted(r.bits, diff),
                   expected |-> r.expected + diff, got |-> r.got + 1]]
    <3> DEFINE new == [ack |-> r.ack + diff, bits |-> Shifted(r.bits, diff),
                       expected |-> r.expected + diff, got |-> r.got + 1]
    <3>1. diff = d.seq - r.ack /\ diff \in Nat /\ r.ack \in Nat
      <4>1. d.seq - r.ack \in (1 - Half)..(Half - 1)
        BY <2>3 DEF Timely
      <4>2. r.ack \in Nat
        BY <1>1
      <4> HIDE DEF r
      <4>3. d.seq - r.ack < Half /\ r.ack - d.seq <= Half
        BY <1>1, <4>1, <4>2, HalfAssumption
      <4>4. Ahead(d.seq, r.ack) = d.seq - r.ack
        BY <1>1, <4>2, <4>3, AheadExact
      <4> QED
        BY <1>1, <2>3, <4>2, <4>4
    <3> HIDE DEF diff
    <3>2. Shifted(r.bits, diff) \in SUBSET (0..AckBits-1)
      <4>1. diff < AckBits => diff - 1 \in 0..AckBits-1
        BY <1>1, <2>3, <3>1
      <4> QED
        BY <1>1, <3>1, <4>1 DEF Shifted
    <3>3. new \in Field
      BY <1>1, <3>1, <3>2
    <3>4. r.ack + diff = d.seq /\ r.ack \in got[p]
      BY <1>1, <1>2, <2>3, <3>1 DEF Acknowledged
    <3>5. ASSUME NEW i \in Shifted(r.bits, diff)
          PROVE  d.seq - 1 - i \in got[p]
      <4>1. CASE i = diff - 1
        <5>1. d.seq - 1 - i = r.ack
          BY <1>1, <3>1, <4>1
        <5> QED
          BY <3>4, <5>1
      <4>2. CASE i \in 0..AckBits-1 /\ i - diff \in r.bits
        <5>1. r.ack - 1 - (i - diff) \in got[p]
          BY <1>2, <2>3, <4>2 DEF Acknowledged
        <5>2. d.seq - 1 - i = r.ack - 1 - (i - diff)
          BY <1>1, <3>1, <4>2
        <5> QED
          BY <5>1, <5>2
      <4> QED
        BY <3>5, <4>1, <4>2 DEF Shifted
    <3>6. Acknowledged(new) \subseteq got[p] \cup {d.seq}
      BY <3>4, <3>5 DEF Acknowledged
    <3> HIDE DEF new, Field
    <3> QED
      BY <2>3, <3>3, <3>6 DEF new
  <2>4. CASE /\ r.ack # 0 /\ diff < 0 /\ diff >= -AckBits
             /\ recv' = [recv EXCEPT ![p] =
                  [r EXCEPT !.bits = @ \cup {-diff - 1}, !.got = @ + 1]]
    <3> DEFINE new == [r EXCEPT !.bits = @ \cup {-diff - 1}, !.got = @ + 1]
    <3>1. diff = d.seq - r.ack /\ diff \in Int /\ r.ack \in Nat
      <4>1. d.seq - r.ack \in (1 - Half)..(Half - 1)
        BY <2>4 DEF Timely
      <4>2. r.ack \in Nat
        BY <1>1
      <4> HIDE DEF r
      <4>3. d.seq - r.ack < Half /\ r.ack - d.seq <= Half
        BY <1>1, <4>1, <4>2, HalfAssumption
      <4>4. Ahead(d.seq, r.ack) = d.seq - r.ack
        BY <1>1, <4>2, <4>3, AheadExact
      <4> QED
        BY <1>1, <2>4, <4>2, <4>4
    <3> HIDE DEF diff
    <3>2. -diff - 1 \in 0..AckBits-1
      BY <1>1, <2>4, <3>1
    <3>3. new \in Field /\ new.ack = r.ack /\ new.bits = r.bits \cup {-diff - 1}
      <4>1. r.bits \cup {-diff - 1} \in SUBSET (0..AckBits-1) /\ r.got + 1 \in Nat
        BY <1>1, <3>2
      <4> HIDE DEF r
      <4> QED
        BY <1>1, <4>1
    <3>4. r.ack - 1 - (-diff - 1) = d.seq
      BY <1>1, <3>1
    <3>5. Acknowledged(new) \subseteq got[p] \cup {d.seq}
      BY <1>2, <2>4, <3>3, <3>4 DEF Acknowledged
    <3> HIDE DEF new, Field
    <3> QED
      BY <2>4, <3>3, <3>5 DEF new
  <2>5. CASE recv' = [recv EXCEPT ![p] = r]
    BY <1>1, <1>2, <2>5
  <2> QED
    <3>1. CASE Used(d.seq) /\ r.ack # 0 /\ diff <= 0
      <4>1. \/ diff < 0 /\ diff >= -AckBits /\ recv' = [recv EXCEPT ![p] =
                  [r EXCEPT !.bits = @ \cup {-diff - 1}, !.got = @ + 1]]
            \/ recv' = [recv EXCEPT ![p] = r]
        <5>1. diff \in Int
          <6>1. r.ack \in Int /\ d.seq \in Int
            BY <1>1
          <6> HIDE DEF r
          <6> QED
            BY <6>1, AheadZero
        <5> QED
          BY <3>1, <5>1 DEF NoteSequence
      <4> QED
        BY <2>4, <2>5, <3>1, <4>1
    <3> QED
      BY <2>1, <2>2, <2>3, <3>1 DEF NoteSequence
<1>4. PICK new \in Field : /\ recv' = [recv EXCEPT ![p] = new]
                          /\ Acknowledged(new) \subseteq got[p] \cup {d.seq}
  BY <1>3
<1> HIDE DEF Field
<1> QED
  BY <1>1, <1>4 DEF Field

-----------------------------------------------------------------------------
\* A packet in the header's history is the one with that field in m_Sent: the
\* two are never a whole space apart.
LEMMA AcknowledgedExactly ==
  ASSUME IInv, NEW d \in net, Timely(d), NEW k \in DOMAIN sent[d.to],
         NEW a \in Acknowledged(d), Wire(a) = Wire(sent[d.to][k].seq)
  PROVE  sent[d.to][k].seq = a /\ a \in got[Other(d.to)]
<1> DEFINE p == d.to
           s == sent[p][k].seq
           len == Len(sent[p])
<1>1. /\ p \in Peer /\ Other(p) \in Peer /\ Other(Other(p)) = p
      /\ localSeq[p] \in Nat /\ sent[p] \in Seq(Entry)
      /\ d.ack \in Nat /\ d.bits \in SUBSET (0..AckBits-1)
      /\ SentOK(p) /\ DatagramOK(d)
  BY Others DEF IInv, TypeOK, Datagram
<1>2. a \in got[Other(p)]
  BY <1>1 DEF DatagramOK
<1>3. a \in 1..localSeq[p]
  BY <1>1, <1>2 DEF IInv, RecvOK
<1>4. s \in 1..localSeq[p] /\ localSeq[p] - s <= 2 * (len - k)
  BY <1>1 DEF SentOK
<1>5. len - k < SentCap /\ len - k \in Int
  <2>1. len \in Nat /\ k \in 1..len /\ len <= SentCap
    BY <1>1 DEF SentOK
  <2> HIDE DEF len
  <2> QED
    BY <2>1, SizeAssumption
<1>6. localSeq[p] - s < Half
  <2> HIDE DEF len, s
  <2> QED
    BY <1>1, <1>4, <1>5, SizeAssumption, HalfAssumption
<1>7. localSeq[p] - a < 2 * Half
  <2>1. a = d.ack \/ \E i \in 0..AckBits-1 : a = d.ack - 1 - i
    BY <1>1 DEF Acknowledged
  <2>2. a >= d.ack - AckBits
    BY <1>1, <2>1, SizeAssumption
  <2>3. localSeq[p] - d.ack < Half
    BY DEF Timely
  <2> QED
    BY <1>1, <1>3, <2>2, <2>3, SizeAssumption, HalfAssumption
<1>8. a - s < Modulus /\ s - a < Modulus
  <2> HIDE DEF s
  <2>1. localSeq[p] \in Int /\ s \in Int /\ a \in Int /\ Half \in Int /\ Modulus = 2 * Half
    BY <1>1, <1>3, <1>4, HalfAssumption DEF Modulus
  <2>2. 1 <= s /\ s <= localSeq[p] /\ 1 <= a /\ a <= localSeq[p]
    BY <1>1, <1>3, <1>4
  <2>3. s - a <= localSeq[p] - a /\ a - s <= localSeq[p] - s
    BY <2>1, <2>2
  <2> QED
    BY <1>6, <1>7, <2>1, <2>2, <2>3, HalfAssumption
<1> HIDE DEF s
<1>9. s = a
  <2>1. Wire(a) = Wire(s)
    BY DEF s
  <2>2. a \in Int /\ s \in Int
    BY <1>3, <1>4
  <2> QED
    BY <1>8, <2>1, <2>2, WireInjective
<1> QED
  BY <1>2, <1>9 DEF s

LEMMA AcksNoted ==
  ASSUME IInv, NEW d \in net, Timely(d), NoteAcks(d.to, d)
  PROVE  LET p == d.to
             q == Other(d.to)
         IN
         /\ sent' \in [Peer -> Seq(Entry)]
         /\ \A x \in Peer : x # p => sent'[x] = sent[x] /\ outgoing'[x] = outgoing[x]
         /\ Len(sent'[p]) = Len(sent[p]) /\ DOMAIN sent'[p] = DOMAIN sent[p]
         /\ \A k \in DOMAIN sent[p] :
              /\ sent'[p][k].seq = sent[p][k].seq /\ sent'[p][k].msgs = sent[p][k].msgs
              /\ sent'[p][k].acked => sent[p][k].seq \in got[q]
         /\ outgoing' \in [Peer -> SUBSET Nat] /\ outgoing'[p] \subseteq outgoing[p]
         /\ \A m \in outgoing[p] \ outgoing'[p] : m < expect[q]
         /\ tally' \in [Peer -> [resolved : Nat, lost : Nat]]
<1> DEFINE p     == d.to
           q     == Other(p)
           acked == NewlyAcked(p, d)
           lost  == GivenUp(p, d)
           newSent == Marked(sent[p], acked, lost)
           newOut == outgoing[p] \ Erased(p, acked)
<1>1. /\ p \in Peer /\ sent \in [Peer -> Seq(Entry)] /\ sent[p] \in Seq(Entry)
      /\ outgoing \in [Peer -> SUBSET Nat]
      /\ tally \in [Peer -> [resolved : Nat, lost : Nat]]
      /\ SentOK(p)
  BY DEF IInv, TypeOK, Datagram
<1>2. /\ acked \subseteq DOMAIN sent[p] /\ lost \subseteq DOMAIN sent[p]
      /\ Cardinality(acked) \in Nat /\ Cardinality(lost) \in Nat
  <2>1. acked \subseteq DOMAIN sent[p] /\ lost \subseteq DOMAIN sent[p]
    BY DEF NewlyAcked, GivenUp
  <2>2. IsFiniteSet(DOMAIN sent[p])
    <3>1. DOMAIN sent[p] = 1..Len(sent[p]) /\ Len(sent[p]) \in Nat
      BY <1>1
    <3> QED
      BY <3>1, FS_Interval
  <2> QED
    BY <2>1, <2>2, FS_Subset, FS_CardinalityType
<1>3. /\ sent' = [sent EXCEPT ![p] = newSent]
      /\ outgoing' = [outgoing EXCEPT ![p] = newOut]
      /\ tally' = [tally EXCEPT ![p] =
           [resolved |-> @.resolved + Cardinality(acked) + Cardinality(lost),
            lost     |-> @.lost + Cardinality(lost)]]
  BY DEF NoteAcks
<1>4. \A k \in acked : sent[p][k].seq \in got[q]
  BY AcknowledgedExactly DEF NewlyAcked
<1> HIDE DEF acked, lost
<1>5. ASSUME NEW k \in DOMAIN sent[p]
      PROVE  /\ newSent[k] \in Entry
             /\ newSent[k].seq = sent[p][k].seq /\ newSent[k].msgs = sent[p][k].msgs
             /\ newSent[k].acked => sent[p][k].seq \in got[q]
  <2> DEFINE s == sent[p][k]
  <2>1. s \in Entry
    BY <1>1
  <2>2. s.acked => s.seq \in got[q]
    BY <1>1 DEF SentOK
  <2>3. newSent[k] = [s EXCEPT !.acked = @ \/ k \in acked,
                               !.resolved = @ \/ k \in acked \cup lost]
    BY DEF Marked
  <2> HIDE DEF s, newSent
  <2>4. /\ newSent[k] \in Entry /\ newSent[k].seq = s.seq /\ newSent[k].msgs = s.msgs
        /\ newSent[k].acked = (s.acked \/ k \in acked)
    BY <2>1, <2>3 DEF Entry
  <2>5. newSent[k].acked => s.seq \in got[q]
    BY <1>4, <2>2, <2>4 DEF s
  <2> QED
    BY <2>4, <2>5 DEF s
<1>6. newSent \in Seq(Entry) /\ Len(newSent) = Len(sent[p]) /\ DOMAIN newSent = DOMAIN sent[p]
  <2>1. DOMAIN sent[p] = 1..Len(sent[p]) /\ Len(sent[p]) \in Nat
    BY <1>1
  <2>2. DOMAIN newSent = DOMAIN sent[p] /\ newSent = [k \in DOMAIN sent[p] |-> newSent[k]]
    BY DEF Marked
  <2> HIDE DEF newSent
  <2>3. newSent \in [1..Len(sent[p]) -> Entry]
    BY <1>5, <2>1, <2>2
  <2> QED
    BY <2>1, <2>2, <2>3
<1>7. newOut \subseteq outgoing[p] /\ \A m \in outgoing[p] \ newOut : m < expect[q]
  <2>1. ASSUME NEW m \in Erased(p, acked)
        PROVE  \E k \in acked : \E i \in sent[p][k].msgs : Wire(i) = Wire(m)
    <3> DEFINE before == {x \in outgoing[p] : Wire(x) = Wire(m) /\ x <= m}
               named  == {k \in acked : \E i \in sent[p][k].msgs : Wire(i) = Wire(m)}
    <3>1. m \in outgoing[p] /\ Cardinality(before) <= Cardinality(named)
      BY DEF Erased
    <3>2. m \in Nat /\ m \in before
      BY <1>1, <3>1
    <3>3. IsFiniteSet(before)
      <4>1. before \subseteq 0..m /\ IsFiniteSet(0..m)
        BY <1>1, <3>2, FS_Interval
      <4> QED
        BY <4>1, FS_Subset
    <3> HIDE DEF before
    <3>4. Cardinality(before) \in Nat /\ Cardinality(before) # 0
      BY <3>2, <3>3, FS_CardinalityType, FS_EmptySet
    <3>5. named # {}
      <4>1. Cardinality({}) = 0
        BY FS_EmptySet
      <4> HIDE DEF named
      <4> QED
        BY <3>1, <3>4, <4>1
    <3> QED
      BY <3>5
  <2>2. ASSUME NEW m \in Erased(p, acked) PROVE m < expect[q]
    <3>1. PICK k \in acked : \E i \in sent[p][k].msgs : Wire(i) = Wire(m)
      BY <2>1
    <3>2. PICK i \in sent[p][k].msgs : Wire(i) = Wire(m)
      BY <3>1
    <3>3. k \in DOMAIN sent[p] /\ sent[p][k] \in Entry
      BY <1>1, <1>2
    <3>4. m \in outgoing[p] /\ m \in Nat /\ i \in Nat
      BY <1>1, <3>3 DEF Erased, Entry
    <3>5. m - i < Modulus
      BY <3>4 DEF Timely, acked
    <3>6. i < expect[q] /\ expect[q] \in Nat
      BY <1>1, <1>4, <3>3, Others DEF SentOK, IInv, TypeOK
    <3>7. m <= i
      <4>1. CASE i - m < Modulus
        BY <3>2, <3>4, <3>5, <4>1, WireInjective
      <4>2. CASE i - m >= Modulus
        BY <3>4, <4>2, ModulusType
      <4> QED
        BY <3>4, <4>1, <4>2, ModulusType
    <3> QED
      BY <3>4, <3>6, <3>7
  <2> QED
    BY <2>2
<1> HIDE DEF newSent, newOut, p, q
<1>8. sent'[p] = newSent /\ outgoing'[p] = newOut
  BY <1>1, <1>3
<1>9. sent' \in [Peer -> Seq(Entry)] /\ outgoing' \in [Peer -> SUBSET Nat]
  BY <1>1, <1>3, <1>6, <1>7
<1>10. tally' \in [Peer -> [resolved : Nat, lost : Nat]]
  BY <1>1, <1>2, <1>3
<1>11. \A x \in Peer : x # p => sent'[x] = sent[x] /\ outgoing'[x] = outgoing[x]
  BY <1>1, <1>3
<1> QED
  BY <1>5, <1>6, <1>7, <1>8, <1>9, <1>10, <1>11 DEF p, q

-----------------------------------------------------------------------------
\* Two ids that a timely packet brings together compare as the numbers do.
LEMMA DueExactly ==
  ASSUME NEW e \in Nat, NEW m \in Nat, NEW i \in e..(e + Half),
         m <= e + MaxSpan, e - m < Half
  PROVE  Ahead(m, i) = 0 <=> m = i
<1>1. m - i < Modulus /\ i - m < Modulus
  BY SizeAssumption, HalfAssumption DEF Modulus
<1>2. Ahead(m, i) = 0 => m = i
  BY <1>1, AheadZero, WireInjective
<1> QED
  BY <1>2, AheadSelf

\* A packet's messages are delivered to the last; nothing is held or refused.
LEMMA MessagesTaken ==
  ASSUME IInv, NEW d \in net, Timely(d), TakeMessages(d.to, d.msgs)
  PROVE  LET p == d.to IN
         /\ expect' \in [Peer -> Nat] /\ log' \in [Peer -> Seq(Nat)]
         /\ held' = held /\ refused' = refused
         /\ \A x \in Peer : x # p => expect'[x] = expect[x] /\ log'[x] = log[x]
         /\ expect[p] <= expect'[p] /\ expect'[p] <= nextId[Other(p)]
         /\ Used(expect'[p])
         /\ log'[p] = [i \in 1..(expect'[p] - 1) |-> IF Used(i) THEN i ELSE 0]
         /\ \A m \in d.msgs : m < expect'[p]
<1> DEFINE p    == d.to
           q    == Other(p)
           e    == expect[p]
           msgs == d.msgs
<1>1. /\ p \in Peer /\ q \in Peer /\ Other(q) = p
      /\ expect \in [Peer -> Nat] /\ log \in [Peer -> Seq(Nat)]
      /\ held \in [Peer -> SUBSET Nat] /\ refused \in [Peer -> Nat]
      /\ nextId[q] \in Nat /\ e \in Nat /\ msgs \in SUBSET Nat
  BY Others DEF IInv, TypeOK, Datagram
<1>2. /\ e >= 1 /\ Used(e) /\ e <= nextId[q] /\ held[p] = {} /\ refused[p] = 0
      /\ log[p] = [i \in 1..(e - 1) |-> IF Used(i) THEN i ELSE 0]
      /\ Used(nextId[q])
  BY <1>1 DEF IInv, IdsOK, LogOK
<1>3. \A m \in msgs :
        /\ m \in 1..(nextId[q] - 1) /\ m <= e + MaxSpan
        /\ \A i \in 1..(m - 1) : Used(i) => i < e \/ i \in msgs
        /\ e - m < Half
  BY <1>1 DEF IInv, DatagramOK, MsgsOK, Timely
<1>4. \A m \in msgs, i \in e..(e + Half) : Ahead(m, i) = 0 <=> m = i
  <2> HIDE DEF e
  <2> QED
    BY <1>1, <1>3, DueExactly
<1>5. Refused(p, msgs) = {}
  <2>1. ASSUME NEW m \in msgs, Ahead(m, e) > 0
        PROVE  e \in msgs
    <3>1. Ahead(m, e) = m - e
      <4>1. m - e < Half /\ e - m <= Half
        BY <1>1, <1>3, SizeAssumption, HalfAssumption, SMTT(30)
      <4> HIDE DEF e
      <4> QED
        BY <1>1, <4>1, AheadExact
    <3>2. e \in 1..(m - 1)
      BY <1>1, <1>2, <1>3, <2>1, <3>1
    <3> QED
      BY <1>1, <1>2, <1>3, <3>2
  <2>2. Ahead(e, e) = 0
    BY <1>1, AheadSelf
  <2> QED
    BY <2>1, <2>2 DEF Refused
<1>5a. Deliver(p, msgs) /\ refused' = [refused EXCEPT ![p] = 0]
  <2>1. held[p] \cup (msgs \ Refused(p, msgs)) = msgs
    BY <1>2, <1>5
  <2>2. Cardinality({}) = 0
    BY FS_EmptySet
  <2>3. Deliver(p, msgs) /\ refused' = [refused EXCEPT ![p] = @ + Cardinality({})]
    BY <1>5, <2>1 DEF TakeMessages
  <2>4. refused[p] + Cardinality({}) = 0
    BY <1>2, <2>2
  <2> QED
    BY <2>3, <2>4
<1>6. PICK next \in e..(e + Half) :
        /\ Used(next) /\ Due(msgs, next) = {}
        /\ \A i \in e..(next - 1) : Used(i) => Due(msgs, i) # {}
        /\ expect' = [expect EXCEPT ![p] = next]
        /\ log' = [log EXCEPT ![p] = [i \in 1..(next - 1) |->
                     IF i < e THEN @[i]
                     ELSE IF Used(i) THEN CHOOSE m \in Due(msgs, i) : TRUE ELSE 0]]
        /\ held' = [held EXCEPT ![p] =
                     {m \in msgs : Ahead(m, e) > 0 /\ \A i \in e..(next - 1) : m \notin Due(msgs, i)}]
  BY <1>5a DEF Deliver
<1>7. next \in Nat /\ e <= next /\ next <= e + Half
  BY <1>1, <1>6, HalfAssumption
<1>8. \A i \in e..next : Due(msgs, i) = {i} \cap msgs
  <2>1. \A i \in e..next : i \in e..(e + Half)
    BY <1>1, <1>7, HalfAssumption
  <2> QED
    BY <1>4, <2>1 DEF Due
<1>9. /\ next \notin msgs
      /\ \A i \in e..(next - 1) : Used(i) => i \in msgs /\ Due(msgs, i) = {i}
  <2>1. next \in e..next /\ \A i \in e..(next - 1) : i \in e..next
    BY <1>1, <1>7
  <2> QED
    BY <1>6, <1>8, <2>1
<1> HIDE DEF e, msgs, q, p
<1>10. \A m \in msgs : m < next
  <2> SUFFICES ASSUME NEW m \in msgs, m >= next PROVE FALSE
    BY <1>1, <1>7
  <2>1. m # next /\ m \in Nat
    BY <1>1, <1>9
  <2>2. next \in 1..(m - 1) /\ ~(next < e)
    BY <1>1, <1>2, <1>7, <2>1
  <2> QED
    BY <1>3, <1>6, <1>9, <2>2
<1>11. next <= nextId[q]
  <2> SUFFICES ASSUME next > nextId[q] PROVE FALSE
    BY <1>1, <1>7
  <2>1. nextId[q] \in e..(next - 1)
    BY <1>1, <1>2, <1>7
  <2>2. nextId[q] \in msgs
    BY <1>2, <1>9, <2>1
  <2> QED
    BY <1>1, <1>3, <2>2
<1>12. held' = held
  <2>1. ASSUME NEW m \in msgs, Ahead(m, e) > 0, \A i \in e..(next - 1) : m \notin Due(msgs, i)
        PROVE  FALSE
    <3>1. m < e
      <4>1. m \notin e..(next - 1)
        <5>1. \A i \in e..(next - 1) : i \in msgs => i \in Due(msgs, i)
          <6>1. \A i \in e..(next - 1) : i \in e..next
            BY <1>1, <1>7
          <6> QED
            BY <1>8, <6>1
        <5> QED
          BY <2>1, <5>1
      <4> QED
        BY <1>1, <1>7, <1>10, <4>1
    <3>2. Ahead(m, e) = m - e
      <4>1. m - e < Half /\ e - m <= Half
        BY <1>1, <1>3, SizeAssumption, HalfAssumption
      <4> QED
        BY <1>1, <4>1, AheadExact
    <3> QED
      BY <1>1, <2>1, <3>1, <3>2
  <2>2. held' = [held EXCEPT ![p] = {}]
    BY <1>6, <2>1
  <2> QED
    BY <1>1, <1>2, <2>2
<1>13. refused' = refused
  BY <1>1, <1>2, <1>5a
<1>14. log'[p] = [i \in 1..(next - 1) |-> IF Used(i) THEN i ELSE 0]
  <2>1. log'[p] = [i \in 1..(next - 1) |->
                     IF i < e THEN log[p][i]
                     ELSE IF Used(i) THEN CHOOSE m \in Due(msgs, i) : TRUE ELSE 0]
    BY <1>1, <1>6
  <2>2. ASSUME NEW i \in 1..(next - 1)
        PROVE  (IF i < e THEN log[p][i]
                ELSE IF Used(i) THEN CHOOSE m \in Due(msgs, i) : TRUE ELSE 0)
               = IF Used(i) THEN i ELSE 0
    <3>1. CASE i < e
      <4>1. i \in 1..(e - 1)
        BY <1>1, <1>7, <3>1
      <4> QED
        BY <1>2, <3>1, <4>1
    <3>2. CASE ~(i < e) /\ Used(i)
      <4>1. i \in e..(next - 1)
        BY <1>1, <1>7, <3>2
      <4>2. Due(msgs, i) = {i}
        BY <1>9, <3>2, <4>1
      <4> QED
        BY <3>2, <4>2
    <3>3. CASE ~(i < e) /\ ~Used(i)
      BY <3>3
    <3> QED
      BY <3>1, <3>2, <3>3
  <2> QED
    BY <2>1, <2>2
<1>15. expect'[p] = next /\ expect' \in [Peer -> Nat]
  BY <1>1, <1>6, <1>7
<1>16. log' \in [Peer -> Seq(Nat)]
  <2>1. log'[p] \in Seq(Nat)
    <3>1. [i \in 1..(next - 1) |-> IF Used(i) THEN i ELSE 0] \in [1..(next - 1) -> Nat]
      BY <1>7
    <3>2. next - 1 \in Nat
      BY <1>1, <1>2, <1>7
    <3> QED
      BY <1>14, <3>1, <3>2
  <2>2. log' = [log EXCEPT ![p] = log'[p]]
    BY <1>1, <1>6
  <2> QED
    BY <1>1, <2>1, <2>2
<1>17. \A x \in Peer : x # p => expect'[x] = expect[x] /\ log'[x] = log[x]
  BY <1>1, <1>6
<1>18. expect[p] <= next /\ Used(next)
  BY <1>6, <1>7 DEF e
<1> QED
  BY <1>10, <1>11, <1>12, <1>13, <1>14, <1>15, <1>16, <1>17, <1>18 DEF p, q, msgs

-----------------------------------------------------------------------------
LEMMA ReceiveStep ==
  ASSUME IInv, NEW d \in net, Receive(d)
  PROVE  IInv'
<1> DEFINE p == d.to
           q == Other(p)
<1>1. /\ TypeOK /\ p \in Peer /\ q \in Peer /\ q # p /\ Other(q) = p
      /\ DatagramOK(d) /\ d.seq \in Nat
      /\ localSeq \in [Peer -> Nat] /\ nextId \in [Peer -> Nat]
      /\ expect \in [Peer -> Nat] /\ got \in [Peer -> SUBSET Nat]
  BY Others DEF IInv, TypeOK, Datagram
<1>2. /\ Timely(d) /\ NoteSequence(p, d.seq) /\ NoteAcks(p, d) /\ TakeMessages(p, d.msgs)
      /\ ackPending' = [ackPending EXCEPT ![p] = TRUE]
      /\ got' = [got EXCEPT ![p] = @ \cup {d.seq}]
      /\ UNCHANGED <<localSeq, nextId, net>>
  BY DEF Receive
<1>3. /\ recv' \in [Peer -> [ack : Nat, bits : SUBSET (0..AckBits-1), expected : Nat, got : Nat]]
      /\ \A x \in Peer : x # p => recv'[x] = recv[x]
      /\ Acknowledged(recv'[p]) \subseteq got[p] \cup {d.seq}
  BY <1>2, SequenceNoted
<1>4. /\ sent' \in [Peer -> Seq(Entry)]
      /\ \A x \in Peer : x # p => sent'[x] = sent[x] /\ outgoing'[x] = outgoing[x]
      /\ Len(sent'[p]) = Len(sent[p]) /\ DOMAIN sent'[p] = DOMAIN sent[p]
      /\ \A k \in DOMAIN sent[p] :
           /\ sent'[p][k].seq = sent[p][k].seq /\ sent'[p][k].msgs = sent[p][k].msgs
           /\ sent'[p][k].acked => sent[p][k].seq \in got[q]
      /\ outgoing' \in [Peer -> SUBSET Nat] /\ outgoing'[p] \subseteq outgoing[p]
      /\ \A m \in outgoing[p] \ outgoing'[p] : m < expect[q]
      /\ tally' \in [Peer -> [resolved : Nat, lost : Nat]]
  BY <1>2, AcksNoted
<1>5. /\ expect' \in [Peer -> Nat] /\ log' \in [Peer -> Seq(Nat)]
      /\ held' = held /\ refused' = refused
      /\ \A x \in Peer : x # p => expect'[x] = expect[x] /\ log'[x] = log[x]
      /\ expect[p] <= expect'[p] /\ expect'[p] <= nextId[q]
      /\ Used(expect'[p])
      /\ log'[p] = [i \in 1..(expect'[p] - 1) |-> IF Used(i) THEN i ELSE 0]
      /\ \A m \in d.msgs : m < expect'[p]
  BY <1>2, MessagesTaken
<1>6. /\ got' \in [Peer -> SUBSET Nat] /\ got'[p] = got[p] \cup {d.seq}
      /\ \A x \in Peer : x # p => got'[x] = got[x]
  BY <1>1, <1>2
<1>7. \A x \in Peer : expect[x] <= expect'[x] /\ expect[x] \in Nat /\ expect'[x] \in Nat
  <2> TAKE x \in Peer
  <2>1. expect[x] \in Nat /\ expect'[x] \in Nat
    BY <1>1, <1>5
  <2>2. CASE x = p
    BY <1>5, <2>1, <2>2
  <2>3. CASE x # p
    BY <1>5, <2>1, <2>3
  <2> QED
    BY <2>1, <2>2, <2>3
<1>8. \A x \in Peer : got[x] \subseteq got'[x]
  BY <1>6
<1>9. TypeOK'
  <2>1. ackPending' \in [Peer -> BOOLEAN]
    BY <1>1, <1>2 DEF TypeOK
  <2> QED
    BY <1>1, <1>2, <1>3, <1>4, <1>5, <1>6, <2>1 DEF TypeOK
<1> HIDE DEF p, q
<1>10. ASSUME NEW r \in Peer
       PROVE  (IdsOK(r) /\ LogOK(r) /\ QueueOK(r) /\ RecvOK(r) /\ SentOK(r))'
  <2>1. IdsOK(r) /\ LogOK(r) /\ QueueOK(r) /\ RecvOK(r) /\ SentOK(r)
    BY DEF IInv
  <2>2. r = p \/ r = q
    BY <1>1, Others DEF p, q
  <2>3. IdsOK(r)'
    <3>1. CASE r = p
      <4>1. /\ nextId[p] >= 1 /\ Used(nextId[p]) /\ held[p] = {} /\ refused[p] = 0
            /\ expect[p] >= 1
        BY <2>1, <3>1 DEF IdsOK
      <4>2. expect'[p] >= 1
        BY <1>1, <1>5, <4>1
      <4> QED
        BY <1>2, <1>5, <3>1, <4>1, <4>2 DEF IdsOK, q
    <3>2. CASE r = q
      BY <1>1, <1>2, <1>5, <2>1, <3>2 DEF IdsOK
    <3> QED
      BY <2>2, <3>1, <3>2
  <2>4. LogOK(r)'
    BY <1>1, <1>5, <2>1, <2>2 DEF LogOK
  <2>5. QueueOK(r)'
    <3>1. /\ \A m \in outgoing[r] : Used(m) /\ m \in 1..(nextId[r] - 1)
          /\ \A i \in 1..(nextId[r] - 1) : Used(i) => i \in outgoing[r] \/ i < expect[Other(r)]
      BY <2>1 DEF QueueOK
    <3>2. outgoing'[r] \subseteq outgoing[r]
      BY <1>1, <1>4, <2>2
    <3>3. \A m \in outgoing[r] \ outgoing'[r] : m < expect[Other(r)]
      BY <1>1, <1>4, <2>2 DEF q
    <3>4. Other(r) \in Peer
      BY Others
    <3>5. \A i \in 1..(nextId[r] - 1) : i < expect[Other(r)] => i < expect'[Other(r)]
      BY <1>1, <1>7, <3>4
    <3> QED
      BY <1>2, <3>1, <3>2, <3>3, <3>5 DEF QueueOK
  <2>6. RecvOK(r)'
    <3>1. got[r] \subseteq 1..localSeq[Other(r)] /\ Acknowledged(recv[r]) \subseteq got[r]
      BY <2>1 DEF RecvOK
    <3>2. CASE r = p
      <4>1. d.seq \in 1..localSeq[q]
        BY <1>1 DEF DatagramOK, p, q
      <4>2. got'[p] \subseteq 1..localSeq[Other(p)]
        BY <1>6, <3>1, <3>2, <4>1 DEF q
      <4>3. Acknowledged(recv[p])' = Acknowledged(recv'[p])
        BY DEF Acknowledged, p
      <4> QED
        BY <1>2, <1>3, <1>6, <3>2, <4>2, <4>3 DEF RecvOK, p
    <3>3. CASE r = q
      <4>1. recv'[r] = recv[r] /\ got'[r] = got[r]
        BY <1>1, <1>3, <1>6, <3>3
      <4> QED
        BY <1>2, <3>1, <4>1 DEF RecvOK, Acknowledged
    <3> QED
      BY <2>2, <3>2, <3>3
  <2>7. SentOK(r)'
    <3> DEFINE o == Other(r)
    <3>1. o \in Peer
      BY Others
    <3>2. /\ Len(sent'[r]) = Len(sent[r]) /\ DOMAIN sent'[r] = DOMAIN sent[r]
          /\ \A k \in DOMAIN sent[r] :
               /\ sent'[r][k].seq = sent[r][k].seq /\ sent'[r][k].msgs = sent[r][k].msgs
               /\ sent'[r][k].acked => sent[r][k].seq \in got[o]
      <4>1. CASE r = p
        BY <1>4, <4>1 DEF q
      <4>2. CASE r = q
        BY <1>1, <1>4, <2>1, <4>2 DEF SentOK
      <4> QED
        BY <2>2, <4>1, <4>2
    <3>3. ASSUME NEW k \in DOMAIN sent[r]
          PROVE  sent[r][k].seq \in got'[o] => \A m \in sent[r][k].msgs : m < expect'[o]
      <4>1. CASE sent[r][k].seq \in got[o]
        <5>1. \A m \in sent[r][k].msgs : m < expect[o]
          BY <2>1, <4>1 DEF SentOK
        <5>2. \A m \in sent[r][k].msgs : m \in Nat
          <6>1. sent[r] \in Seq(Entry)
            BY <1>1 DEF TypeOK
          <6>2. sent[r][k] \in Entry
            BY <6>1
          <6> QED
            BY <6>2 DEF Entry
        <5> QED
          BY <1>7, <3>1, <5>1, <5>2
      <4>2. CASE sent[r][k].seq \in got'[o] /\ sent[r][k].seq \notin got[o]
        <5>1. o = p /\ sent[r][k].seq = d.seq
          BY <1>6, <3>1, <4>2
        <5>2. r = q
          BY <1>1, <2>2, <5>1, Others
        <5>3. sent[r][k].msgs = d.msgs
          BY <1>1, <5>1, <5>2 DEF DatagramOK, p, q
        <5> QED
          BY <1>5, <5>1, <5>3
      <4> QED
        BY <4>1, <4>2
    <3>4. \A k \in DOMAIN sent[r] : /\ sent[r][k].seq \in 1..localSeq[r]
                                    /\ localSeq[r] - sent[r][k].seq <= 2 * (Len(sent[r]) - k)
      BY <2>1 DEF SentOK
    <3>5. Len(sent[r]) <= SentCap
      BY <2>1 DEF SentOK
    <3>6. \A k \in DOMAIN sent[r] : sent'[r][k].acked => sent'[r][k].seq \in got'[o]
      BY <1>8, <3>1, <3>2
    <3> QED
      BY <1>2, <3>2, <3>3, <3>4, <3>5, <3>6 DEF SentOK
  <2> QED
    BY <2>3, <2>4, <2>5, <2>6, <2>7
<1>11. ASSUME NEW c \in net' PROVE DatagramOK(c)'
  <2> DEFINE s == Other(c.to)
  <2>1. c \in net /\ DatagramOK(c)
    BY <1>2 DEF IInv
  <2>2. c.to \in Peer /\ s \in Peer /\ Other(s) = c.to /\ c.msgs \in SUBSET Nat
    BY <1>1, <2>1, Others DEF TypeOK, Datagram
  <2>3. c.seq \in 1..localSeq'[s]
    BY <1>2, <2>1 DEF DatagramOK
  <2>4. Acknowledged(c)' \subseteq got'[s]
    BY <1>8, <2>1, <2>2 DEF DatagramOK, Acknowledged
  <2>5. MsgsOK(s, c.msgs)'
    <3>1. \A m \in c.msgs :
            /\ Used(m) /\ m \in 1..(nextId[s] - 1)
            /\ m <= expect[c.to] + MaxSpan
            /\ \A i \in 1..(m - 1) : Used(i) => i < expect[c.to] \/ i \in c.msgs
      BY <2>1, <2>2 DEF DatagramOK, MsgsOK
    <3>2. expect[c.to] <= expect'[c.to] /\ expect[c.to] \in Nat /\ expect'[c.to] \in Nat
      BY <1>7, <2>2
    <3>3. \A m \in c.msgs : m <= expect'[c.to] + MaxSpan
      BY <2>2, <3>1, <3>2, SizeAssumption
    <3>4. \A m \in c.msgs, i \in Nat : i < expect[c.to] => i < expect'[c.to]
      BY <3>2
    <3>5. \A m \in c.msgs : \A i \in 1..(m - 1) : Used(i) => i < expect'[c.to] \/ i \in c.msgs
      BY <2>2, <3>1, <3>4
    <3> QED
      BY <1>2, <2>2, <3>1, <3>3, <3>5 DEF MsgsOK
  <2>6. \A k \in DOMAIN sent'[s] : sent'[s][k].seq = c.seq => sent'[s][k].msgs = c.msgs
    <3>1. \A k \in DOMAIN sent[s] : sent[s][k].seq = c.seq => sent[s][k].msgs = c.msgs
      BY <2>1 DEF DatagramOK
    <3> QED
      BY <1>4, <2>2, <3>1
  <2> QED
    BY <2>3, <2>4, <2>5, <2>6 DEF DatagramOK
<1> QED
  BY <1>2, <1>9, <1>10, <1>11 DEF IInv

-----------------------------------------------------------------------------
LEMMA NextIInv == IInv /\ [Next]_vars => IInv'
<1> SUFFICES ASSUME IInv, [Next]_vars PROVE IInv'
  OBVIOUS
<1>1. CASE UNCHANGED vars
  <2>1. /\ UNCHANGED <<localSeq, recv, ackPending, sent, tally, outgoing, nextId>>
        /\ UNCHANGED <<expect, held, refused, log, got, net>>
    BY <1>1 DEF vars, sendVars, recvVars
  <2>2. TypeOK'
    BY <2>1 DEF IInv, TypeOK
  <2>3. \A p \in Peer : (IdsOK(p) /\ LogOK(p) /\ QueueOK(p) /\ RecvOK(p) /\ SentOK(p))'
    <3> TAKE p \in Peer
    <3>1. IdsOK(p) /\ LogOK(p) /\ QueueOK(p) /\ RecvOK(p) /\ SentOK(p)
      BY DEF IInv
    <3>2. IdsOK(p)' /\ LogOK(p)' /\ QueueOK(p)'
      BY <2>1, <3>1 DEF IdsOK, LogOK, QueueOK
    <3>3. RecvOK(p)' /\ SentOK(p)'
      BY <2>1, <3>1 DEF RecvOK, SentOK, Acknowledged
    <3> QED
      BY <3>2, <3>3
  <2>4. \A d \in net' : DatagramOK(d)'
    BY <2>1 DEF IInv, DatagramOK, MsgsOK, Acknowledged
  <2> QED
    BY <2>2, <2>3, <2>4 DEF IInv
<1>2. ASSUME NEW p \in Peer, Enqueue(p) PROVE IInv'
  BY <1>2, EnqueueStep
<1>3. ASSUME NEW p \in Peer, BuildData(p) \/ BuildBare(p) PROVE IInv'
  BY <1>3, BuildStep
<1>4. ASSUME NEW d \in net, Receive(d) PROVE IInv'
  BY <1>4, ReceiveStep
<1> QED
  BY <1>1, <1>2, <1>3, <1>4 DEF Next

\* Every reachable state of the two connections satisfies the inductive invariant.
THEOREM Inductive == Spec => []IInv
<1>1. IInv /\ [Next]_vars => IInv'
  BY NextIInv
<1> QED
  BY InitIInv, <1>1, PTL DEF Spec

-----------------------------------------------------------------------------
\* Both Connection objects and the network keep their types, for every size of
\* number space, window and history: in particular the acknowledgement field
\* never names a packet beyond its AckBits.
THEOREM TypeCorrect == Spec => []TypeOK
<1>1. IInv => TypeOK
  BY DEF IInv
<1> QED
  BY <1>1, Inductive, PTL

\* Receive hands up exactly the messages the peer queued, each once and in the
\* order of Enqueue, for every size of the id space and for any number of wraps.
THEOREM DeliveredInOrder == Spec => []InOrder
<1>1. IInv => InOrder
  BY DEF IInv, LogOK, IdsOK, InOrder
<1> QED
  BY <1>1, Inductive, PTL

\* A message leaves m_Outgoing only after the peer has delivered it.
THEOREM NoMessageForgotten == Spec => []NoneForgotten
<1>1. IInv => NoneForgotten
  BY DEF IInv, QueueOK, NoneForgotten
<1> QED
  BY <1>1, Inductive, PTL

\* The bounds on m_Held never refuse what Build sent (netcode.md: "An honest
\* sender cannot hit either limit"), whatever the window.
THEOREM HonestNeverRefused == Spec => []NeverRefused
<1>1. IInv => NeverRefused
  BY DEF IInv, IdsOK, NeverRefused
<1> QED
  BY <1>1, Inductive, PTL

\* m_Held stays empty between two conforming ends: every packet starts at the
\* sender's oldest message, so none leaves a hole behind the expected id.
THEOREM NothingEverHeld == Spec => [](\A p \in Peer : held[p] = {})
<1>1. IInv => \A p \in Peer : held[p] = {}
  BY DEF IInv, IdsOK
<1> QED
  BY <1>1, Inductive, PTL

\* A packet that IsAcked reports has been received, although sequences wrap and
\* acknowledgements arrive late and twice.
THEOREM AcknowledgedWasReceived == Spec => []AcksAreTrue
<1>1. IInv => AcksAreTrue
  <2> SUFFICES ASSUME IInv, NEW p \in Peer, NEW k \in DOMAIN sent[p],
                      IsAcked(p, sent[p][k].seq)
               PROVE  sent[p][k].seq \in got[Other(p)]
    BY DEF AcksAreTrue
  <2>1. PICK j \in DOMAIN sent[p] : Wire(sent[p][j].seq) = Wire(sent[p][k].seq) /\ sent[p][j].acked
    BY DEF IsAcked
  <2>2. SentOK(p) /\ sent[p] \in Seq(Entry) /\ localSeq[p] \in Nat
    BY DEF IInv, TypeOK
  <2> DEFINE len == Len(sent[p])
  <2>3. \A i \in DOMAIN sent[p] : /\ sent[p][i].seq \in 1..localSeq[p]
                                  /\ localSeq[p] - sent[p][i].seq < Half
    <3> TAKE i \in DOMAIN sent[p]
    <3>1. /\ sent[p][i].seq \in 1..localSeq[p] /\ len <= SentCap
          /\ localSeq[p] - sent[p][i].seq <= 2 * (len - i)
      BY <2>2 DEF SentOK
    <3>2. len - i < SentCap /\ len - i \in Int
      <4>1. len \in Nat /\ i \in 1..len
        BY <2>2
      <4> HIDE DEF len
      <4> QED
        BY <3>1, <4>1, SizeAssumption
    <3> DEFINE s == sent[p][i].seq
    <3> HIDE DEF len, s
    <3>3. localSeq[p] - s < Half
      <4>1. s \in 1..localSeq[p] /\ localSeq[p] - s <= 2 * (len - i)
        BY <3>1 DEF s
      <4> QED
        BY <2>2, <3>2, <4>1, SizeAssumption, HalfAssumption
    <3> QED
      BY <3>1, <3>3 DEF s
  <2>4. sent[p][j].seq = sent[p][k].seq
    <3> DEFINE x == sent[p][j].seq
               y == sent[p][k].seq
    <3>1. /\ x \in Int /\ y \in Int /\ Wire(x) = Wire(y)
          /\ x <= localSeq[p] /\ y <= localSeq[p]
          /\ localSeq[p] - x < Half /\ localSeq[p] - y < Half
      BY <2>1, <2>2, <2>3
    <3> HIDE DEF x, y
    <3>2. x - y < Modulus /\ y - x < Modulus
      BY <2>2, <3>1, HalfAssumption DEF Modulus
    <3> QED
      BY <3>1, <3>2, WireInjective DEF x, y
  <2> QED
    BY <2>1, <2>2, <2>4 DEF SentOK
<1> QED
  BY <1>1, Inductive, PTL

-----------------------------------------------------------------------------
(* The channel *)

\* A set of natural numbers has a least element.
LEMMA LeastElement ==
  ASSUME NEW T \in SUBSET Nat, T # {}
  PROVE  \E n \in T : \A m \in T : n <= m
<1> DEFINE R == OpToRel(<, Nat)
<1>1. IsWellFoundedOn(R, Nat)
  BY NatLessThanWellFounded
<1>2. PICK x \in T : \A y \in T : <<y, x>> \notin R
  BY <1>1, WFMin
<1>3. \A y \in T : ~(y < x)
  BY <1>2 DEF OpToRel
<1> QED
  BY <1>3

LEMMA NumberedFacts ==
  ASSUME NEW n \in Int
  PROVE  /\ IsFiniteSet(Numbered(n)) /\ Cardinality(Numbered(n)) \in Nat
         /\ \A i \in Numbered(n) : i \in Nat \ {0} /\ i <= n /\ Used(i)
<1>1. IsFiniteSet(1..n)
  BY FS_Interval
<1>2. IsFiniteSet(Numbered(n))
  BY <1>1, FS_Subset DEF Numbered
<1> QED
  BY <1>2, FS_CardinalityType DEF Numbered

\* A used number is one id more than the number before it, an unused one none.
LEMMA NumberedNext ==
  ASSUME NEW n \in Nat
  PROVE  Cardinality(Numbered(n + 1)) =
           IF Used(n + 1) THEN Cardinality(Numbered(n)) + 1 ELSE Cardinality(Numbered(n))
<1>1. Numbered(n + 1) = IF Used(n + 1) THEN Numbered(n) \cup {n + 1} ELSE Numbered(n)
  BY DEF Numbered
<1>2. n + 1 \notin Numbered(n)
  BY DEF Numbered
<1>3. Cardinality(Numbered(n) \cup {n + 1}) = Cardinality(Numbered(n)) + 1
  <2>1. IsFiniteSet(Numbered(n))
    BY NumberedFacts
  <2> QED
    BY <1>2, <2>1, FS_AddElement
<1> QED
  BY <1>1, <1>3

\* An id has more ids up to it than any id before it.
LEMMA NumberedGrows ==
  ASSUME NEW m \in Int, NEW n \in Int, m <= n
  PROVE  /\ Numbered(m) \subseteq Numbered(n)
         /\ Cardinality(Numbered(m)) <= Cardinality(Numbered(n))
         /\ m < n /\ n >= 1 /\ Used(n) => Cardinality(Numbered(m)) < Cardinality(Numbered(n))
<1>1. Numbered(m) \subseteq Numbered(n)
  BY DEF Numbered
<1>2. Cardinality(Numbered(m)) <= Cardinality(Numbered(n))
  BY <1>1, NumberedFacts, FS_Subset
<1>3. ASSUME m < n, n >= 1, Used(n)
      PROVE  Cardinality(Numbered(m)) < Cardinality(Numbered(n))
  <2>1. n \in Numbered(n) /\ n \notin Numbered(m)
    BY <1>3 DEF Numbered
  <2>2. Cardinality(Numbered(m)) # Cardinality(Numbered(n))
    BY <1>1, <2>1, NumberedFacts, FS_Subset
  <2> QED
    BY <1>2, <2>2, NumberedFacts
<1> QED
  BY <1>1, <1>2, <1>3

\* The k-th id up to n is there, and is the only one with k ids up to it.
LEMMA IdsList ==
  ASSUME NEW n \in Nat, NEW k \in 1..Cardinality(Numbered(n))
  PROVE  /\ Ids(n)[k] \in Numbered(n)
         /\ Cardinality(Numbered(Ids(n)[k])) = k
         /\ \A i \in Nat \ {0} : Used(i) /\ Cardinality(Numbered(i)) = k => i = Ids(n)[k]
<1> DEFINE T == {i \in 0..n : Cardinality(Numbered(i)) >= k}
<1>1. Cardinality(Numbered(0)) = 0
  BY FS_EmptySet DEF Numbered
<1>2. n \in T /\ T \in SUBSET Nat /\ 0 \notin T
  BY <1>1
<1>3. PICK i \in T : \A j \in T : i <= j
  BY <1>2, LeastElement
<1>4. i \in Nat \ {0} /\ i <= n /\ i - 1 \in Nat /\ i - 1 \notin T
  BY <1>2, <1>3
<1>5. Cardinality(Numbered(i - 1)) < k /\ Cardinality(Numbered(i - 1)) \in Nat
  BY <1>4, NumberedFacts
<1>6. /\ Cardinality(Numbered(i)) >= k
      /\ Cardinality(Numbered(i)) = IF Used(i) THEN Cardinality(Numbered(i - 1)) + 1
                                    ELSE Cardinality(Numbered(i - 1))
  <2>1. (i - 1) + 1 = i
    BY <1>4
  <2> QED
    BY <1>3, <1>4, <2>1, NumberedNext
<1>7. Used(i) /\ Cardinality(Numbered(i)) = k
  BY <1>5, <1>6
<1>8. i \in Numbered(n)
  BY <1>4, <1>7 DEF Numbered
<1>9. Ids(n)[k] \in Numbered(n) /\ Cardinality(Numbered(Ids(n)[k])) = k
  BY <1>7, <1>8 DEF Ids
<1>10. ASSUME NEW j \in Nat \ {0}, NEW l \in Nat \ {0}, Used(j), Used(l),
              Cardinality(Numbered(j)) = k, Cardinality(Numbered(l)) = k
       PROVE  j = l
  <2>1. ~(j < l) /\ ~(l < j)
    BY <1>10, NumberedGrows
  <2> QED
    BY <2>1
<1> QED
  BY <1>9, <1>10, NumberedFacts

\* What was queued up to a number begins with what was queued up to a smaller one.
LEMMA IdsBegin ==
  ASSUME NEW m \in Nat, NEW n \in Nat, m <= n
  PROVE  /\ Ids(m) \in Seq(Nat) /\ Ids(n) \in Seq(Nat) /\ Len(Ids(m)) = Cardinality(Numbered(m))
         /\ Len(Ids(m)) <= Len(Ids(n))
         /\ \A k \in 1..Len(Ids(m)) : Ids(m)[k] = Ids(n)[k]
<1>1. \A l \in Nat : Ids(l) \in Seq(Nat) /\ Len(Ids(l)) = Cardinality(Numbered(l))
  <2> TAKE l \in Nat
  <2>1. Cardinality(Numbered(l)) \in Nat /\ \A i \in Numbered(l) : i \in Nat
    BY NumberedFacts
  <2>2. \A k \in 1..Cardinality(Numbered(l)) : Ids(l)[k] \in Nat
    BY <2>1, IdsList
  <2>3. Ids(l) = [k \in 1..Cardinality(Numbered(l)) |-> Ids(l)[k]]
    BY DEF Ids
  <2> QED
    BY <2>1, <2>2, <2>3
<1>2. Cardinality(Numbered(m)) <= Cardinality(Numbered(n))
  BY NumberedGrows
<1>3. ASSUME NEW k \in 1..Cardinality(Numbered(m)) PROVE Ids(m)[k] = Ids(n)[k]
  <2>1. k \in 1..Cardinality(Numbered(n))
    BY <1>2, NumberedFacts
  <2>2. Ids(m)[k] \in Nat \ {0} /\ Used(Ids(m)[k]) /\ Cardinality(Numbered(Ids(m)[k])) = k
    BY IdsList, NumberedFacts
  <2> QED
    BY <2>1, <2>2, IdsList
<1> QED
  BY <1>1, <1>2, <1>3

\* A message more.
LEMMA IdsAppend ==
  ASSUME NEW n \in Nat \ {0}, Used(n)
  PROVE  Ids(After(n) - 1) = Append(Ids(n - 1), n)
<1> DEFINE b == After(n) - 1
           c == Cardinality(Numbered(n - 1))
<1>1. b \in Nat /\ n <= b /\ n - 1 \in Nat /\ \A i \in Nat : n < i /\ i <= b => ~Used(i)
  <2>1. /\ After(n) \in Nat /\ n < After(n)
        /\ \A i \in Nat : n < i /\ i < After(n) => ~Used(i)
    BY AfterSteps
  <2>2. \A i \in Nat : i <= b => i < After(n)
    BY <2>1
  <2> QED
    BY <2>1, <2>2
<1>2. Numbered(b) = Numbered(n)
  BY <1>1 DEF Numbered
<1>3. c \in Nat /\ Cardinality(Numbered(n)) = c + 1
  <2>1. (n - 1) + 1 = n /\ n - 1 \in Int /\ n - 1 \in Nat
    BY <1>1
  <2>2. c \in Nat
    BY <2>1, NumberedFacts
  <2>3. Cardinality(Numbered((n - 1) + 1)) = IF Used((n - 1) + 1) THEN c + 1 ELSE c
    BY <2>1, NumberedNext
  <2> HIDE DEF c
  <2> QED
    BY <2>1, <2>2, <2>3
<1> HIDE DEF b, c
<1>4. /\ Ids(n - 1) \in Seq(Nat) /\ Len(Ids(n - 1)) = c
      /\ Ids(b) \in Seq(Nat) /\ Len(Ids(b)) = c + 1
      /\ \A k \in 1..c : Ids(n - 1)[k] = Ids(b)[k]
  <2>1. n - 1 <= b
    BY <1>1
  <2> QED
    BY <1>1, <1>2, <1>3, <2>1, IdsBegin DEF c
<1>5. Ids(b)[c + 1] = n
  <2>1. c + 1 \in 1..Cardinality(Numbered(b))
    BY <1>2, <1>3
  <2> QED
    BY <2>1, <1>1, <1>2, <1>3, IdsList
<1>6. Append(Ids(n - 1), n) \in Seq(Nat) /\ Len(Append(Ids(n - 1), n)) = c + 1
  BY <1>4
<1>7. \A k \in 1..(c + 1) : Ids(b)[k] = Append(Ids(n - 1), n)[k]
  <2> TAKE k \in 1..(c + 1)
  <2>1. CASE k = c + 1
    BY <2>1, <1>3, <1>4, <1>5
  <2>2. CASE k # c + 1
    BY <2>2, <1>3, <1>4
  <2> QED
    BY <2>1, <2>2
<1>8. Ids(b) = Append(Ids(n - 1), n)
  BY <1>4, <1>6, <1>7
<1> QED
  BY <1>8 DEF b

\* What was handed up is what was queued before the id that is expected.
LEMMA LoggedIds ==
  ASSUME NEW m \in Nat, NEW l, l = [i \in 1..m |-> IF Used(i) THEN i ELSE 0]
  PROVE  [k \in DOMAIN Ids(m) |-> l[Ids(m)[k]]] = Ids(m)
<1>1. DOMAIN Ids(m) = 1..Cardinality(Numbered(m))
  BY DEF Ids
<1>2. \A k \in DOMAIN Ids(m) : l[Ids(m)[k]] = Ids(m)[k]
  <2> TAKE k \in DOMAIN Ids(m)
  <2>1. Ids(m)[k] \in Numbered(m)
    BY <1>1, IdsList
  <2>2. Ids(m)[k] \in 1..m /\ Used(Ids(m)[k])
    BY <2>1 DEF Numbered
  <2> QED
    BY <2>2
<1>3. Ids(m) = [k \in DOMAIN Ids(m) |-> Ids(m)[k]]
  BY DEF Ids
<1> QED
  BY <1>2, <1>3

LEMMA HandedUpIds ==
  ASSUME NEW p \in Peer
  PROVE  /\ IInv => HandedUp(p) = Ids(expect[p] - 1)
         /\ IInv' => HandedUp(p)' = Ids(expect'[p] - 1)
<1>1. ASSUME IInv PROVE HandedUp(p) = Ids(expect[p] - 1)
  <2>1. /\ expect[p] - 1 \in Nat
        /\ log[p] = [i \in 1..(expect[p] - 1) |-> IF Used(i) THEN i ELSE 0]
    BY <1>1 DEF IInv, IdsOK, LogOK, TypeOK
  <2> QED
    BY <2>1, LoggedIds DEF HandedUp
<1>2. ASSUME IInv' PROVE HandedUp(p)' = Ids(expect'[p] - 1)
  <2>1. /\ expect'[p] - 1 \in Nat
        /\ log'[p] = [i \in 1..(expect'[p] - 1) |-> IF Used(i) THEN i ELSE 0]
    BY <1>2 DEF IInv, IdsOK, LogOK, TypeOK
  <2> QED
    BY <2>1, LoggedIds DEF HandedUp
<1> QED
  BY <1>1, <1>2

\* A step writes one message at the end of what p queued, or reads more of it at the
\* other end, or is neither for this direction.
Writes(p) ==
  /\ \E m \in 1..MaxId[p] : Queued(p)' = Append(Queued(p), m)
  /\ HandedUp(Other(p))' = HandedUp(Other(p))

Reads(p) ==
  /\ \E n \in (Len(HandedUp(Other(p))) + 1)..Len(Queued(p)) :
       HandedUp(Other(p))' = SubSeq(Queued(p), 1, n)
  /\ Queued(p)' = Queued(p)

LEMMA ChannelStep ==
  ASSUME IInv, IInv', [Next]_vars, NEW p \in Peer
  PROVE  Writes(p) \/ Reads(p) \/ UNCHANGED <<Queued(p), HandedUp(Other(p))>>
<1> DEFINE q == Other(p)
<1>1. /\ q \in Peer /\ nextId[p] \in Nat \ {0} /\ Used(nextId[p]) /\ MaxId[p] \in Nat
      /\ expect[q] \in Nat \ {0} /\ expect'[q] \in Nat \ {0} /\ expect'[q] <= nextId'[p]
      /\ nextId'[p] \in Nat \ {0}
  <2>1. q \in Peer /\ Other(q) = p
    BY Others
  <2>2. /\ nextId \in [Peer -> Nat] /\ expect \in [Peer -> Nat] /\ MaxId[p] \in Nat
        /\ nextId' \in [Peer -> Nat] /\ expect' \in [Peer -> Nat]
    BY BoundAssumption DEF IInv, TypeOK
  <2>3. /\ nextId[p] >= 1 /\ Used(nextId[p]) /\ expect[q] >= 1
        /\ nextId'[p] >= 1 /\ expect'[q] >= 1 /\ expect'[q] <= nextId'[Other(q)]
    BY <2>1 DEF IInv, IdsOK
  <2> QED
    BY <2>1, <2>2, <2>3
<1>2. /\ HandedUp(q) = Ids(expect[q] - 1) /\ HandedUp(q)' = Ids(expect'[q] - 1)
      /\ Queued(p) = Ids(nextId[p] - 1) /\ Queued(p)' = Ids(nextId'[p] - 1)
  BY <1>1, HandedUpIds DEF Queued
<1>3. ASSUME UNCHANGED <<nextId, expect>>
      PROVE  UNCHANGED <<Queued(p), HandedUp(q)>>
  BY <1>2, <1>3
<1>4. ASSUME NEW r \in Peer, Enqueue(r)
      PROVE  Writes(p) \/ UNCHANGED <<Queued(p), HandedUp(q)>>
  <2>1. /\ expect' = expect /\ nextId[r] <= MaxId[r]
        /\ nextId' = [nextId EXCEPT ![r] = After(@)]
    BY <1>4 DEF Enqueue, recvVars
  <2>2. HandedUp(q)' = HandedUp(q)
    BY <2>1, <1>2
  <2>3. CASE r = p
    <3>1. nextId'[p] = After(nextId[p]) /\ nextId[p] \in 1..MaxId[p]
      <4>1. nextId \in [Peer -> Nat]
        BY DEF IInv, TypeOK
      <4> QED
        BY <2>1, <2>3, <4>1, <1>1
    <3>2. Queued(p)' = Append(Queued(p), nextId[p])
      BY <3>1, <1>1, <1>2, IdsAppend
    <3> QED
      BY <2>2, <3>1, <3>2 DEF Writes
  <2>4. CASE r # p
    <3>1. nextId'[p] = nextId[p]
      BY <2>1, <2>4 DEF IInv, TypeOK
    <3> QED
      BY <3>1, <1>2, <2>2
  <2> QED
    BY <2>3, <2>4
<1>5. ASSUME NEW r \in Peer, BuildData(r) \/ BuildBare(r)
      PROVE  UNCHANGED <<nextId, expect>>
  BY <1>5 DEF BuildData, BuildBare, Transmit, recvVars
<1>6. ASSUME NEW d \in net, Receive(d)
      PROVE  Reads(p) \/ UNCHANGED <<Queued(p), HandedUp(q)>>
  <2>1. nextId' = nextId
    BY <1>6 DEF Receive
  <2>2. d.to \in Peer /\ expect \in [Peer -> Nat]
    BY DEF IInv, TypeOK, Datagram
  <2>3. expect'[q] >= expect[q]
    <3>1. PICK e \in expect[d.to]..(expect[d.to] + Half) : expect' = [expect EXCEPT ![d.to] = e]
      BY <1>6 DEF Receive, TakeMessages, Deliver
    <3>2. expect[d.to] \in Nat
      BY <2>2
    <3> QED
      BY <1>1, <2>2, <3>1, <3>2
  <2>4. CASE Len(HandedUp(q)') = Len(HandedUp(q))
    <3>1. HandedUp(q)' = HandedUp(q)
      <4>1. /\ Ids(expect[q] - 1) \in Seq(Nat) /\ Ids(expect'[q] - 1) \in Seq(Nat)
            /\ \A k \in 1..Len(Ids(expect[q] - 1)) : Ids(expect[q] - 1)[k] = Ids(expect'[q] - 1)[k]
        <5>1. expect[q] - 1 \in Nat /\ expect'[q] - 1 \in Nat /\ expect[q] - 1 <= expect'[q] - 1
          BY <1>1, <2>3
        <5>2. \A m, n \in Nat : m <= n =>
                /\ Ids(m) \in Seq(Nat) /\ Ids(n) \in Seq(Nat)
                /\ \A k \in 1..Len(Ids(m)) : Ids(m)[k] = Ids(n)[k]
          BY IdsBegin
        <5> QED
          BY <5>1, <5>2
      <4>2. Len(Ids(expect'[q] - 1)) = Len(Ids(expect[q] - 1))
        BY <1>2, <2>4
      <4>3. Ids(expect'[q] - 1) = Ids(expect[q] - 1)
        BY <4>1, <4>2
      <4> QED
        BY <1>2, <4>3
    <3> QED
      BY <3>1, <2>1, <1>2
  <2>5. CASE Len(HandedUp(q)') # Len(HandedUp(q))
    <3> DEFINE n == Len(HandedUp(q)')
    <3>1. /\ HandedUp(q) \in Seq(Nat) /\ HandedUp(q)' \in Seq(Nat) /\ Queued(p) \in Seq(Nat)
          /\ Len(HandedUp(q)) <= n /\ n <= Len(Queued(p))
          /\ \A k \in 1..n : HandedUp(q)'[k] = Queued(p)[k]
      <4>1. /\ expect[q] - 1 \in Nat /\ expect'[q] - 1 \in Nat /\ nextId[p] - 1 \in Nat
            /\ expect[q] - 1 <= expect'[q] - 1 /\ expect'[q] - 1 <= nextId[p] - 1
        BY <1>1, <2>1, <2>3
      <4>2. /\ Ids(expect[q] - 1) \in Seq(Nat)
            /\ Len(Ids(expect[q] - 1)) <= Len(Ids(expect'[q] - 1))
        BY <4>1, IdsBegin
      <4>3. /\ Ids(expect'[q] - 1) \in Seq(Nat)
            /\ Ids(nextId[p] - 1) \in Seq(Nat)
            /\ Len(Ids(expect'[q] - 1)) <= Len(Ids(nextId[p] - 1))
            /\ \A k \in 1..Len(Ids(expect'[q] - 1)) :
                 Ids(expect'[q] - 1)[k] = Ids(nextId[p] - 1)[k]
        BY <4>1, IdsBegin
      <4> QED
        BY <4>2, <4>3, <1>2
    <3>2. n \in (Len(HandedUp(q)) + 1)..Len(Queued(p))
      BY <2>5, <3>1
    <3>3. HandedUp(q)' = SubSeq(Queued(p), 1, n)
      <4>1. /\ SubSeq(Queued(p), 1, n) \in Seq(Nat) /\ Len(SubSeq(Queued(p), 1, n)) = n
            /\ \A k \in 1..n : SubSeq(Queued(p), 1, n)[k] = Queued(p)[k]
        BY <3>1, <3>2
      <4> QED
        BY <3>1, <4>1
    <3> QED
      BY <3>2, <3>3, <1>2, <2>1 DEF Reads
  <2> QED
    BY <2>4, <2>5
<1>7. CASE UNCHANGED vars
  BY <1>7, <1>3 DEF vars, sendVars, recvVars
<1> QED
  BY <1>3, <1>4, <1>5, <1>6, <1>7 DEF Next

\* The two Connection objects and the network between them implement the FIFO channel in
\* each direction: Enqueue writes to it, and what Receive hands up reads from it.
THEOREM ChannelIsFifo == Spec => ImplementsFifo
<1>1. Init => ToServer!Init /\ ToClient!Init
  <2> SUFFICES ASSUME Init PROVE ToServer!Init /\ ToClient!Init
    OBVIOUS
  <2>1. Ids(0) = <<>>
    BY FS_EmptySet DEF Ids, Numbered
  <2>2. Queued(Client) = <<>> /\ Queued(Server) = <<>>
    BY <2>1 DEF Init, Queued, Peer
  <2>3. HandedUp(Client) = <<>> /\ HandedUp(Server) = <<>>
    BY <2>1, InitIInv, HandedUpIds DEF Init, Peer
  <2> QED
    BY <2>2, <2>3 DEF ToServer!Init, ToClient!Init
<1>2. IInv /\ IInv' /\ [Next]_vars => [ToServer!Next]_<<Queued(Client), HandedUp(Server)>>
  <2>1. Client \in Peer /\ Other(Client) = Server
    BY DEF Peer, Other
  <2> QED
    BY <2>1, ChannelStep DEF Writes, Reads, ToServer!Next, ToServer!Write, ToServer!Read
<1>3. IInv /\ IInv' /\ [Next]_vars => [ToClient!Next]_<<Queued(Server), HandedUp(Client)>>
  <2>1. Server \in Peer /\ Other(Server) = Client
    BY PeerAssumption DEF Peer, Other
  <2> QED
    BY <2>1, ChannelStep DEF Writes, Reads, ToClient!Next, ToClient!Write, ToClient!Read
<1> QED
  BY <1>1, <1>2, <1>3, Inductive, PTL DEF Spec, ImplementsFifo, ToServer!Spec, ToClient!Spec
=============================================================================
