--------------------------- MODULE SessionProofs ---------------------------
(***************************************************************************)
(* Proofs about Session: type correctness, one session per account at its  *)
(* last address, and sessions that keep their account.                     *)
(***************************************************************************)
EXTENDS Session, TLAPS

\* An account is admitted from an address of its own.
AdmittedOwn == \A a \in Account : admitted[a] # Nobody => owner[admitted[a]] = a

\* What the server sends in a session goes to processes of its account.
SentToOwner ==
  \A d \in net, p \in peers : d.kind \in {"accept", "down"} /\ d.session = p.session => owner[d.proc] = p.account

LiveOwns ==
  \A c \in Proc, p \in peers :
    client[c].phase = "live" /\ client[c].session = p.session => owner[c] = p.account

OneAccount == \A p, q \in peers : p.account = q.account \/ p.session = q.session => p = q

AtLastAddress == \A p \in peers : p.remote = admitted[p.account]

IInv == TypeOK /\ AdmittedOwn /\ OneAccount /\ AtLastAddress /\ SentToOwner /\ LiveOwns

LEMMA InitTyped == Init => TypeOK
  BY NameAssumption, TimeAssumption DEF Init, TypeOK, Phase

\* The network only ever gains the packets sent.
LEMMA WithIn ==
  ASSUME NEW flying, NEW D, NEW d \in With(flying, D)
  PROVE  d \in flying \/ d \in D
  BY DEF With

LEMMA PacketTyped ==
  ASSUME NEW kind \in Kind, NEW c \in Proc, NEW s \in SessionId \cup {NoSession}
  PROVE  Packet(kind, c, s) \in [kind : Kind, proc : Proc, session : SessionId \cup {NoSession}, age : 0..Lifetime]
  BY TimeAssumption DEF Packet

LEMMA BecomeTyped ==
  ASSUME TypeOK, NEW c \in Proc, NEW phase \in Phase, NEW s \in SessionId \cup {NoSession},
         NEW n \in 0..MaxAttempts, Become(c, phase, s, n)
  PROVE  client' \in [Proc -> [phase : Phase, session : SessionId \cup {NoSession},
                               silence : 0..Timeout, attempts : 0..MaxAttempts]]
  BY TimeAssumption DEF TypeOK, Become

-----------------------------------------------------------------------------
(* The actions of a client *)

Datagram == [kind : Kind, proc : Proc, session : SessionId \cup {NoSession}, age : 0..Lifetime]

PeerRecord == [account : Account, session : SessionId, remote : Proc, silence : 0..Timeout]

\* A client's packet names no session, or the client's own.
LEMMA ClientSends ==
  ASSUME IInv, NEW c \in Proc, NEW kind \in {"hello", "token", "request", "up"},
         NEW s \in SessionId \cup {NoSession},
         net' = With(net, {Packet(kind, c, s)}), UNCHANGED <<owner, peers>>
  PROVE  net' \subseteq Datagram /\ SentToOwner'
<1>1. Packet(kind, c, s) \in Datagram
  BY PacketTyped DEF Datagram, Kind
<1>2. \A d \in net' : d \in net \/ d = Packet(kind, c, s)
  BY WithIn
<1>3. Packet(kind, c, s).kind \notin {"accept", "down"}
  BY DEF Packet
<1>4. net \subseteq Datagram
  BY DEF IInv, TypeOK, Datagram
<1>5. net' \subseteq Datagram
  BY <1>1, <1>2, <1>4
<1>6. \A d \in net' : d.kind \in {"accept", "down"} => d \in net
  BY <1>2, <1>3
<1>7. SentToOwner'
  BY <1>6 DEF IInv, SentToOwner
<1> QED
  BY <1>5, <1>7

\* A client that is not live owns what it did before.
LEMMA BecomeOwns ==
  ASSUME IInv, NEW c \in Proc, NEW phase \in Phase \ {"live"}, NEW s, NEW n,
         Become(c, phase, s, n), UNCHANGED <<owner, peers>>
  PROVE  LiveOwns'
<1>1. client' = [client EXCEPT ![c] = [phase |-> phase, session |-> s, silence |-> 0, attempts |-> n]]
  BY DEF Become
<1>2. ASSUME NEW e \in Proc, NEW p \in peers', client'[e].phase = "live", client'[e].session = p.session
      PROVE  owner'[e] = p.account
  <2>1. e # c
    BY <1>1, <1>2 DEF IInv, TypeOK
  <2>2. client'[e] = client[e]
    BY <1>1, <2>1 DEF IInv, TypeOK
  <2> QED
    BY <1>2, <2>2 DEF IInv, LiveOwns
<1> QED
  BY <1>2 DEF LiveOwns

LEMMA ClientStep ==
  ASSUME IInv, NEW c \in Proc, Client(c)
  PROVE  IInv'
<1>0. UNCHANGED <<owner, serving, admitted, peers>>
  BY DEF Client, ConnectDev, Exchange, BeginClient, PumpClientHello, ReceiveAccept, ReceiveLive,
         PumpClient, ShutdownClient, Rest
<1>1. AdmittedOwn' /\ OneAccount' /\ AtLastAddress'
  BY <1>0 DEF IInv, AdmittedOwn, OneAccount, AtLastAddress
<1>2. NoSession \in SessionId \cup {NoSession} /\ 0 \in 0..MaxAttempts /\ 1 \in 0..MaxAttempts
  BY TimeAssumption
<1>3. ASSUME FailClient(c) PROVE IInv'
  <2>1. Become(c, "dead", NoSession, 0) /\ net' = net
    BY <1>3 DEF FailClient
  <2>2. LiveOwns'
    BY <2>1, <1>0, BecomeOwns DEF Phase
  <2>3. TypeOK'
    BY <2>1, <1>0, <1>2, BecomeTyped DEF IInv, TypeOK, Phase
  <2> QED
    BY <2>1, <2>2, <2>3, <1>0, <1>1 DEF IInv, SentToOwner
<1>4. ASSUME NEW kind \in {"hello", "token", "request", "up"}, NEW phase \in Phase \ {"live"}, NEW n \in 0..MaxAttempts,
             Become(c, phase, NoSession, n), net' = With(net, {Packet(kind, c, NoSession)})
      PROVE  IInv'
  <2>1. net' \subseteq Datagram /\ SentToOwner'
    BY <1>4, <1>2, <1>0, ClientSends
  <2>2. LiveOwns'
    BY <1>4, <1>0, BecomeOwns
  <2>3. TypeOK'
    BY <1>4, <2>1, <1>0, <1>2, BecomeTyped DEF IInv, TypeOK, Datagram
  <2> QED
    BY <2>1, <2>2, <2>3, <1>1 DEF IInv
<1>5. ASSUME NEW kind \in {"hello", "token", "request", "up"}, NEW s \in SessionId \cup {NoSession},
             UNCHANGED client, net' = With(net, {Packet(kind, c, s)})
      PROVE  IInv'
  <2>1. net' \subseteq Datagram /\ SentToOwner'
    BY <1>5, <1>0, ClientSends
  <2>2. LiveOwns' /\ TypeOK'
    BY <1>5, <2>1, <1>0 DEF IInv, LiveOwns, TypeOK, Datagram
  <2> QED
    BY <2>1, <2>2, <1>1 DEF IInv
<1>6. CASE ConnectDev(c)
  BY <1>6, <1>4, <1>2 DEF ConnectDev, Phase
<1>7. CASE Exchange(c)
  BY <1>7, <1>5, <1>2 DEF Exchange
<1>8. ASSUME StartSession(c) PROVE IInv'
  BY <1>8, <1>4, <1>2 DEF StartSession, Phase
<1>9. CASE BeginClient(c)
  BY <1>9, <1>8 DEF BeginClient
<1>10. CASE PumpClientHello(c)
  <2>1. CASE client[c].silence >= 1 /\ client[c].attempts < MaxAttempts
             /\ Become(c, "hello", NoSession, client[c].attempts + 1)
             /\ net' = With(net, {Packet("hello", c, NoSession)})
    <3>1. client[c].attempts + 1 \in 0..MaxAttempts
      BY <2>1, TimeAssumption DEF IInv, TypeOK
    <3> QED
      BY <2>1, <3>1, <1>4 DEF Phase
  <2> QED
    BY <2>1, <1>10, <1>8, <1>3 DEF PumpClientHello
<1>11. CASE ReceiveAccept(c)
  <2>1. PICK d \in net : d.kind = "accept" /\ d.proc = c /\ Become(c, "live", d.session, 0)
    BY <1>11 DEF ReceiveAccept
  <2>2. net' = net
    BY <1>11 DEF ReceiveAccept
  <2>3. client' = [client EXCEPT ![c] = [phase |-> "live", session |-> d.session, silence |-> 0, attempts |-> 0]]
    BY <2>1 DEF Become
  <2>4. LiveOwns'
    <3>1. ASSUME NEW e \in Proc, NEW p \in peers', client'[e].phase = "live", client'[e].session = p.session
          PROVE  owner'[e] = p.account
      <4>1. CASE e = c
        <5>1. client'[e].session = d.session
          BY <2>3, <4>1 DEF IInv, TypeOK
        <5> QED
          BY <3>1, <5>1, <4>1, <2>1, <1>0 DEF IInv, SentToOwner
      <4>2. CASE e # c
        <5>1. client'[e] = client[e]
          BY <2>3, <4>2 DEF IInv, TypeOK
        <5> QED
          BY <3>1, <5>1, <1>0 DEF IInv, LiveOwns
      <4> QED
        BY <4>1, <4>2
    <3> QED
      BY <3>1 DEF LiveOwns
  <2>5. d.session \in SessionId \cup {NoSession}
    BY DEF IInv, TypeOK
  <2>6. TypeOK'
    BY <2>1, <2>2, <2>5, <1>0, <1>2, BecomeTyped DEF IInv, TypeOK, Phase
  <2> QED
    BY <2>2, <2>4, <2>6, <1>0, <1>1 DEF IInv, SentToOwner
<1>12. CASE ReceiveLive(c)
  <2>1. client' = [client EXCEPT ![c].silence = 0] /\ net' = net
    BY <1>12 DEF ReceiveLive
  <2>2. \A e \in Proc : client'[e].phase = client[e].phase /\ client'[e].session = client[e].session
    BY <2>1 DEF IInv, TypeOK
  <2>3. TypeOK'
    BY <2>1, <1>0, TimeAssumption DEF IInv, TypeOK
  <2>4. LiveOwns'
    BY <2>2, <1>0 DEF IInv, LiveOwns
  <2> QED
    BY <2>1, <2>3, <2>4, <1>0, <1>1 DEF IInv, SentToOwner
<1>13. CASE PumpClient(c)
  <2>1. CASE Silent(client[c])
    BY <2>1, <1>13, <1>3 DEF PumpClient
  <2>2. CASE ~Silent(client[c])
    <3>1. client[c].session \in SessionId \cup {NoSession}
      BY DEF IInv, TypeOK
    <3> QED
      BY <2>2, <3>1, <1>13, <1>5 DEF PumpClient
  <2> QED
    BY <2>1, <2>2
<1>14. CASE ShutdownClient(c)
  BY <1>14, <1>3 DEF ShutdownClient
<1> QED
  BY <1>6, <1>7, <1>9, <1>10, <1>11, <1>12, <1>13, <1>14 DEF Client

-----------------------------------------------------------------------------
(* The actions of the server, and time *)

LEMMA TickStep ==
  ASSUME IInv, Tick
  PROVE  IInv'
<1>0. UNCHANGED <<owner, serving, admitted>>
  BY DEF Tick
<1>1. /\ peers' = {[p EXCEPT !.silence = @ + 1] : p \in peers}
      /\ net' = {[d EXCEPT !.age = @ + 1] : d \in {e \in net : e.age < Lifetime}}
      /\ client' = [c \in Proc |->
           IF client[c].phase \in {"off", "join", "dead"} THEN client[c] ELSE [client[c] EXCEPT !.silence = @ + 1]]
  BY DEF Tick
<1>2. \A p \in peers' : \E q \in peers : p = [q EXCEPT !.silence = @ + 1]
  BY <1>1
<1>3. peers \subseteq PeerRecord /\ net \subseteq Datagram
  BY DEF IInv, TypeOK, PeerRecord, Datagram
<1>4. peers' \subseteq PeerRecord
  <2>1. \A p \in peers : p.silence < Timeout
    BY <1>3, TimeAssumption DEF Tick, Silent, PeerRecord
  <2> QED
    BY <1>2, <1>3, <2>1, TimeAssumption DEF PeerRecord
<1>5. net' \subseteq Datagram
  BY <1>1, <1>3, TimeAssumption DEF Datagram
<1>6. ASSUME NEW c \in Proc
      PROVE  /\ client'[c].phase = client[c].phase /\ client'[c].session = client[c].session
             /\ client'[c] \in [phase : Phase, session : SessionId \cup {NoSession},
                                silence : 0..Timeout, attempts : 0..MaxAttempts]
  <2>1. client[c] \in [phase : Phase, session : SessionId \cup {NoSession},
                      silence : 0..Timeout, attempts : 0..MaxAttempts]
    BY DEF IInv, TypeOK
  <2>2. CASE client[c].phase \in {"off", "join", "dead"}
    BY <2>1, <2>2, <1>1
  <2>3. CASE client[c].phase \notin {"off", "join", "dead"}
    <3>1. client'[c] = [client[c] EXCEPT !.silence = @ + 1]
      BY <2>3, <1>1
    <3>2. client[c].silence < Timeout
      <4>1. ~Overdue(c)
        BY DEF Tick
      <4> QED
        BY <4>1, <2>1, <2>3, TimeAssumption DEF Overdue, Silent, Phase
    <3> QED
      BY <2>1, <3>1, <3>2, TimeAssumption
  <2> QED
    BY <2>2, <2>3
<1>7. TypeOK'
  <2>1. client' \in [Proc -> [phase : Phase, session : SessionId \cup {NoSession},
                             silence : 0..Timeout, attempts : 0..MaxAttempts]]
    BY <1>1, <1>6
  <2> QED
    BY <2>1, <1>4, <1>5, <1>0 DEF IInv, TypeOK, PeerRecord, Datagram
<1>8. \A p \in peers' : \E q \in peers :
        p.account = q.account /\ p.session = q.session /\ p.remote = q.remote
  BY <1>2, <1>3 DEF PeerRecord
<1>9. OneAccount'
  <2>1. ASSUME NEW p \in peers', NEW q \in peers', p.account = q.account \/ p.session = q.session
        PROVE  p = q
    <3>1. PICK p1 \in peers : p = [p1 EXCEPT !.silence = @ + 1]
      BY <1>2
    <3>2. PICK q1 \in peers : q = [q1 EXCEPT !.silence = @ + 1]
      BY <1>2
    <3>3. p1 = q1
      BY <2>1, <3>1, <3>2, <1>3 DEF IInv, OneAccount, PeerRecord
    <3> QED
      BY <3>1, <3>2, <3>3
  <2> QED
    BY <2>1 DEF OneAccount
<1>10. \A d \in net' : \E e \in net : d.kind = e.kind /\ d.proc = e.proc /\ d.session = e.session
  BY <1>1, <1>3 DEF Datagram
<1>11. AdmittedOwn' /\ AtLastAddress'
  BY <1>0, <1>8 DEF IInv, AdmittedOwn, AtLastAddress
<1>12. SentToOwner'
  BY <1>0, <1>8, <1>10 DEF IInv, SentToOwner
<1>13. LiveOwns'
  BY <1>0, <1>6, <1>8 DEF IInv, LiveOwns
<1> QED
  BY <1>7, <1>9, <1>11, <1>12, <1>13 DEF IInv

LEMMA HelloStep ==
  ASSUME IInv, NEW d \in net, HandleHello(d)
  PROVE  IInv'
<1>0. UNCHANGED <<owner, serving, client>>
  BY DEF HandleHello
<1>1. net \subseteq Datagram /\ peers \subseteq PeerRecord
  BY DEF IInv, TypeOK, Datagram, PeerRecord
<1>2. Spend(d) \subseteq Datagram /\ \A e \in Spend(d) : e.kind \in {"accept", "down"} => e \in net
  <2>1. CASE d.kind = "token"
    <3>1. [d EXCEPT !.kind = "used"] \in Datagram /\ [d EXCEPT !.kind = "used"].kind = "used"
      BY <1>1 DEF Datagram, Kind
    <3> QED
      BY <2>1, <3>1, <1>1 DEF Spend
  <2>2. CASE d.kind # "token"
    BY <2>2, <1>1 DEF Spend
  <2> QED
    BY <2>1, <2>2
<1>3. \A kind \in {"welcome", "denied"} :
        Packet(kind, d.proc, NoSession) \in Datagram /\ Packet(kind, d.proc, NoSession).kind = kind
  BY PacketTyped, <1>1 DEF Datagram, Kind, Packet
<1>4. ASSUME NEW e \in net'
      PROVE  e \in Datagram /\ (e.kind \in {"accept", "down"} => e \in net)
  <2>1. PICK kind \in {"welcome", "denied"} :
          \/ net' = With(Spend(d), {Packet(kind, d.proc, NoSession)})
          \/ net' = With(net, {Packet(kind, d.proc, NoSession)})
    BY DEF HandleHello
  <2>2. e \in Spend(d) \/ e \in net \/ e = Packet(kind, d.proc, NoSession)
    BY <2>1, WithIn
  <2> QED
    BY <2>2, <1>1, <1>2, <1>3
<1>5. CASE UNCHANGED <<admitted, peers>>
  BY <1>5, <1>0, <1>4 DEF IInv, TypeOK, Datagram, AdmittedOwn, OneAccount, AtLastAddress, SentToOwner, LiveOwns
<1>6. CASE NoteAdmitted(owner[d.proc], d.proc)
  <2> DEFINE a == owner[d.proc]
             Moved(p) == IF p.account = a THEN [p EXCEPT !.remote = d.proc] ELSE p
  <2>1. a \in Account /\ d.proc \in Proc
    BY <1>1 DEF IInv, TypeOK, Datagram
  <2>2. admitted' = [admitted EXCEPT ![a] = d.proc] /\ peers' = {Moved(p) : p \in peers}
    BY <1>6 DEF NoteAdmitted
  <2>3. ASSUME NEW p \in peers
        PROVE  /\ Moved(p) \in PeerRecord /\ Moved(p).account = p.account /\ Moved(p).session = p.session
               /\ Moved(p).remote = IF p.account = a THEN d.proc ELSE p.remote
    BY <1>1, <2>1 DEF PeerRecord
  <2>4. \A p \in peers' : \E q \in peers : p = Moved(q)
    BY <2>2
  <2> HIDE DEF Moved
  <2>5. TypeOK'
    <3>1. peers' \subseteq PeerRecord
      BY <2>3, <2>4
    <3>2. admitted' \in [Account -> Proc \cup {Nobody}]
      BY <2>1, <2>2 DEF IInv, TypeOK
    <3> QED
      BY <3>1, <3>2, <1>0, <1>4 DEF IInv, TypeOK, Datagram, PeerRecord
  <2>6. AdmittedOwn'
    BY <2>1, <2>2, <1>0 DEF IInv, AdmittedOwn, TypeOK
  <2>7. OneAccount'
    BY <2>3, <2>4 DEF IInv, OneAccount
  <2>8. AtLastAddress'
    <3>1. ASSUME NEW p \in peers' PROVE p.remote = admitted'[p.account]
      <4>1. PICK q \in peers : p = Moved(q)
        BY <2>4
      <4>2. p.account = q.account /\ p.remote = IF q.account = a THEN d.proc ELSE q.remote
        BY <4>1, <2>3
      <4>3. q.account \in Account /\ q.remote = admitted[q.account]
        BY <1>1 DEF IInv, AtLastAddress, PeerRecord
      <4> QED
        BY <4>2, <4>3, <2>1, <2>2 DEF IInv, TypeOK
    <3> QED
      BY <3>1 DEF AtLastAddress
  <2>9. \A p \in peers' : \E q \in peers : p.account = q.account /\ p.session = q.session
    BY <2>3, <2>4
  <2>10. SentToOwner'
    BY <2>9, <1>0, <1>4 DEF IInv, SentToOwner
  <2>11. LiveOwns'
    BY <2>9, <1>0 DEF IInv, LiveOwns
  <2> QED
    BY <2>5, <2>6, <2>7, <2>8, <2>10, <2>11 DEF IInv
<1> QED
  BY <1>5, <1>6 DEF HandleHello

LEMMA HeardTyped ==
  ASSUME NEW a \in Account, NEW s \in SessionId, NEW c \in Proc
  PROVE  Heard(a, s, c) \in PeerRecord
  BY TimeAssumption DEF Heard, PeerRecord

LEMMA RequestStep ==
  ASSUME IInv, NEW d \in net, HandleRequest(d)
  PROVE  IInv'
<1> DEFINE from == d.proc
           a == owner[from]
<1>0. UNCHANGED <<owner, serving, admitted, client>> /\ d.kind = "request" /\ admitted[a] = from
  BY DEF HandleRequest, IsAdmitted
<1>1. /\ net \subseteq Datagram /\ peers \subseteq PeerRecord
      /\ from \in Proc /\ a \in Account
  BY DEF IInv, TypeOK, Datagram, PeerRecord
<1>2. ASSUME NEW s \in SessionId, net' = With(net, {Packet("accept", from, s)})
      PROVE  /\ net' \subseteq Datagram
             /\ \A e \in net' : e \in net \/ (e.proc = from /\ e.session = s)
  <2>1. Packet("accept", from, s) \in Datagram
    BY <1>1, PacketTyped DEF Kind, Datagram
  <2>2. \A e \in net' : e \in net \/ e = Packet("accept", from, s)
    BY <1>2, WithIn
  <2>3. Packet("accept", from, s).proc = from /\ Packet("accept", from, s).session = s
    BY DEF Packet
  <2> QED
    BY <2>1, <2>2, <2>3, <1>1
<1>3. CASE PeersFor(a, from) = {}
  <2> DEFINE s == CHOOSE s \in SessionId : Unused(s)
             new == Heard(a, s, from)
  <2>1. s \in SessionId /\ Unused(s)
    BY <1>3 DEF HandleRequest
  <2>2. peers' = peers \cup {new} /\ net' = With(net, {Packet("accept", from, s)})
    BY <1>3 DEF HandleRequest
  <2> HIDE DEF s
  <2>3. new \in PeerRecord
    BY <1>1, <2>1, HeardTyped
  <2> USE DEF Heard
  <2>4. /\ \A p \in peers : p.session # s /\ p.account # a
        /\ \A c \in Proc : client[c].session # s
        /\ \A e \in net : e.session # s
    BY <2>1, <1>3 DEF Unused, PeersFor
  <2>5. /\ net' \subseteq Datagram
        /\ \A e \in net' : e \in net \/ (e.proc = from /\ e.session = s)
    BY <2>1, <2>2, <1>2
  <2>6. TypeOK'
    BY <2>2, <2>3, <2>5, <1>0, <1>1 DEF IInv, TypeOK, Datagram, PeerRecord
  <2>7. AdmittedOwn' /\ LiveOwns'
    BY <2>2, <2>4, <1>0 DEF IInv, AdmittedOwn, LiveOwns
  <2>8. OneAccount' /\ AtLastAddress'
    BY <2>2, <2>4, <1>0 DEF IInv, OneAccount, AtLastAddress
  <2>9. SentToOwner'
    <3>1. ASSUME NEW e \in net', NEW p \in peers', e.kind \in {"accept", "down"}, e.session = p.session
          PROVE  owner'[e.proc] = p.account
      <4>1. CASE p = new
        BY <3>1, <4>1, <2>4, <2>5, <1>0
      <4>2. CASE p \in peers
        BY <3>1, <4>2, <2>4, <2>5, <1>0 DEF IInv, SentToOwner
      <4> QED
        BY <4>1, <4>2, <2>2
    <3> QED
      BY <3>1 DEF SentToOwner
  <2> QED
    BY <2>6, <2>7, <2>8, <2>9 DEF IInv
<1>4. CASE PeersFor(a, from) # {}
  <2>1. PICK p \in PeersFor(a, from) :
          /\ peers' = (peers \ {p}) \cup {Heard(a, p.session, from)}
          /\ net' = With(net, {Packet("accept", from, p.session)})
    BY <1>4 DEF HandleRequest
  <2> DEFINE moved == Heard(a, p.session, from)
  <2>2. p \in peers /\ p \in PeerRecord /\ p.account = a
    BY <2>1, <1>1 DEF PeersFor
  <2>3. /\ moved \in PeerRecord
        /\ moved.account = p.account /\ moved.session = p.session /\ moved.remote = from
    BY <2>2, <1>1, HeardTyped DEF Heard, PeerRecord
  <2>4. peers' = (peers \ {p}) \cup {moved}
    BY <2>1
  <2> HIDE DEF moved
  <2>5. /\ net' \subseteq Datagram
        /\ \A e \in net' : e \in net \/ (e.proc = from /\ e.session = p.session)
    BY <2>1, <2>2, <1>2 DEF PeerRecord
  <2>6. p.remote = from
    BY <2>2, <1>0 DEF IInv, AtLastAddress
  <2>7. \A q \in peers' : \E r \in peers : q.account = r.account /\ q.session = r.session /\ q.remote = r.remote
    BY <2>2, <2>3, <2>4, <2>6
  <2>8. TypeOK'
    BY <2>3, <2>4, <2>5, <1>0, <1>1 DEF IInv, TypeOK, Datagram, PeerRecord
  <2>9. AdmittedOwn' /\ AtLastAddress' /\ LiveOwns'
    BY <2>7, <1>0 DEF IInv, AdmittedOwn, AtLastAddress, LiveOwns
  <2>10. OneAccount'
    BY <2>2, <2>3, <2>4 DEF IInv, OneAccount
  <2>11. SentToOwner'
    <3>1. ASSUME NEW e \in net', NEW q \in peers', e.kind \in {"accept", "down"}, e.session = q.session
          PROVE  owner'[e.proc] = q.account
      <4>1. PICK r \in peers : q.account = r.account /\ q.session = r.session
        BY <2>7
      <4>2. CASE e \in net
        BY <3>1, <4>1, <4>2, <1>0 DEF IInv, SentToOwner
      <4>3. CASE e.proc = from /\ e.session = p.session
        <5>1. r = p
          BY <3>1, <4>1, <4>3, <2>2 DEF IInv, OneAccount
        <5> QED
          BY <4>1, <4>3, <5>1, <2>2, <1>0
      <4> QED
        BY <4>2, <4>3, <2>5
    <3> QED
      BY <3>1 DEF SentToOwner
  <2> QED
    BY <2>8, <2>9, <2>10, <2>11 DEF IInv
<1> QED
  BY <1>3, <1>4

LEMMA PacketStep ==
  ASSUME IInv, NEW d \in net, HandlePacket(d)
  PROVE  IInv'
<1>0. UNCHANGED <<owner, serving, admitted, client, net>>
  BY DEF HandlePacket
<1>1. PICK p \in peers : peers' = (peers \ {p}) \cup {[p EXCEPT !.silence = 0]}
  BY DEF HandlePacket, Sender
<1> DEFINE heard == [p EXCEPT !.silence = 0]
<1>2. /\ heard \in PeerRecord
      /\ heard.account = p.account /\ heard.session = p.session /\ heard.remote = p.remote
  BY TimeAssumption DEF IInv, TypeOK, PeerRecord
<1>3. peers' = (peers \ {p}) \cup {heard}
  BY <1>1
<1> HIDE DEF heard
<1>4. \A q \in peers' : \E r \in peers : q.account = r.account /\ q.session = r.session /\ q.remote = r.remote
  BY <1>2, <1>3
<1>5. TypeOK'
  BY <1>0, <1>2, <1>3 DEF IInv, TypeOK, PeerRecord
<1>6. OneAccount'
  BY <1>2, <1>3 DEF IInv, OneAccount
<1>7. AdmittedOwn' /\ AtLastAddress' /\ SentToOwner' /\ LiveOwns'
  BY <1>0, <1>4 DEF IInv, AdmittedOwn, AtLastAddress, SentToOwner, LiveOwns
<1> QED
  BY <1>5, <1>6, <1>7 DEF IInv

LEMMA TickServerStep ==
  ASSUME IInv, TickServer
  PROVE  IInv'
<1>0. UNCHANGED <<owner, serving, admitted, client>> /\ peers' \subseteq peers
  BY DEF TickServer
<1>1. PICK due \in SUBSET peers : net' = With(net, {Packet("down", p.remote, p.session) : p \in due})
  BY DEF TickServer
<1>2. ASSUME NEW e \in net'
      PROVE  /\ e \in Datagram
             /\ e \in net \/ \E p \in peers : e.proc = p.remote /\ e.session = p.session
  <2>1. CASE e \in net
    BY <2>1 DEF IInv, TypeOK, Datagram
  <2>2. CASE e \in {Packet("down", p.remote, p.session) : p \in due}
    <3>1. PICK p \in peers : e = Packet("down", p.remote, p.session)
      BY <2>2
    <3>2. p.remote \in Proc /\ p.session \in SessionId
      BY DEF IInv, TypeOK
    <3>3. e \in Datagram
      BY <3>1, <3>2, PacketTyped DEF Kind, Datagram
    <3> QED
      BY <3>1, <3>3 DEF Packet
  <2> QED
    BY <2>1, <2>2, <1>1, WithIn
<1>3. TypeOK'
  BY <1>0, <1>2 DEF IInv, TypeOK, Datagram
<1>4. AdmittedOwn' /\ AtLastAddress' /\ OneAccount' /\ LiveOwns'
  BY <1>0 DEF IInv, AdmittedOwn, AtLastAddress, OneAccount, LiveOwns
<1>5. SentToOwner'
  <2>1. ASSUME NEW e \in net', NEW q \in peers', e.kind \in {"accept", "down"}, e.session = q.session
        PROVE  owner'[e.proc] = q.account
    <3>1. CASE e \in net
      BY <2>1, <3>1, <1>0 DEF IInv, SentToOwner
    <3>2. CASE \E p \in peers : e.proc = p.remote /\ e.session = p.session
      <4>1. PICK p \in peers : e.proc = p.remote /\ e.session = p.session
        BY <3>2
      <4>2. p = q
        BY <2>1, <4>1, <1>0 DEF IInv, OneAccount
      <4>3. q.account \in Account /\ q.remote \in Proc /\ q.remote = admitted[q.account]
        BY <1>0 DEF IInv, TypeOK, AtLastAddress
      <4> QED
        BY <4>1, <4>2, <4>3, <1>0, NameAssumption DEF IInv, AdmittedOwn
    <3> QED
      BY <3>1, <3>2, <1>2
  <2> QED
    BY <2>1 DEF SentToOwner
<1> QED
  BY <1>3, <1>4, <1>5 DEF IInv

-----------------------------------------------------------------------------
LEMMA InitInvariant == Init => IInv
<1> SUFFICES ASSUME Init PROVE IInv
  OBVIOUS
<1>1. peers = {} /\ net = {} /\ \A a \in Account : admitted[a] = Nobody
  BY DEF Init
<1> QED
  BY <1>1, InitTyped DEF IInv, AdmittedOwn, OneAccount, AtLastAddress, SentToOwner, LiveOwns

LEMMA NextInvariant ==
  ASSUME IInv, [Next]_vars
  PROVE  IInv'
<1>1. CASE CloseServer
  <2>1. /\ peers' = {} /\ admitted' = [a \in Account |-> Nobody] /\ serving' = FALSE
        /\ UNCHANGED <<owner, client, net>>
    BY <1>1 DEF CloseServer
  <2>2. AdmittedOwn' /\ OneAccount' /\ AtLastAddress' /\ SentToOwner' /\ LiveOwns'
    BY <2>1 DEF AdmittedOwn, OneAccount, AtLastAddress, SentToOwner, LiveOwns
  <2>3. TypeOK'
    BY <2>1 DEF IInv, TypeOK
  <2> QED
    BY <2>2, <2>3 DEF IInv
<1>2. CASE UNCHANGED vars
  BY <1>2 DEF vars, IInv, TypeOK, AdmittedOwn, OneAccount, AtLastAddress, SentToOwner, LiveOwns
<1>3. CASE \E d \in net : HandleHello(d) \/ HandleRequest(d) \/ HandlePacket(d)
  BY <1>3, HelloStep, RequestStep, PacketStep
<1>4. CASE \E c \in Proc : Client(c)
  BY <1>4, ClientStep
<1> QED
  BY <1>1, <1>2, <1>3, <1>4, TickStep, TickServerStep DEF Next, Server

THEOREM Invariant == Spec => []IInv
BY InitInvariant, NextInvariant, PTL DEF Spec

\* Every variable keeps its type.
THEOREM TypeCorrect == Spec => []TypeOK
<1>1. IInv => TypeOK
  BY DEF IInv
<1> QED
  BY <1>1, Invariant, PTL

\* An account has one connection, at the address it was admitted from last, and two
\* connections never share a session (HandleServerPacket, NoteAdmitted).
THEOREM OneSessionPerAccount == Spec => []OneSession
<1>1. IInv => OneSession
  BY DEF IInv, OneSession, OneAccount, AtLastAddress
<1> QED
  BY <1>1, Invariant, PTL

\* A live client's session, and a command the server takes, belong to the account of
\* the process, however requests, HELLOs and accepts were delayed or repeated.
THEOREM SessionsKeepAccounts == Spec => []SessionKeepsAccount
<1>1. IInv => SessionKeepsAccount
  <2> SUFFICES ASSUME IInv PROVE SessionKeepsAccount
    OBVIOUS
  <2>1. ASSUME NEW d \in net, NEW p \in Sender(d) PROVE owner[d.proc] = p.account
    <3>1. p \in peers /\ p.remote = d.proc
      BY DEF Sender
    <3>2. p.account \in Account /\ p.remote \in Proc /\ p.remote = admitted[p.account]
      BY <3>1 DEF IInv, TypeOK, AtLastAddress
    <3> QED
      BY <3>1, <3>2, NameAssumption DEF IInv, AdmittedOwn
  <2> QED
    BY <2>1 DEF IInv, LiveOwns, SessionKeepsAccount
<1> QED
  BY <1>1, Invariant, PTL
=============================================================================
