------------------------------ MODULE Session ------------------------------
(***************************************************************************)
(* The session host (Net/Host.cpp): how a client that says HELLO becomes a *)
(* session of the server, and how either end gives the other up.  The      *)
(* sockets, and what a datagram carries once a session stands, are         *)
(* Connection's and Replication's.                                         *)
(*                                                                         *)
(* A process is one client run with one socket, so it is its own address;  *)
(* several processes may belong to one account (a player who starts again, *)
(* or twice).  A datagram may be lost, repeated or overtaken as long as it *)
(* lives.  Datagrams with the same content are one: only the youngest is   *)
(* kept, for whatever the older could do it can do too.  Time is counted   *)
(* in ticks of the HELLO's second: a silence is how long ago something was *)
(* last heard, and every pump runs between two ticks.                      *)
(***************************************************************************)
EXTENDS Naturals, FiniteSets

CONSTANTS
  Proc,          \* client processes
  Account,       \* accounts
  SessionId,     \* session ids: random numbers, never 0
  Nobody,        \* no process
  NoSession,     \* session 0
  Timeout,       \* kTimeoutMs: 5 seconds
  MaxAttempts,   \* HELLOs of a dev join: 3
  Lifetime,      \* bound: ticks a datagram may be under way
  MaxInFlight    \* bound: datagrams under way at once; more are lost

ASSUME NameAssumption == Nobody \notin Proc /\ NoSession \notin SessionId
ASSUME TimeAssumption ==
  /\ Timeout \in Nat \ {0} /\ MaxAttempts \in Nat \ {0}
  /\ Lifetime \in Nat /\ MaxInFlight \in Nat

VARIABLES
  owner,      \* the account of each process: its --name, or who signed in
  serving,    \* Serving
  admitted,   \* Admitted: the address of an account
  peers,      \* Peers: account, session, address and silence of each connection
  client,     \* ClientPhase, session, silence and HelloAttempts of each process
  net         \* datagrams under way

vars == <<owner, serving, admitted, peers, client, net>>

\* A server is a --dev server, whose players join by name, or a fleet server, whose
\* players come through the online session with a token.
Init ==
  /\ owner \in [Proc -> Account]
  /\ serving = TRUE
  /\ admitted = [a \in Account |-> Nobody]
  /\ peers = {}
  /\ \E start \in {"off", "join"} :
       client = [c \in Proc |-> [phase |-> start, session |-> NoSession, silence |-> 0, attempts |-> 0]]
  /\ net = {}

\* A packet of a process, to or from the server.
Packet(kind, c, session) == [kind |-> kind, proc |-> c, session |-> session, age |-> 0]

Same(d, e) == d.kind = e.kind /\ d.proc = e.proc /\ d.session = e.session

\* The network `flying` with the packets of D sent, or lost when it is full.
With(flying, D) ==
  LET more == {e \in flying : \A d \in D : ~Same(d, e)} \cup D
  IN  IF Cardinality(more) <= MaxInFlight THEN more ELSE flying

\* A session id nobody has, as a random 64-bit number is.
Unused(s) ==
  /\ \A p \in peers : p.session # s
  /\ \A c \in Proc : client[c].session # s
  /\ \A d \in net : d.session # s

-----------------------------------------------------------------------------
(* The server *)

\* The account's connection, if it has one, follows it to the new address.
NoteAdmitted(account, from) ==
  /\ admitted' = [admitted EXCEPT ![account] = from]
  /\ peers' = {IF p.account = account THEN [p EXCEPT !.remote = from] ELSE p : p \in peers}

\* A token admits once; a name does whenever it comes.
Spend(d) == IF d.kind = "token" THEN (net \ {d}) \cup {[d EXCEPT !.kind = "used"]} ELSE net

\* PumpServer on a text: what Answer says is sent back.  Whether it admits is
\* ServerLifecycle's matter.
HandleHello(d) ==
  /\ serving
  /\ \/ /\ d.kind \in {"hello", "token"}
        /\ NoteAdmitted(owner[d.proc], d.proc)
        /\ net' = With(Spend(d), {Packet("welcome", d.proc, NoSession)})
     \/ /\ d.kind \in {"hello", "token", "used"}
        /\ net' = With(net, {Packet("denied", d.proc, NoSession)})
        /\ UNCHANGED <<admitted, peers>>
  /\ UNCHANGED <<owner, serving, client>>

\* Mutant of IsAdmitted: any address may open or take over a session.
IsAdmitted_Account(account, from) == admitted[account] # Nobody

\* A request counts only from the address that was admitted last.
IsAdmitted(account, from) == admitted[account] = from

\* Mutant of PeersFor: the last connection of the list, whoever's it is.
PeersFor_Any(account, from) == peers

PeersFor(account, from) == {p \in peers : p.account = account}

\* A connection that was just heard.
Heard(account, s, from) == [account |-> account, session |-> s, remote |-> from, silence |-> 0]

\* HandleServerPacket, a session request: the account's connection, new if it has
\* none, hears it and answers with its session.
HandleRequest(d) ==
  LET from    == d.proc
      account == owner[from]
  IN
  /\ serving /\ d.kind = "request" /\ IsAdmitted(account, from)
  /\ IF PeersFor(account, from) = {}
     THEN /\ \E s \in SessionId : Unused(s)
          /\ LET s == CHOOSE s \in SessionId : Unused(s) IN
             /\ peers' = peers \cup {Heard(account, s, from)}
             /\ net' = With(net, {Packet("accept", from, s)})
     ELSE \E p \in PeersFor(account, from) :
            /\ peers' = (peers \ {p}) \cup {Heard(account, p.session, from)}
            /\ net' = With(net, {Packet("accept", from, p.session)})
  /\ UNCHANGED <<owner, serving, admitted, client>>

\* The connection a packet belongs to, by its address; another session is dropped.
Sender(d) == {p \in peers : p.remote = d.proc /\ p.session = d.session}

\* HandleServerPacket, any other packet.  A command is queued for the account of
\* the connection.
HandlePacket(d) ==
  /\ serving /\ d.kind = "up"
  /\ \E p \in Sender(d) : peers' = (peers \ {p}) \cup {[p EXCEPT !.silence = 0]}
  /\ UNCHANGED <<owner, serving, admitted, client, net>>

\* TimedOut
Silent(end) == end.silence >= Timeout

\* Mutant of TickServer: what is sent counts as heard.
TickServer_Echo ==
  /\ serving
  /\ \E due \in SUBSET peers :
       /\ net' = With(net, {Packet("down", p.remote, p.session) : p \in due})
       /\ peers' = {IF p \in due THEN [p EXCEPT !.silence = 0] ELSE p :
                     p \in {q \in peers : q \in due \/ ~Silent(q)}}
  /\ UNCHANGED <<owner, serving, admitted, client>>

\* TickServer: each connection that has something to say, or whose keepalive is
\* due, says it; the silent ones are erased, by account.  The account stays admitted.
TickServer ==
  /\ serving
  /\ \E due \in SUBSET peers : net' = With(net, {Packet("down", p.remote, p.session) : p \in due})
  /\ peers' = {p \in peers : \A q \in peers : q.account = p.account => ~Silent(q)}
  /\ UNCHANGED <<owner, serving, admitted, client>>

CloseServer ==
  /\ serving
  /\ serving' = FALSE
  /\ peers' = {} /\ admitted' = [a \in Account |-> Nobody]
  /\ UNCHANGED <<owner, client, net>>

-----------------------------------------------------------------------------
(* A client *)

Become(c, phase, session, attempts) ==
  client' = [client EXCEPT ![c] =
    [phase |-> phase, session |-> session, silence |-> 0, attempts |-> attempts]]

\* FailClient: everything is reset and nobody is told.
FailClient(c) == Become(c, "dead", NoSession, 0) /\ UNCHANGED net

Rest == UNCHANGED <<owner, serving, admitted, peers>>

ConnectDev(c) ==
  /\ client[c].phase = "off"
  /\ Become(c, "hello", NoSession, 1)
  /\ net' = With(net, {Packet("hello", c, NoSession)})
  /\ Rest

\* The join's HELLO, sent for the online session with a token of its own.
Exchange(c) ==
  /\ client[c].phase = "join"
  /\ net' = With(net, {Packet("token", c, NoSession)})
  /\ UNCHANGED client /\ Rest

\* MarkAlive, and the first request goes out.
StartSession(c) ==
  /\ Become(c, "session", NoSession, 0)
  /\ net' = With(net, {Packet("request", c, NoSession)})

\* The online session hands over the socket its HELLO was welcomed on.
BeginClient(c) ==
  /\ client[c].phase = "join"
  /\ \E d \in net : d.kind = "welcome" /\ d.proc = c
  /\ StartSession(c)
  /\ Rest

\* A welcome starts the session; a denial, a refused port or no answer to the last
\* attempt ends the join; a second without an answer sends the next HELLO.
PumpClientHello(c) ==
  /\ client[c].phase = "hello"
  /\ \/ /\ \E d \in net : d.kind = "welcome" /\ d.proc = c
        /\ StartSession(c)
     \/ (\E d \in net : d.kind = "denied" /\ d.proc = c) /\ FailClient(c)
     \/ ~serving /\ FailClient(c)
     \/ client[c].silence >= 1 /\ client[c].attempts >= MaxAttempts /\ FailClient(c)
     \/ /\ client[c].silence >= 1 /\ client[c].attempts < MaxAttempts
        /\ Become(c, "hello", NoSession, client[c].attempts + 1)
        /\ net' = With(net, {Packet("hello", c, NoSession)})
  /\ Rest

\* PumpClientSession, an accept.
ReceiveAccept(c) ==
  /\ client[c].phase = "session"
  /\ \E d \in net :
       /\ d.kind = "accept" /\ d.proc = c
       /\ Become(c, "live", d.session, 0)
  /\ UNCHANGED net /\ Rest

\* What a live client listens to.
Hears(c, d) == d.proc = c /\ d.kind \in {"accept", "down"} /\ d.session = client[c].session

\* PumpClientLive, a packet.
ReceiveLive(c) ==
  /\ client[c].phase = "live"
  /\ \E d \in net : Hears(c, d)
  /\ client' = [client EXCEPT ![c].silence = 0]
  /\ UNCHANGED net /\ Rest

\* Mutant of PumpClient: what is sent counts as heard.
PumpClient_Echo(c) ==
  /\ client[c].phase \in {"session", "live"}
  /\ client' = [client EXCEPT ![c].silence = 0]
  /\ net' = With(net, {Packet(IF client[c].phase = "live" THEN "up" ELSE "request",
                             c, client[c].session)})
  /\ Rest

\* The end of PumpClientSession or PumpClientLive: give up, or send when it is time to.
PumpClient(c) ==
  /\ client[c].phase \in {"session", "live"}
  /\ IF Silent(client[c])
     THEN FailClient(c)
     ELSE /\ net' = With(net, {Packet(IF client[c].phase = "live" THEN "up" ELSE "request",
                                 c, client[c].session)})
          /\ UNCHANGED client
  /\ Rest

\* The player leaves, or the process dies.
ShutdownClient(c) ==
  /\ client[c].phase \in {"hello", "session", "live"}
  /\ FailClient(c)
  /\ Rest

-----------------------------------------------------------------------------
\* Who has to be pumped before time goes on.
Overdue(c) ==
  \/ client[c].phase = "hello" /\ client[c].silence >= 1
  \/ client[c].phase \in {"session", "live"} /\ Silent(client[c])

Tick ==
  /\ \A c \in Proc : ~Overdue(c)
  /\ \A p \in peers : ~Silent(p)
  /\ peers' = {[p EXCEPT !.silence = @ + 1] : p \in peers}
  /\ client' = [c \in Proc |->
       IF client[c].phase \in {"off", "join", "dead"} THEN client[c] ELSE [client[c] EXCEPT !.silence = @ + 1]]
  /\ net' = {[d EXCEPT !.age = @ + 1] : d \in {e \in net : e.age < Lifetime}}
  /\ UNCHANGED <<owner, serving, admitted>>

Server == TickServer \/ CloseServer \/ \E d \in net : HandleHello(d) \/ HandleRequest(d) \/ HandlePacket(d)

Client(c) ==
  \/ ConnectDev(c) \/ Exchange(c) \/ BeginClient(c)
  \/ PumpClientHello(c) \/ ReceiveAccept(c) \/ ReceiveLive(c) \/ PumpClient(c) \/ ShutdownClient(c)

Next == Server \/ Tick \/ \E c \in Proc : Client(c)

\* Both ends are pumped and the clock goes on.  Nothing makes a datagram arrive.
Fairness ==
  /\ WF_vars(Tick) /\ WF_vars(TickServer)
  /\ \A c \in Proc : WF_vars(PumpClientHello(c)) /\ WF_vars(PumpClient(c))

Spec == Init /\ [][Next]_vars /\ Fairness

-----------------------------------------------------------------------------
Kind == {"hello", "token", "used", "welcome", "denied", "request", "accept", "up", "down"}
Phase == {"off", "join", "hello", "session", "live", "dead"}

TypeOK ==
  /\ owner \in [Proc -> Account]
  /\ serving \in BOOLEAN
  /\ admitted \in [Account -> Proc \cup {Nobody}]
  /\ peers \subseteq [account : Account, session : SessionId, remote : Proc, silence : 0..Timeout]
  /\ client \in [Proc -> [phase : Phase, session : SessionId \cup {NoSession},
                          silence : 0..Timeout, attempts : 0..MaxAttempts]]
  /\ net \subseteq [kind : Kind, proc : Proc, session : SessionId \cup {NoSession}, age : 0..Lifetime]

\* "A player admitted twice keeps one session": an account has one connection, at
\* the address it was admitted from last, whatever old requests and HELLOs arrive.
OneSession ==
  /\ \A p, q \in peers : p.account = q.account \/ p.session = q.session => p = q
  /\ \A p \in peers : p.remote = admitted[p.account]

\* A session stays with its account on both ends, also when it outlives its
\* connection or moves to another process; so a
\* command is queued for the player who sent it.
SessionKeepsAccount ==
  /\ \A c \in Proc, p \in peers :
       client[c].phase = "live" /\ client[c].session = p.session => owner[c] = p.account
  /\ \A d \in net : d.kind = "up" => \A p \in Sender(d) : owner[d.proc] = p.account

\* Out of the game, or in a session the server has for it.
Settled(c) ==
  \/ client[c].phase \in {"off", "join", "dead"}
  \/ client[c].phase = "live" /\ \E p \in peers : p.session = client[c].session /\ p.remote = c

\* A join ends in a session or an error whatever the network does, and "silence of
\* 5 s ends the connection" for a client whose session the server gave up, closed
\* or moved to another process: no client stays half open for ever.
ClientSettles == \A c \in Proc : ~Settled(c) ~> Settled(c)

\* A connection whose process neither lives in its session nor asks for one.
Ghost(s) ==
  \E p \in peers : /\ p.session = s
                   /\ ~(client[p.remote].phase = "live" /\ client[p.remote].session = s)
                   /\ client[p.remote].phase # "session"

\* "Player left (timeout)", on the server: a connection of a process that is gone, or
\* that an old request opened, does not stay for ever.
GhostEnds == \A s \in SessionId : Ghost(s) ~> ~Ghost(s)
=============================================================================
