---------------------------- MODULE OnlineProofs ----------------------------
(***************************************************************************)
(* The safety of Online, for any scripts, any numbers of attempts and any  *)
(* failures.                                                               *)
(*                                                                         *)
(* Almost every action ends in Send, in FailWaiting or in Settle, which    *)
(* work on a context: the match and the join as their caller leaves them.  *)
(* So the invariant has parts for the session (SessionOK, RequestsOK), for *)
(* a match, a join and the requests they have under way (Named), and for   *)
(* the push socket (PushReturns); a lemma says what each of the three does *)
(* to the parts, and an action's proof says which context it hands over.   *)
(***************************************************************************)
EXTENDS Online, TLAPS

Request   == [kind : Kind, attempts : 0..2, stale : BOOLEAN, waiting : BOOLEAN]
MatchKind == {"queue", "ticket", "join"}
Join      == [attempt : 0..JoinAttempts, at : {"none", "read", "hello"}]

RequestsOK(R) ==
  /\ R \subseteq Request
  /\ \A r \in R : (r.waiting => r.attempts <= 1) /\ (r.attempts = 2 => r.stale)

Waits(R) == (\E r \in R : r.waiting) => recovering

SessionOK ==
  /\ status \in {"Offline", "SigningIn", "SignedIn"} /\ refresh \in {"none", "fresh"}
  /\ recovering \in BOOLEAN /\ backoff \in BOOLEAN /\ reused = FALSE
  /\ calls \in [signin : Nat, refresh : Nat]
  /\ calls.signin + calls.refresh = IF recovering THEN 1 ELSE 0
  /\ refresh # "none" /\ ~recovering => status = "SignedIn"
  /\ calls.refresh = 1 => status = "SignedIn"

SocketOK ==
  /\ push \in {"Disconnected", "Connecting", "Connected", "Replaced"}
  /\ timer \in BOOLEAN /\ refused \in BOOLEAN /\ replaced \in BOOLEAN
  /\ drops \in 0..MaxDrops

\* What a match, a join and the requests R have to do with each other.
Named(m, j, R) ==
  /\ m \in Match /\ j \in Join
  /\ \A r, s \in R : r.kind \in MatchKind /\ s.kind \in MatchKind => r = s
  /\ j.at = "none" => j.attempt = 0
  /\ j.at = "read" => j.attempt < JoinAttempts
  /\ j.at = "read" <=> \E r \in R : r.kind = "join"
  /\ m.state = "Join" <=> j.at # "none"
  /\ j.at # "none" => m.request
  /\ \A r \in R : r.kind \in {"queue", "ticket"} =>
       m.request /\ j.at = "none" /\ m.fails < JoinFailures
  /\ m.state = "Gone" => ~m.request
  /\ m.fails = JoinFailures => m.state \in {"Done", "Gone"}

IInv ==
  /\ SessionOK /\ RequestsOK(requests) /\ Waits(requests)
  /\ SocketOK /\ PushReturns
  /\ Named(match, join, requests)
-----------------------------------------------------------------------------
(* Contexts *)

Context == [match : Match, join : Join, timer : BOOLEAN, assigned : BOOLEAN]

\* The match as it will be once its caller has assigned m_Request.
Held(c) == IF c.assigned THEN [c.match EXCEPT !.request = TRUE] ELSE c.match

Probing(R) == \E r \in R : r.kind = "probe"

LEMMA SettleIs ==
  ASSUME NEW c, Settle(c)
  PROVE  match' = Held(c) /\ join' = c.join /\ timer' = c.timer
  BY DEF Settle, Held

\* The three fields of a context after some requests failed.
LEMMA FailedIs ==
  ASSUME NEW c \in Context, NEW kinds
  PROVE  /\ Failed(c, kinds).timer = (c.timer \/ "probe" \in kinds)
         /\ Failed(c, kinds).join = IF "join" \in kinds THEN NoJoin ELSE c.join
         /\ Failed(c, kinds).match = (IF "join" \in kinds THEN JoinFailed(c.match)
              ELSE IF "queue" \in kinds THEN QueueFailed(c.match)
              ELSE IF "ticket" \in kinds THEN TicketFailed(c.match) ELSE c.match)
         /\ Failed(c, kinds).assigned = c.assigned
  BY DEF Context, Failed

LEMMA AnsweredIs ==
  ASSUME NEW m \in Match, NEW state \in State
  PROVE  /\ Answered(m, state).state = state /\ Answered(m, state).request = FALSE
         /\ Answered(m, state).tries = m.tries /\ Answered(m, state).fails = m.fails
         /\ Answered(m, state) \in Match
  BY DEF Match, Answered

LEMMA HeldIs ==
  ASSUME NEW c \in Context
  PROVE  /\ Held(c) \in Match /\ Held(c).request = (c.match.request \/ c.assigned)
         /\ Held(c).state = c.match.state /\ Held(c).tries = c.match.tries
         /\ Held(c).fails = c.match.fails
  BY DEF Context, Match, Held

LEMMA FailuresAre ==
  ASSUME NEW m \in Match
  PROVE  /\ QueueFailed(m) \in Match /\ QueueFailed(m).request = FALSE
         /\ QueueFailed(m).state \in {m.state, "Done"} /\ QueueFailed(m).fails = m.fails
         /\ TicketFailed(m) \in Match /\ TicketFailed(m).request = FALSE
         /\ TicketFailed(m).state = m.state /\ TicketFailed(m).fails = m.fails
<1>1. m.state \in State /\ "Done" \in State
  BY DEF Match, State
<1>2. QueueFailed(m) = Answered(m, IF m.tries >= QueueTries THEN "Done" ELSE m.state)
  BY DEF QueueFailed
<1>3. TicketFailed(m) = Answered(m, m.state)
  BY DEF TicketFailed
<1>4. QueueFailed(m) \in Match /\ QueueFailed(m).request = FALSE /\ QueueFailed(m).fails = m.fails
      /\ QueueFailed(m).state = IF m.tries >= QueueTries THEN "Done" ELSE m.state
  <2> DEFINE s == IF m.tries >= QueueTries THEN "Done" ELSE m.state
             a == Answered(m, s)
  <2>1. s \in State
    BY <1>1
  <2>2. a \in Match /\ a.request = FALSE /\ a.fails = m.fails /\ a.state = s
    BY <2>1, AnsweredIs
  <2>3. QueueFailed(m) = a
    BY <1>2
  <2> HIDE DEF a
  <2> QED
    BY <2>2, <2>3
<1>5. TicketFailed(m) \in Match /\ TicketFailed(m).request = FALSE
      /\ TicketFailed(m).state = m.state /\ TicketFailed(m).fails = m.fails
  <2> DEFINE a == Answered(m, m.state)
  <2>1. a \in Match /\ a.request = FALSE /\ a.fails = m.fails /\ a.state = m.state
    BY <1>1, AnsweredIs
  <2> HIDE DEF a
  <2> QED
    BY <1>3, <2>1 DEF a
<1> QED
  BY <1>4, <1>5

LEMMA JoinFailureIs ==
  ASSUME NEW m \in Match, m.fails < JoinFailures
  PROVE  /\ JoinFailed(m) \in Match /\ JoinFailed(m).request = FALSE
         /\ JoinFailed(m).state \in {"Done", "Wait"} /\ JoinFailed(m).fails = m.fails + 1
         /\ JoinFailed(m).fails = JoinFailures => JoinFailed(m).state = "Done"
<1> DEFINE s == IF m.fails + 1 >= JoinFailures THEN "Done" ELSE "Wait"
           a == Answered(m, s)
<1>1. s \in State /\ m.fails + 1 \in 0..JoinFailures
  BY MatchAssumption DEF Match, State
<1>2. a.state = s /\ a.request = FALSE /\ a.fails = m.fails /\ a \in Match
  BY <1>1, AnsweredIs
<1>3. JoinFailed(m) = [a EXCEPT !.fails = @ + 1]
  BY DEF JoinFailed
<1> HIDE DEF a
<1>4. JoinFailed(m) \in Match /\ JoinFailed(m).request = FALSE /\ JoinFailed(m).state = s /\ JoinFailed(m).fails = m.fails + 1
  BY <1>1, <1>2, <1>3 DEF Match
<1> QED
  BY <1>4, MatchAssumption DEF Match

\* A set of requests keeps its match and join when others than theirs leave it.
LEMMA NamedLess ==
  ASSUME NEW m, NEW j, NEW R, NEW S, Named(m, j, R), S \subseteq R,
         \A r \in R \ S : r.kind \notin MatchKind
  PROVE  Named(m, j, S)
  BY DEF Named, MatchKind

\* A context fails the requests W: what is left is still named.
LEMMA FailedNamed ==
  ASSUME NEW R, NEW W \in SUBSET R, NEW c \in Context, Named(Held(c), c.join, R)
  PROVE  LET F == Failed(c, {r.kind : r \in W})
         IN  F \in Context /\ Named(Held(F), F.join, R \ W)
<1> DEFINE K == {r.kind : r \in W}
           F == Failed(c, K)
           m == c.match
<1>1. /\ F.timer \in BOOLEAN /\ F.assigned = c.assigned
      /\ F.join = IF "join" \in K THEN NoJoin ELSE c.join
      /\ F.match = IF "join" \in K THEN JoinFailed(m)
                   ELSE IF "queue" \in K THEN QueueFailed(m)
                   ELSE IF "ticket" \in K THEN TicketFailed(m) ELSE m
  <2> HIDE DEF K
  <2>1. c.timer \in BOOLEAN
    BY DEF Context
  <2>2. F.timer = (c.timer \/ "probe" \in K)
    BY FailedIs
  <2>3. F.timer \in BOOLEAN
    BY <2>1, <2>2, Zenon
  <2> QED
    BY <2>3, FailedIs, Zenon
<1>2. m \in Match /\ c.assigned \in BOOLEAN /\ c.join \in Join
  BY DEF Context
<1>3. /\ Held(c).state = m.state /\ Held(c).fails = m.fails
  BY HeldIs
<1>4. \A k \in K : \E r \in W : r.kind = k
  OBVIOUS
<1>5. \A r \in R \ W : (\E k \in K : k \in MatchKind) => r.kind \notin MatchKind
  BY <1>4 DEF Named
<1>6. m.fails \in Nat /\ m.fails <= JoinFailures /\ m.state \in State
  BY <1>2, MatchAssumption DEF Match
<1>7. NoJoin \in Join /\ NoJoin.at = "none" /\ NoJoin.attempt = 0
  BY OnlineAssumption DEF NoJoin, Join
<1> HIDE DEF K, F
<1>8. F \in Context <=> F.match \in Match /\ F.join \in Join
  BY <1>1, <1>2 DEF F, Failed, Context
<1>9. CASE "join" \in K
  <2> PICK read \in W : read.kind = "join"
    BY <1>4, <1>9
  <2>0. c.join.at = "read"
    BY DEF Named
  <2>a. Held(c).state = "Join"
    BY <2>0 DEF Named
  <2>b. Held(c).fails # JoinFailures
    BY <2>a DEF Named
  <2>1. c.join.at = "read" /\ m.state = "Join" /\ m.fails < JoinFailures
    BY <1>3, <1>6, <2>0, <2>a, <2>b, MatchAssumption
  <2>2. \A r \in R \ W : r.kind \notin MatchKind
    BY <1>5, <1>9 DEF MatchKind
  <2>3. F \in Context /\ F.join = NoJoin /\ F.match = JoinFailed(m)
    BY <1>1, <1>2, <1>7, <1>8, <1>9, <2>1, JoinFailureIs
  <2>4. /\ Held(F) \in Match /\ Held(F).state \in {"Done", "Wait"}
        /\ Held(F).fails = JoinFailures => Held(F).state = "Done"
    <3>1. /\ F.match.state \in {"Done", "Wait"}
          /\ F.match.fails = JoinFailures => F.match.state = "Done"
      <4> HIDE DEF F, m
      <4>1. /\ JoinFailed(m).state \in {"Done", "Wait"}
            /\ JoinFailed(m).fails = JoinFailures => JoinFailed(m).state = "Done"
        BY <1>2, <2>1, JoinFailureIs
      <4> QED
        BY <2>3, <4>1
    <3> QED
      BY <2>3, <3>1, HeldIs
  <2>5. Named(Held(F), F.join, R \ W)
    BY <1>7, <2>2, <2>3, <2>4 DEF Named, MatchKind
  <2> QED
    BY <2>3, <2>5 DEF F, K
<1>10. CASE "join" \notin K /\ ("queue" \in K \/ "ticket" \in K)
  <2>1. c.join.at = "none" /\ m.state # "Join" /\ m.state # "Gone" /\ m.fails < JoinFailures /\ c.join.attempt = 0
    BY <1>3, <1>4, <1>6, <1>10 DEF Named
  <2>2. \A r \in R \ W : r.kind \notin MatchKind
    BY <1>5, <1>10 DEF MatchKind
  <2>3. /\ F.join = c.join /\ F.match \in Match
        /\ F.match.state \in {m.state, "Done"} /\ F.match.fails = m.fails
    BY <1>1, <1>2, <1>10, FailuresAre
  <2>4. F \in Context
    BY <1>2, <1>8, <2>3
  <2>5. Held(F) \in Match /\ Held(F).state \in {m.state, "Done"} /\ Held(F).fails = m.fails
    BY <2>3, <2>4, HeldIs DEF Match
  <2>6. Named(Held(F), F.join, R \ W)
    BY <1>2, <1>6, <2>1, <2>2, <2>3, <2>5 DEF Named, MatchKind
  <2> QED
    BY <2>4, <2>6 DEF F, K
<1>11. CASE K \cap MatchKind = {}
  <2>1. F.join = c.join /\ F.match = m /\ F \in Context
    BY <1>1, <1>2, <1>8, <1>11 DEF MatchKind
  <2>2. Held(F) = Held(c)
    BY <1>1, <2>1 DEF Held
  <2>3. \A r \in W : r.kind \in K
    BY DEF K
  <2>4. Named(Held(F), F.join, R \ W)
    <3>1. \A r \in R \ (R \ W) : r.kind \notin MatchKind
      BY <1>11, <2>3
    <3> QED
      BY <2>1, <2>2, <3>1, NamedLess
  <2> QED
    BY <2>1, <2>4 DEF F, K
<1> QED
  BY <1>9, <1>10, <1>11 DEF MatchKind

-----------------------------------------------------------------------------
(* What FailWaiting, BeginSignIn, Dispatch and Send leave *)

Outcome(c, R) ==
  /\ SessionOK' /\ RequestsOK(requests') /\ Waits(requests)'
  /\ timer' \in BOOLEAN /\ Named(match', join', requests')
  /\ status' = "SignedIn" => status = "SignedIn"
  /\ c.timer \/ Probing(R) => timer' \/ Probing(requests')

LEMMA SettleNamed ==
  ASSUME NEW c \in Context, NEW R, Named(Held(c), c.join, R), Settle(c)
  PROVE  timer' = c.timer /\ timer' \in BOOLEAN /\ Named(match', join', R)
<1>1. match' = Held(c) /\ join' = c.join /\ timer' = c.timer
  BY SettleIs
<1> QED
  BY <1>1 DEF Context

LEMMA FailWaitingNamed ==
  ASSUME NEW c \in Context, NEW R, RequestsOK(R), Named(Held(c), c.join, R), FailWaiting(R, c)
  PROVE  /\ RequestsOK(requests') /\ \A r \in requests' : ~r.waiting
         /\ timer' \in BOOLEAN /\ Named(match', join', requests')
         /\ c.timer \/ Probing(R) => timer' \/ Probing(requests')
<1> DEFINE W == {r \in R : r.waiting}
           K == {r.kind : r \in W}
           F == Failed(c, K)
<1>1. requests' = R \ W /\ Settle(F)
  BY DEF FailWaiting
<1>2. F \in Context /\ Named(Held(F), F.join, R \ W)
  BY FailedNamed
<1>3. F.timer = (c.timer \/ "probe" \in K)
  BY FailedIs
<1> HIDE DEF F
<1>4. timer' = F.timer /\ timer' \in BOOLEAN /\ Named(match', join', requests')
  BY <1>1, <1>2, SettleNamed
<1>5. Probing(R) => "probe" \in K \/ Probing(R \ W)
  BY DEF Probing
<1>6. c.timer \/ Probing(R) => timer' \/ Probing(requests')
  BY <1>1, <1>3, <1>4, <1>5 DEF Context
<1> QED
  BY <1>1, <1>4, <1>6 DEF RequestsOK

LEMMA BeginSignInOutcome ==
  ASSUME SessionOK, ~recovering, NEW c \in Context, NEW R, RequestsOK(R),
         Named(Held(c), c.join, R), BeginSignIn(R, c)
  PROVE  Outcome(c, R)
<1>1. CASE backoff
  <2>1. recovering' = FALSE /\ FailWaiting(R, c) /\ UNCHANGED <<status, refresh, backoff, calls, reused>>
    BY <1>1 DEF BeginSignIn
  <2>2. SessionOK'
    BY <2>1 DEF SessionOK
  <2> QED
    BY <2>1, <2>2, FailWaitingNamed DEF Outcome, Waits
<1>2. CASE ~backoff
  <2>1. /\ recovering' = TRUE /\ status' = "SigningIn" /\ calls' = [calls EXCEPT !.signin = @ + 1]
        /\ requests' = R /\ Settle(c) /\ UNCHANGED <<refresh, backoff, reused>>
    BY <1>2 DEF BeginSignIn
  <2>2. calls.signin = 0 /\ calls.refresh = 0
    BY DEF SessionOK
  <2>3. SessionOK'
    BY <2>1, <2>2 DEF SessionOK
  <2> QED
    BY <2>1, <2>3, SettleNamed DEF Outcome, Waits
<1> QED
  BY <1>1, <1>2

LEMMA ParkedIs ==
  ASSUME NEW R, RequestsOK(R), NEW r \in Request, r.attempts <= 1
  PROVE  LET p == [r EXCEPT !.waiting = TRUE]
         IN  /\ Parked(R, r) = R \cup {p} /\ p \in Request /\ p.kind = r.kind
             /\ RequestsOK(R \cup {p})
<1> DEFINE p == [r EXCEPT !.waiting = TRUE]
<1>1. p \in Request /\ p.kind = r.kind /\ p.attempts = r.attempts
  BY DEF Request
<1>2. Parked(R, r) = R \cup {p}
  BY DEF Parked
<1>3. p.attempts <= 1 /\ p.attempts # 2
  BY <1>1 DEF Request
<1> HIDE DEF p
<1>4. RequestsOK(R \cup {p})
  BY <1>1, <1>3 DEF RequestsOK
<1> QED
  BY <1>1, <1>2, <1>4 DEF p

LEMMA LaunchedIs ==
  ASSUME NEW r \in Request, r.attempts = 0 \/ (r.attempts = 1 /\ r.stale)
  PROVE  LET l == Launched(r)
         IN  l \in Request /\ l.kind = r.kind /\ ~l.waiting /\ (l.attempts = 2 => l.stale)
<1>1. Launched(r).attempts = r.attempts + 1 /\ Launched(r).waiting = FALSE
      /\ Launched(r).stale = r.stale /\ Launched(r).kind = r.kind
  BY DEF Launched, Request
<1> DEFINE e == [r EXCEPT !.attempts = @ + 1]
<1>2. Launched(r) \in Request
  <2>1. e \in Request
    BY DEF Request
  <2>2. Launched(r) = [e EXCEPT !.waiting = FALSE]
    BY DEF Launched
  <2> HIDE DEF e
  <2> QED
    BY <2>1, <2>2 DEF Request
<1> QED
  BY <1>1, <1>2 DEF Request

\* R with one request more, of a kind, whatever its state.
WithOne(c, R, kind) ==
  \A a \in Request : a.kind = kind => Named(Held(c), c.join, R \cup {a})

LEMMA DispatchOutcome ==
  ASSUME SessionOK, NEW c \in Context, NEW R, RequestsOK(R), NEW r \in Request,
         r.attempts = 0 \/ (r.attempts = 1 /\ r.stale),
         Waits(R),
         WithOne(c, R, r.kind), Dispatch(R, r, c)
  PROVE  Outcome(c, R \cup {r})
<1> DEFINE p == [r EXCEPT !.waiting = TRUE]
           l == Launched(r)
<1>1. Parked(R, r) = R \cup {p} /\ p \in Request /\ p.kind = r.kind /\ RequestsOK(R \cup {p})
  BY ParkedIs DEF Request
<1>2. l \in Request /\ l.kind = r.kind /\ ~l.waiting /\ (l.attempts = 2 => l.stale)
  BY LaunchedIs
<1> HIDE DEF p, l
<1>3. Named(Held(c), c.join, R \cup {p}) /\ Named(Held(c), c.join, R \cup {l})
  BY <1>1, <1>2 DEF WithOne
<1>4. Probing(R \cup {r}) => Probing(R \cup {p}) /\ Probing(R \cup {l})
  BY <1>1, <1>2 DEF Probing
<1>5. CASE recovering
  <2>1. requests' = R \cup {p} /\ Settle(c) /\ UNCHANGED session
    BY <1>1, <1>5 DEF Dispatch
  <2>2. SessionOK' /\ status' = status /\ Waits(requests)'
    BY <1>5, <2>1 DEF SessionOK, session, Waits
  <2> QED
    BY <1>1, <1>3, <1>4, <2>1, <2>2, SettleNamed DEF Outcome
<1>6. CASE ~recovering /\ status = "SignedIn"
  <2>1. requests' = R \cup {l} /\ Settle(c) /\ UNCHANGED session
    BY <1>6 DEF Dispatch, l
  <2>2. SessionOK' /\ status' = status /\ Waits(requests)'
    BY <1>2, <1>6, <2>1 DEF SessionOK, session, Waits
  <2>3. RequestsOK(R \cup {l})
    BY <1>2 DEF RequestsOK
  <2> QED
    BY <1>3, <1>4, <2>1, <2>2, <2>3, SettleNamed DEF Outcome
<1>7. CASE ~recovering /\ status # "SignedIn"
  <2>1. BeginSignIn(R \cup {p}, c)
    BY <1>1, <1>7 DEF Dispatch
  <2>2. Outcome(c, R \cup {p})
    BY <1>1, <1>3, <1>7, <2>1, BeginSignInOutcome
  <2> QED
    BY <1>4, <2>2 DEF Outcome
<1> QED
  BY <1>5, <1>6, <1>7

LEMMA SendOutcome ==
  ASSUME SessionOK, NEW c \in Context, NEW R, RequestsOK(R), NEW kind \in Kind,
         Waits(R),
         WithOne(c, R, kind), Send(R, kind, c)
  PROVE  Outcome(c, R \cup {NewRequest(kind)})
<1>1. NewRequest(kind) \in Request /\ NewRequest(kind).kind = kind /\ NewRequest(kind).attempts = 0
  BY DEF NewRequest, Request
<1>2. Dispatch(R, NewRequest(kind), c)
  BY DEF Send
<1> DEFINE r == NewRequest(kind)
<1> HIDE DEF r
<1>3. r \in Request /\ r.kind = kind /\ r.attempts = 0 /\ Dispatch(R, r, c)
  BY <1>1, <1>2 DEF r
<1>4. WithOne(c, R, r.kind) /\ (r.attempts = 0 \/ (r.attempts = 1 /\ r.stale))
  BY <1>3
<1>5. Outcome(c, R \cup {r})
  BY <1>3, <1>4, DispatchOutcome
<1> QED
  BY <1>5 DEF r

-----------------------------------------------------------------------------
(* From an outcome to the invariant *)

LEMMA ThereIs ==
  ASSUME IInv
  PROVE  /\ There \in Context /\ There.match = match /\ There.join = join
         /\ There.timer = timer /\ There.assigned = FALSE /\ Held(There) = match
  BY DEF There, Context, Held, IInv, Named, SocketOK

LEMMA Outcomes ==
  ASSUME IInv, NEW c, NEW R, Outcome(c, R), UNCHANGED socket,
         timer => c.timer, Probing(requests) => Probing(R)
  PROVE  IInv'
<1>1. SocketOK'
  BY DEF IInv, SocketOK, Outcome, socket
<1>2. PushReturns'
  BY DEF IInv, PushReturns, Outcome, socket, InFlight, Probing
<1> QED
  BY <1>1, <1>2 DEF IInv, Outcome

\* A step that leaves session and socket alone.
LEMMA Quiet ==
  ASSUME IInv, UNCHANGED <<session, socket>>,
         requests' \subseteq requests, timer' \in BOOLEAN,
         timer => timer', Probing(requests) => timer' \/ Probing(requests'),
         Named(match', join', requests')
  PROVE  IInv'
<1>1. SessionOK'
  BY DEF IInv, SessionOK, session
<1>2. RequestsOK(requests') /\ Waits(requests)'
  BY DEF IInv, RequestsOK, Waits, session
<1>3. SocketOK'
  BY DEF IInv, SocketOK, socket
<1>4. PushReturns'
  BY DEF IInv, PushReturns, session, socket, InFlight, Probing
<1> QED
  BY <1>1, <1>2, <1>3, <1>4 DEF IInv

LEMMA NamedMore ==
  ASSUME NEW m, NEW j, NEW R, NEW a, Named(m, j, R), a.kind \notin MatchKind
  PROVE  Named(m, j, R \cup {a})
  BY DEF Named, MatchKind

LEMMA NamedAsks ==
  ASSUME NEW m \in Match, NEW j \in Join, NEW R, NEW a,
         \A r \in R : r.kind \notin MatchKind, a.kind \in {"queue", "ticket"},
         j.at = "none", j.attempt = 0, m.request, m.state \notin {"Join", "Gone"},
         m.fails < JoinFailures
  PROVE  Named(m, j, R \cup {a})
  BY MatchAssumption DEF Named, MatchKind

LEMMA NamedJoins ==
  ASSUME NEW m \in Match, NEW j \in Join, NEW R, NEW a,
         \A r \in R : r.kind \notin MatchKind, a.kind = "join",
         j.at = "read", j.attempt < JoinAttempts, m.request, m.state = "Join",
         m.fails < JoinFailures
  PROVE  Named(m, j, R \cup {a})
  BY MatchAssumption DEF Named, MatchKind

-----------------------------------------------------------------------------
(* Answers *)

LEMMA AnswerFailedKeeps ==
  ASSUME IInv, NEW r \in requests, AnswerFailed(r)
  PROVE  IInv'
<1> DEFINE F == Failed(There, {q.kind : q \in {r}})
<1>1. F = Failed(There, {r.kind})
  <2>1. {q.kind : q \in {r}} = {r.kind}
    OBVIOUS
  <2> QED
    BY <2>1
<1>2. F \in Context /\ Named(Held(F), F.join, requests \ {r})
  BY ThereIs, FailedNamed DEF IInv
<1>3. F.timer = (timer \/ r.kind = "probe")
  BY <1>1, ThereIs, FailedIs
<1>4. requests' = requests \ {r} /\ Settle(F) /\ UNCHANGED <<session, socket>>
  BY <1>1 DEF AnswerFailed
<1> HIDE DEF F
<1>5. timer' = F.timer /\ timer' \in BOOLEAN /\ Named(match', join', requests')
  BY <1>2, <1>4, SettleNamed
<1>6. Probing(requests) => r.kind = "probe" \/ Probing(requests')
  BY <1>4 DEF Probing
<1> QED
  BY <1>3, <1>4, <1>5, <1>6, Quiet

LEMMA AnswerOtherKeeps ==
  ASSUME IInv, NEW r \in requests, AnswerOther(r)
  PROVE  IInv'
<1>1. r.kind \notin MatchKind /\ r.kind # "probe"
  BY OnlineAssumption DEF AnswerOther, MatchKind
<1>2. /\ requests' = requests \ {r} /\ match' = match /\ join' = join /\ timer' = timer
      /\ UNCHANGED <<session, socket>>
  BY DEF AnswerOther
<1>3. Named(match', join', requests')
  BY <1>1, <1>2, NamedLess DEF IInv
<1>4. Probing(requests) => Probing(requests')
  BY <1>1, <1>2 DEF Probing
<1> QED
  BY <1>2, <1>3, <1>4, Quiet DEF IInv, SocketOK

LEMMA AnswerProbeKeeps ==
  ASSUME IInv, NEW r \in requests, AnswerProbe(r)
  PROVE  IInv'
<1>1. /\ requests' = requests \ {r} /\ match' = match /\ join' = join /\ r.kind = "probe"
      /\ UNCHANGED <<session, refused, replaced, drops>> /\ ConnectPush
  BY DEF AnswerProbe
<1>2. Named(match', join', requests')
  BY <1>1, NamedLess DEF IInv, MatchKind
<1>3. SessionOK' /\ status' = status
  BY <1>1 DEF IInv, SessionOK, session
<1>4. RequestsOK(requests') /\ Waits(requests)'
  BY <1>1 DEF IInv, RequestsOK, Waits, session
<1>5. SocketOK'
  BY <1>1 DEF IInv, SocketOK, ConnectPush
<1>6. PushReturns'
  BY <1>1, <1>3 DEF PushReturns, ConnectPush
<1> QED
  BY <1>2, <1>3, <1>4, <1>5, <1>6 DEF IInv

LEMMA ContextMatch ==
  ASSUME NEW c \in Context, NEW m \in Match
  PROVE  /\ [c EXCEPT !.match = m] \in Context /\ [c EXCEPT !.match = m].match = m
         /\ [c EXCEPT !.match = m].join = c.join /\ [c EXCEPT !.match = m].timer = c.timer
         /\ [c EXCEPT !.match = m].assigned = c.assigned
  BY DEF Context

LEMMA ContextJoin ==
  ASSUME NEW c \in Context, NEW j \in Join
  PROVE  /\ [c EXCEPT !.join = j] \in Context /\ [c EXCEPT !.join = j].match = c.match
         /\ [c EXCEPT !.join = j].join = j /\ [c EXCEPT !.join = j].timer = c.timer
         /\ [c EXCEPT !.join = j].assigned = c.assigned
  BY DEF Context

LEMMA ContextAssigned ==
  ASSUME NEW c \in Context
  PROVE  /\ [c EXCEPT !.assigned = TRUE] \in Context /\ [c EXCEPT !.assigned = TRUE].match = c.match
         /\ [c EXCEPT !.assigned = TRUE].join = c.join /\ [c EXCEPT !.assigned = TRUE].timer = c.timer
         /\ [c EXCEPT !.assigned = TRUE].assigned = TRUE
  BY DEF Context

\* The one request of a match: nothing else of the match's is under way.
LEMMA OnlyOne ==
  ASSUME IInv, NEW r \in requests, r.kind \in MatchKind
  PROVE  /\ \A q \in requests \ {r} : q.kind \notin MatchKind
         /\ match.request = TRUE /\ match.state # "Gone" /\ match.fails < JoinFailures
         /\ match.fails \in Nat /\ match.state \in State
         /\ r.kind = "join" => join.at = "read" /\ join.attempt < JoinAttempts /\ match.state = "Join"
         /\ r.kind \in {"queue", "ticket"} =>
              join.at = "none" /\ join.attempt = 0 /\ match.state # "Join"
<1>1. Named(match, join, requests)
  BY DEF IInv
<1>2. match.fails \in Nat /\ match.fails <= JoinFailures /\ match.state \in State
  BY <1>1, MatchAssumption DEF Named, Match
<1>3. \A q \in requests \ {r} : q.kind \notin MatchKind
  BY <1>1 DEF Named
<1>4. r.kind = "join" => join.at = "read" /\ join.attempt < JoinAttempts /\ match.state = "Join"
  BY <1>1 DEF Named
<1>5. r.kind \in {"queue", "ticket"} =>
        join.at = "none" /\ join.attempt = 0 /\ match.state # "Join" /\ match.request = TRUE
  BY <1>1 DEF Named, Match
<1>6. match.request = TRUE /\ match.state # "Gone"
  BY <1>1, <1>4, <1>5 DEF Named, MatchKind, Match
<1>7. match.fails # JoinFailures
  <2>1. CASE r.kind = "join"
    BY <1>1, <1>4, <2>1 DEF Named
  <2>2. CASE r.kind \in {"queue", "ticket"}
    BY <1>1, <1>2, <2>2, MatchAssumption DEF Named
  <2> QED
    BY <2>1, <2>2 DEF MatchKind
<1> QED
  BY <1>2, <1>3, <1>4, <1>5, <1>6, <1>7, MatchAssumption

\* Nothing of a match's is under way, and it is at the beginning of no join.
LEMMA NamedIdle ==
  ASSUME NEW m \in Match, NEW j \in Join, NEW R, \A r \in R : r.kind \notin MatchKind,
         j.at = "none", j.attempt = 0, m.state # "Join",
         m.state = "Gone" => ~m.request,
         m.fails = JoinFailures => m.state \in {"Done", "Gone"}
  PROVE  Named(m, j, R)
  BY DEF Named, MatchKind

LEMMA AnswerQueueKeeps ==
  ASSUME IInv, NEW r \in requests, AnswerQueue(r)
  PROVE  IInv'
<1> DEFINE m == Queued(match)
           c == [There EXCEPT !.match = m]
<1>1. r.kind = "queue" /\ requests' = requests \ {r} /\ UNCHANGED <<session, socket>>
  BY DEF AnswerQueue
<1>2. m \in Match /\ m.state = "Wait" /\ m.fails = match.fails
  BY AnsweredIs DEF Queued, IInv, Named, State
<1>3. Settle(c)
  BY ThereIs DEF AnswerQueue
<1> HIDE DEF m
<1>4. c \in Context /\ c.match = m /\ c.join = join /\ c.timer = timer
  BY <1>2, ThereIs, ContextMatch
<1> HIDE DEF c
<1>5. Held(c) \in Match /\ Held(c).state = "Wait" /\ Held(c).fails = match.fails
  BY <1>2, <1>4, HeldIs
<1>6. Named(Held(c), c.join, requests \ {r})
  <2>1. join \in Join
    BY DEF IInv, Named
  <2>2. /\ \A q \in requests \ {r} : q.kind \notin MatchKind
        /\ join.at = "none" /\ join.attempt = 0
        /\ match.fails < JoinFailures /\ match.fails \in Nat
    BY <1>1, OnlyOne DEF MatchKind
  <2>3. match.fails # JoinFailures
    BY <2>2
  <2> QED
    BY <1>4, <1>5, <2>1, <2>2, <2>3, NamedIdle
<1>7. timer' = timer /\ timer' \in BOOLEAN /\ Named(match', join', requests')
  BY <1>1, <1>3, <1>4, <1>6, SettleNamed
<1>8. Probing(requests) => Probing(requests')
  BY <1>1 DEF Probing
<1> QED
  BY <1>1, <1>7, <1>8, Quiet

LEMMA AnswerJoinKeeps ==
  ASSUME IInv, NEW r \in requests, AnswerJoin(r)
  PROVE  IInv'
<1> DEFINE j == [attempt |-> join.attempt + 1, at |-> "hello"]
           c == [There EXCEPT !.join = j]
           F == Failed(There, {q.kind : q \in {r}})
<1>1. r.kind = "join" /\ requests' = requests \ {r} /\ UNCHANGED <<session, socket>>
  BY DEF AnswerJoin
<1>2. Settle(c) \/ Settle(F)
  <2>1. {q.kind : q \in {r}} = {r.kind}
    OBVIOUS
  <2> QED
    BY <1>1, <2>1, ThereIs DEF AnswerJoin
<1>3. /\ \A q \in requests \ {r} : q.kind \notin MatchKind
      /\ match.request = TRUE /\ match.state = "Join" /\ join.attempt < JoinAttempts
      /\ match \in Match /\ join \in Join /\ match.fails # JoinFailures
  <2>1. match.fails < JoinFailures /\ match.fails \in Nat
    BY <1>1, OnlyOne DEF MatchKind
  <2>2. match.fails # JoinFailures
    BY <2>1
  <2> QED
    BY <1>1, <2>2, OnlyOne DEF MatchKind, IInv, Named
<1>4. j \in Join /\ j.at = "hello"
  BY <1>3, OnlineAssumption DEF Join
<1> HIDE DEF j
<1>5. c \in Context /\ c.match = match /\ c.join = j /\ c.timer = timer /\ c.assigned = FALSE
  BY <1>4, ThereIs, ContextJoin
<1>6. Held(c) = match
  BY <1>5 DEF Held
<1>7. Named(Held(c), c.join, requests \ {r})
  BY <1>3, <1>4, <1>5, <1>6 DEF Named, MatchKind
<1>8. F \in Context /\ Named(Held(F), F.join, requests \ {r})
  BY ThereIs, FailedNamed DEF IInv
<1>9. timer => F.timer
  BY ThereIs, FailedIs
<1> HIDE DEF c, F
<1>10. (timer => timer') /\ timer' \in BOOLEAN /\ Named(match', join', requests')
  BY <1>1, <1>2, <1>5, <1>7, <1>8, <1>9, SettleNamed
<1>11. Probing(requests) => Probing(requests')
  BY <1>1 DEF Probing
<1> QED
  BY <1>1, <1>10, <1>11, Quiet

LEMMA OnTicketIs ==
  ASSUME NEW m \in Match, NEW ticket, m.state \notin {"Join", "Gone"}
  PROVE  /\ OnTicket(m, ticket) \in Match /\ OnTicket(m, ticket).request = FALSE
         /\ OnTicket(m, ticket).fails = m.fails
         /\ OnTicket(m, ticket).state \in {m.state, "Done", "Queue", "Join"}
<1>1. {m.state, "Done", "Queue", "Join"} \subseteq State
  BY DEF Match, State
<1>2. \E s \in {m.state, "Done", "Queue", "Join"} : OnTicket(m, ticket) = Answered(m, s)
  BY DEF OnTicket
<1> PICK s \in {m.state, "Done", "Queue", "Join"} : OnTicket(m, ticket) = Answered(m, s)
  BY <1>2
<1> DEFINE a == Answered(m, s)
<1>3. a \in Match /\ a.request = FALSE /\ a.fails = m.fails /\ a.state = s
  BY <1>1, AnsweredIs
<1>4. OnTicket(m, ticket) = a
  OBVIOUS
<1> HIDE DEF a
<1> QED
  BY <1>3, <1>4

LEMMA AnswerTicketKeeps ==
  ASSUME IInv, NEW r \in requests, NEW ticket, AnswerTicket(r, ticket)
  PROVE  IInv'
<1> DEFINE m == OnTicket(match, ticket)
           c == [There EXCEPT !.match = m]
           j == [attempt |-> 0, at |-> "read"]
           d == [c EXCEPT !.join = j]
           e == [d EXCEPT !.assigned = TRUE]
           R == requests \ {r}
<1>1. r.kind = "ticket" /\ UNCHANGED socket
  BY DEF AnswerTicket
<1>2. /\ \A q \in R : q.kind \notin MatchKind
      /\ match.state \notin {"Join", "Gone"} /\ match.fails < JoinFailures /\ match.fails # JoinFailures
      /\ match \in Match /\ join \in Join /\ join.at = "none" /\ join.attempt = 0
  <2>1. match.fails < JoinFailures /\ match.fails \in Nat
    BY <1>1, OnlyOne DEF MatchKind
  <2>2. match.fails # JoinFailures
    BY <2>1
  <2> QED
    BY <1>1, <2>1, <2>2, OnlyOne DEF MatchKind, IInv, Named
<1>3. /\ m \in Match /\ m.request = FALSE /\ m.fails = match.fails
      /\ m.state \in {match.state, "Done", "Queue", "Join"}
  BY <1>2, OnTicketIs
<1>4. /\ m.state = "Join" => Send(R, "join", e)
      /\ m.state # "Join" => requests' = R /\ Settle(c) /\ UNCHANGED session
  BY DEF AnswerTicket
<1>5. Probing(requests) => Probing(R)
  BY <1>1 DEF Probing
<1> HIDE DEF m
<1>6. c \in Context /\ c.match = m /\ c.join = join /\ c.timer = timer /\ c.assigned = FALSE
  BY <1>3, ThereIs, ContextMatch
<1>7. CASE m.state = "Join"
  <2>1. j \in Join /\ j.at = "read" /\ j.attempt < JoinAttempts
    BY OnlineAssumption DEF Join
  <2> HIDE DEF c, j
  <2>2. d \in Context /\ d.match = m /\ d.join = j /\ d.timer = timer
    BY <1>6, <2>1, ContextJoin
  <2> HIDE DEF d
  <2>3. e \in Context /\ e.match = m /\ e.join = j /\ e.timer = timer /\ e.assigned = TRUE
    BY <2>2, ContextAssigned
  <2> HIDE DEF e
  <2>4. /\ Held(e) \in Match /\ Held(e).request = TRUE /\ Held(e).state = "Join"
        /\ Held(e).fails < JoinFailures
    BY <1>2, <1>3, <1>7, <2>3, HeldIs
  <2>5. WithOne(e, R, "join")
    <3>1. ASSUME NEW a \in Request, a.kind = "join"
          PROVE  Named(Held(e), e.join, R \cup {a})
      BY <1>2, <2>1, <2>3, <2>4, <3>1, NamedJoins
    <3> QED
      BY <3>1 DEF WithOne
  <2>6. RequestsOK(R) /\ Waits(R) /\ SessionOK
    BY DEF IInv, RequestsOK, Waits
  <2>7. Outcome(e, R \cup {NewRequest("join")})
    BY <1>4, <1>7, <2>3, <2>5, <2>6, SendOutcome DEF Kind
  <2>8. Probing(requests) => Probing(R \cup {NewRequest("join")})
    BY <1>5 DEF Probing
  <2> QED
    BY <1>1, <2>3, <2>7, <2>8, Outcomes
<1>8. CASE m.state # "Join"
  <2> HIDE DEF c
  <2>1. /\ Held(c) \in Match /\ Held(c).state = m.state /\ Held(c).fails = match.fails
        /\ m.state # "Gone"
    BY <1>2, <1>3, <1>6, HeldIs
  <2>2. Named(Held(c), c.join, R)
    BY <1>2, <1>6, <1>8, <2>1, NamedIdle
  <2>3. timer' = timer /\ timer' \in BOOLEAN /\ Named(match', join', requests')
    BY <1>4, <1>6, <1>8, <2>2, SettleNamed
  <2> QED
    BY <1>1, <1>4, <1>5, <1>8, <2>3, Quiet
<1> QED
  BY <1>7, <1>8

\* A request in the place of another of its kind.
LEMMA NamedSwap ==
  ASSUME NEW m, NEW j, NEW R, NEW r \in R, NEW a, Named(m, j, R), a.kind = r.kind
  PROVE  Named(m, j, (R \ {r}) \cup {a})
<1> DEFINE S == (R \ {r}) \cup {a}
<1>1. \A p, q \in S : p.kind \in MatchKind /\ q.kind \in MatchKind => p = q
  BY DEF Named
<1>2. \A k : (\E q \in R : q.kind = k) <=> (\E q \in S : q.kind = k)
  OBVIOUS
<1>3. \A q \in S : \E p \in R : p.kind = q.kind
  OBVIOUS
<1> HIDE DEF S
<1> QED
  BY <1>1, <1>2, <1>3 DEF Named, S

LEMMA UnauthorizedKeeps ==
  ASSUME IInv, NEW r \in requests, NEW expired, ~r.waiting, Unauthorized(r, expired)
  PROVE  IInv'
<1> DEFINE R == requests \ {r}
           p == [r EXCEPT !.waiting = TRUE]
<1>1. r \in Request /\ r.attempts = 1 /\ UNCHANGED socket
  BY DEF Unauthorized, IInv, RequestsOK
<1>2. RequestsOK(R) /\ Waits(R) /\ SessionOK
  BY DEF IInv, RequestsOK, Waits
<1>3. Parked(R, r) = R \cup {p} /\ p \in Request /\ p.kind = r.kind /\ RequestsOK(R \cup {p})
  BY <1>1, <1>2, ParkedIs
<1>4. Named(match, join, R \cup {p})
  BY <1>3, NamedSwap DEF IInv
<1>5. /\ Probing(requests) => Probing(R \cup {r}) /\ Probing(R \cup {p})
  BY <1>3 DEF Probing
<1>6. There \in Context /\ Held(There) = match /\ There.join = join /\ There.timer = timer
  BY ThereIs
<1>7. CASE r.stale
  <2>1. Dispatch(R, r, There)
    BY <1>7 DEF Unauthorized
  <2>2. WithOne(There, R, r.kind)
    <3>1. ASSUME NEW a \in Request, a.kind = r.kind
          PROVE  Named(match, join, R \cup {a})
      BY <3>1, NamedSwap DEF IInv
    <3> QED
      BY <1>6, <3>1 DEF WithOne
  <2>3. Outcome(There, R \cup {r})
    BY <1>1, <1>2, <1>6, <1>7, <2>1, <2>2, DispatchOutcome
  <2> QED
    BY <1>1, <1>5, <1>6, <2>3, Outcomes
<1>8. CASE ~r.stale /\ recovering
  <2>1. requests' = R \cup {p} /\ Settle(There) /\ UNCHANGED session
    BY <1>3, <1>8 DEF Unauthorized
  <2>2. timer' = timer /\ timer' \in BOOLEAN /\ Named(match', join', requests')
    BY <1>4, <1>6, <2>1, SettleNamed
  <2>3. SessionOK' /\ status' = status /\ Waits(requests)'
    BY <1>2, <1>8, <2>1 DEF SessionOK, session, Waits
  <2>4. Outcome(There, requests)
    BY <1>3, <1>5, <1>6, <2>1, <2>2, <2>3 DEF Outcome
  <2> QED
    BY <1>1, <1>6, <2>4, Outcomes
<1>9. CASE ~r.stale /\ ~recovering /\ expired /\ refresh # "none"
  <2>1. requests' = R \cup {p} /\ Settle(There) /\ BeginRefresh
    BY <1>3, <1>9 DEF Unauthorized
  <2>2. timer' = timer /\ timer' \in BOOLEAN /\ Named(match', join', requests')
    BY <1>4, <1>6, <2>1, SettleNamed
  <2>3. /\ recovering' = TRUE /\ calls' = [calls EXCEPT !.refresh = @ + 1] /\ reused' = FALSE
        /\ refresh' = "none" /\ UNCHANGED <<status, backoff>> /\ status = "SignedIn"
        /\ calls.signin = 0 /\ calls.refresh = 0
    BY <1>2, <1>9, <2>1 DEF BeginRefresh, SessionOK
  <2>4. SessionOK' /\ Waits(requests)'
    BY <1>2, <2>3 DEF SessionOK, Waits
  <2>5. Outcome(There, requests)
    BY <1>3, <1>5, <1>6, <2>1, <2>2, <2>3, <2>4 DEF Outcome
  <2> QED
    BY <1>1, <1>6, <2>5, Outcomes
<1>10. CASE ~r.stale /\ ~recovering /\ ~(expired /\ refresh # "none")
  <2>1. BeginSignIn(R \cup {p}, There)
    BY <1>3, <1>10 DEF Unauthorized
  <2>2. Outcome(There, R \cup {p})
    BY <1>2, <1>3, <1>4, <1>6, <1>10, <2>1, BeginSignInOutcome
  <2> QED
    BY <1>1, <1>5, <1>6, <2>2, Outcomes
<1> QED
  BY <1>7, <1>8, <1>9, <1>10

LEMMA AnswerKeeps ==
  ASSUME IInv, NEW kind \in Kind, Answer(kind)
  PROVE  IInv'
  BY AnswerFailedKeeps, AnswerOtherKeeps, AnswerProbeKeeps, AnswerQueueKeeps, AnswerJoinKeeps,
     AnswerTicketKeeps, UnauthorizedKeeps DEF Answer

-----------------------------------------------------------------------------
(* Sign-in and refresh *)

Sent(r) == IF r.waiting THEN Launched([r EXCEPT !.stale = r.attempts = 1 \/ @])
           ELSE [r EXCEPT !.stale = r.attempts = 1 \/ @]

LEMMA SentIs ==
  ASSUME NEW r \in Request, r.waiting => r.attempts <= 1, r.attempts = 2 => r.stale
  PROVE  Sent(r) \in Request /\ Sent(r).kind = r.kind /\ ~Sent(r).waiting
         /\ (Sent(r).attempts = 2 => Sent(r).stale)
<1> DEFINE s == [r EXCEPT !.stale = r.attempts = 1 \/ @]
<1>1. /\ s \in Request /\ s.kind = r.kind /\ s.attempts = r.attempts /\ s.waiting = r.waiting
      /\ s.stale = (r.attempts = 1 \/ r.stale)
  BY DEF Request
<1>2. Sent(r) = IF r.waiting THEN Launched(s) ELSE s
  BY DEF Sent
<1> HIDE DEF s
<1>3. CASE r.waiting
  <2>1. s.attempts = 0 \/ (s.attempts = 1 /\ s.stale)
    BY <1>1, <1>3 DEF Request
  <2> QED
    BY <1>1, <1>2, <1>3, <2>1, LaunchedIs
<1>4. CASE ~r.waiting
  BY <1>1, <1>2, <1>4
<1> QED
  BY <1>3, <1>4

\* Everything that waited is sent; the kinds under way are the same.
LEMMA ResumedIs ==
  ASSUME IInv
  PROVE  /\ RequestsOK(Resumed) /\ \A r \in Resumed : ~r.waiting
         /\ Named(match, join, Resumed)
         /\ Probing(requests) => Probing(Resumed)
<1>1. Resumed = {Sent(r) : r \in requests}
  BY DEF Resumed, Sent
<1>2. \A r \in requests : Sent(r) \in Request /\ Sent(r).kind = r.kind /\ ~Sent(r).waiting
        /\ (Sent(r).attempts = 2 => Sent(r).stale)
  BY SentIs DEF IInv, RequestsOK
<1>3. RequestsOK(Resumed) /\ \A r \in Resumed : ~r.waiting
  BY <1>1, <1>2 DEF RequestsOK
<1>4. \A q \in Resumed : \E p \in requests : q = Sent(p) /\ p.kind = q.kind
  BY <1>1, <1>2
<1>5. \A k : (\E q \in requests : q.kind = k) <=> (\E q \in Resumed : q.kind = k)
  BY <1>1, <1>2, <1>4
<1>6. \A p, q \in Resumed : p.kind \in MatchKind /\ q.kind \in MatchKind => p = q
  BY <1>4 DEF IInv, Named
<1>7. Named(match, join, Resumed)
  BY <1>4, <1>5, <1>6 DEF IInv, Named
<1> QED
  BY <1>3, <1>5, <1>7 DEF Probing

\* The session once a recovery is over.
LEMMA Recovered ==
  ASSUME status' \in {"Offline", "SigningIn", "SignedIn"}, refresh' \in {"none", "fresh"},
         refresh' # "none" => status' = "SignedIn",
         recovering' = FALSE, backoff' \in BOOLEAN, reused' = FALSE,
         calls' \in [signin : Nat, refresh : Nat], calls'.signin = 0, calls'.refresh = 0
  PROVE  SessionOK'
<1>1. calls'.signin + calls'.refresh = IF recovering' THEN 1 ELSE 0
  OBVIOUS
<1>2. calls'.refresh = 1 => status' = "SignedIn"
  OBVIOUS
<1> QED
  BY <1>1, <1>2 DEF SessionOK

LEMMA SignInDoneKeeps ==
  ASSUME IInv, SignInDone
  PROVE  IInv'
<1>1. /\ calls.signin > 0 /\ calls' = [calls EXCEPT !.signin = @ - 1]
      /\ UNCHANGED <<refused, replaced, drops>>
  BY DEF SignInDone
<1>2. calls.signin = 1 /\ calls.refresh = 0 /\ SessionOK
  BY <1>1 DEF IInv, SessionOK
<1>a. calls' \in [signin : Nat, refresh : Nat] /\ calls'.signin = 0 /\ calls'.refresh = 0
  BY <1>1, <1>2 DEF SessionOK
<1>3. CASE /\ Adopt /\ backoff' = FALSE
           /\ requests' = Resumed \cup {Launched(NewRequest("profile"))}
           /\ ConnectPush /\ UNCHANGED <<join, match>>
  <2> DEFINE l == Launched(NewRequest("profile"))
  <2>1. l \in Request /\ l.kind = "profile" /\ ~l.waiting /\ (l.attempts = 2 => l.stale)
    <3>1. /\ NewRequest("profile") \in Request /\ NewRequest("profile").attempts = 0
          /\ NewRequest("profile").kind = "profile"
      BY DEF NewRequest, Request, Kind
    <3> QED
      BY <3>1, LaunchedIs
  <2> HIDE DEF l
  <2>2. requests' = Resumed \cup {l}
    BY <1>3 DEF l
  <2>3. RequestsOK(requests') /\ Waits(requests)'
    BY <2>1, <2>2, ResumedIs DEF RequestsOK, Waits
  <2>4. Named(match', join', requests')
    BY <1>3, <2>1, <2>2, ResumedIs, NamedMore DEF MatchKind
  <2>5. SessionOK' /\ status' = "SignedIn"
    <3>1. /\ status' = "SignedIn" /\ refresh' = "fresh" /\ recovering' = FALSE /\ backoff' = FALSE
          /\ reused' = reused
      BY <1>3 DEF Adopt
    <3>2. reused' = FALSE
      BY <1>2, <3>1 DEF SessionOK
    <3> QED
      BY <1>a, <3>1, <3>2, Recovered
  <2>6. SocketOK' /\ push' # "Disconnected"
    BY <1>1, <1>3, <2>5 DEF IInv, SocketOK, ConnectPush
  <2> QED
    BY <2>3, <2>4, <2>5, <2>6 DEF IInv, PushReturns
<1>4. CASE /\ status' = "Offline" /\ refresh' = "none" /\ recovering' = FALSE /\ backoff' = TRUE
           /\ FailWaiting(requests, There) /\ UNCHANGED <<push, reused>>
  <2>1. /\ RequestsOK(requests') /\ \A r \in requests' : ~r.waiting
        /\ timer' \in BOOLEAN /\ Named(match', join', requests')
    BY <1>4, ThereIs, FailWaitingNamed DEF IInv
  <2>2. SessionOK' /\ Waits(requests)'
    <3>1. reused' = FALSE
      BY <1>2, <1>4 DEF SessionOK
    <3> QED
      BY <1>4, <1>a, <2>1, <3>1, Recovered DEF Waits
  <2>3. SocketOK' /\ PushReturns'
    BY <1>1, <1>4, <2>1 DEF IInv, SocketOK, PushReturns
  <2> QED
    BY <2>1, <2>2, <2>3 DEF IInv
<1> QED
  BY <1>3, <1>4 DEF SignInDone

LEMMA RefreshDoneKeeps ==
  ASSUME IInv, RefreshDone
  PROVE  IInv'
<1>1. calls.refresh > 0 /\ UNCHANGED socket
  BY DEF RefreshDone
<1>2. calls.signin = 0 /\ calls.refresh = 1 /\ SessionOK /\ status = "SignedIn"
  BY <1>1 DEF IInv, SessionOK
<1>a. calls' = [calls EXCEPT !.refresh = @ - 1] =>
        calls' \in [signin : Nat, refresh : Nat] /\ calls'.signin = 0 /\ calls'.refresh = 0
  BY <1>2 DEF SessionOK
<1>3. SocketOK' <=> timer' \in BOOLEAN
  BY <1>1 DEF IInv, SocketOK, socket
<1>4. CASE /\ Adopt /\ calls' = [calls EXCEPT !.refresh = @ - 1]
           /\ requests' = Resumed /\ UNCHANGED <<backoff, timer, join, match>>
  <2>1. SessionOK' /\ status' = status
    <3>1. status' = "SignedIn" /\ refresh' = "fresh" /\ recovering' = FALSE /\ reused' = reused
      BY <1>4 DEF Adopt
    <3>2. reused' = FALSE /\ backoff' \in BOOLEAN
      BY <1>2, <1>4, <3>1 DEF SessionOK
    <3> QED
      BY <1>2, <1>4, <1>a, <3>1, <3>2, Recovered
  <2>2. RequestsOK(requests') /\ Waits(requests)' /\ Named(match', join', requests')
        /\ (Probing(requests) => Probing(requests'))
    BY <1>4, ResumedIs DEF Waits
  <2>3. SocketOK' /\ PushReturns'
    BY <1>1, <1>3, <1>4, <2>1, <2>2 DEF IInv, SocketOK, PushReturns, Probing, InFlight, socket
  <2> QED
    BY <2>1, <2>2, <2>3 DEF IInv
<1>5. CASE /\ recovering' = TRUE /\ status' = "SigningIn"
           /\ calls' = [signin |-> calls.signin + 1, refresh |-> calls.refresh - 1]
           /\ UNCHANGED <<refresh, backoff, reused, requests, timer, join, match>>
  <2>1. SessionOK' /\ Waits(requests)'
    BY <1>2, <1>5 DEF SessionOK, Waits
  <2>2. SocketOK' /\ PushReturns'
    BY <1>3, <1>5 DEF IInv, SocketOK, PushReturns
  <2> QED
    BY <1>5, <2>1, <2>2 DEF IInv
<1>6. CASE /\ recovering' = FALSE /\ calls' = [calls EXCEPT !.refresh = @ - 1]
           /\ FailWaiting(requests, There) /\ UNCHANGED <<status, refresh, backoff, reused>>
  <2>1. /\ RequestsOK(requests') /\ \A r \in requests' : ~r.waiting
        /\ timer' \in BOOLEAN /\ Named(match', join', requests')
        /\ timer \/ Probing(requests) => timer' \/ Probing(requests')
    BY <1>6, ThereIs, FailWaitingNamed DEF IInv
  <2>2. SessionOK' /\ Waits(requests)'
    <3>1. /\ reused' = FALSE /\ backoff' \in BOOLEAN /\ refresh' \in {"none", "fresh"}
          /\ status' = "SignedIn"
      BY <1>2, <1>6 DEF SessionOK
    <3> QED
      BY <1>6, <1>a, <2>1, <3>1, Recovered DEF Waits
  <2>3. SocketOK' /\ PushReturns'
    BY <1>1, <1>3, <1>6, <2>1 DEF IInv, PushReturns, Probing, InFlight, socket
  <2> QED
    BY <2>1, <2>2, <2>3 DEF IInv
<1> QED
  BY <1>4, <1>5, <1>6 DEF RefreshDone

-----------------------------------------------------------------------------
(* The push socket *)

\* A request that is not of a match, sent with the match and the join as they are.
LEMMA SendBeside ==
  ASSUME IInv, NEW c \in Context, c.match = match, c.join = join, c.assigned = FALSE,
         NEW kind \in Kind \ MatchKind, Send(requests, kind, c)
  PROVE  Outcome(c, requests \cup {NewRequest(kind)})
<1>1. Held(c) = match
  BY DEF Held
<1>2. WithOne(c, requests, kind)
  <2>1. ASSUME NEW a \in Request, a.kind = kind
        PROVE  Named(match, join, requests \cup {a})
    BY <2>1, NamedMore DEF IInv
  <2> QED
    BY <1>1, <2>1 DEF WithOne
<1> QED
  BY <1>2, SendOutcome DEF IInv

LEMMA ProbeSent ==
  ASSUME NEW c, NEW R, Outcome(c, R \cup {NewRequest("probe")})
  PROVE  timer' \/ InFlight("probe")'
<1>0. NewRequest("probe").kind = "probe"
  BY DEF NewRequest
<1>1. Probing(R \cup {NewRequest("probe")})
  BY <1>0 DEF Probing
<1> QED
  BY <1>1 DEF Outcome, Probing, InFlight

\* A step of the push socket alone.
LEMMA PushAlone ==
  ASSUME IInv, UNCHANGED <<session, requests, join, match>>, SocketOK', PushReturns'
  PROVE  IInv'
<1>1. SessionOK' /\ RequestsOK(requests') /\ Waits(requests)' /\ Named(match', join', requests')
  BY DEF IInv, SessionOK, RequestsOK, Waits, session
<1> QED
  BY <1>1 DEF IInv

LEMMA PushKeeps ==
  ASSUME IInv, Push
  PROVE  IInv'
<1>1. CASE PushOpened
  <2>1. SocketOK' /\ PushReturns'
    BY <1>1 DEF PushOpened, IInv, SocketOK, PushReturns
  <2> QED
    BY <1>1, <2>1, PushAlone DEF PushOpened
<1>2. CASE PushFailed
  <2>1. push' = "Disconnected" /\ drops' = drops - 1 /\ drops > 0 /\ replaced' = replaced
    BY <1>2 DEF PushFailed
  <2>2. CASE refused' = TRUE /\ Send(requests, "probe", There)
    <3>1. Outcome(There, requests \cup {NewRequest("probe")})
      BY <2>2, SendBeside, ThereIs DEF Kind, MatchKind
    <3>2. timer' \/ InFlight("probe")'
      BY <3>1, ProbeSent
    <3>3. SocketOK' /\ PushReturns'
      BY <2>1, <2>2, <3>1, <3>2, OnlineAssumption DEF IInv, SocketOK, Outcome, PushReturns
    <3> QED
      BY <3>1, <3>3 DEF IInv, Outcome
  <2>3. CASE timer' = TRUE /\ UNCHANGED <<session, requests, refused, join, match>>
    <3>1. SocketOK' /\ PushReturns'
      BY <2>1, <2>3, OnlineAssumption DEF IInv, SocketOK, PushReturns
    <3> QED
      BY <2>3, <3>1, PushAlone
  <2> QED
    BY <1>2, <2>2, <2>3 DEF PushFailed
<1>3. CASE PushClosed
  <2>1. push' = "Replaced" \/ timer' = TRUE
    BY <1>3 DEF PushClosed
  <2>2. /\ push' \in {"Replaced", "Disconnected"} /\ timer' \in BOOLEAN /\ replaced' \in BOOLEAN
        /\ drops' = drops - 1 /\ drops > 0 /\ refused' = refused
    BY <1>3 DEF PushClosed, IInv, SocketOK
  <2>3. drops' \in 0..MaxDrops /\ refused' \in BOOLEAN
    BY <2>2, OnlineAssumption DEF IInv, SocketOK
  <2>4. SocketOK' /\ PushReturns'
    BY <2>1, <2>2, <2>3 DEF SocketOK, PushReturns
  <2> QED
    BY <1>3, <2>4, PushAlone DEF PushClosed
<1>4. CASE MinuteOver
  <2>1. SocketOK' /\ PushReturns'
    BY <1>4 DEF MinuteOver, IInv, SocketOK, PushReturns, session, InFlight
  <2> QED
    BY <1>4, <2>1, PushAlone DEF MinuteOver
<1>5. CASE Reconnect
  <2>1. UNCHANGED <<refused, replaced, drops>>
    BY <1>5 DEF Reconnect
  <2>2. CASE status = "SignedIn" /\ ~recovering
    <3>1. push' = (IF push = "Disconnected" THEN "Connecting" ELSE push) /\ timer' = FALSE
          /\ UNCHANGED <<session, requests, join, match>>
      BY <1>5, <2>2 DEF Reconnect
    <3>2. SocketOK' /\ PushReturns'
      BY <2>1, <3>1 DEF IInv, SocketOK, PushReturns
    <3> QED
      BY <3>1, <3>2, PushAlone
  <2>3. CASE ~(status = "SignedIn" /\ ~recovering)
    <3> DEFINE c == [There EXCEPT !.timer = FALSE]
    <3>1. Send(requests, "probe", c) /\ push' = push
      BY <1>5, <2>3 DEF Reconnect
    <3>2. c \in Context /\ c.match = match /\ c.join = join /\ c.assigned = FALSE
      BY ThereIs DEF Context
    <3> HIDE DEF c
    <3>3. Outcome(c, requests \cup {NewRequest("probe")})
      BY <3>1, <3>2, SendBeside DEF Kind, MatchKind
    <3>4. timer' \/ InFlight("probe")'
      BY <3>3, ProbeSent
    <3>5. SocketOK' /\ PushReturns'
      BY <2>1, <3>1, <3>3, <3>4 DEF IInv, SocketOK, Outcome, PushReturns
    <3> QED
      BY <3>3, <3>5 DEF IInv, Outcome
  <2> QED
    BY <2>2, <2>3
<1> QED
  BY <1>1, <1>2, <1>3, <1>4, <1>5 DEF Push

-----------------------------------------------------------------------------
(* The join and the match *)

\* While a HELLO is out nothing else of the match's is under way.
LEMMA HelloAlone ==
  ASSUME IInv, join.at = "hello"
  PROVE  /\ \A r \in requests : r.kind \notin MatchKind
         /\ match \in Match /\ join \in Join /\ match.state = "Join" /\ match.request = TRUE
         /\ match.fails < JoinFailures
<1>1. Named(match, join, requests)
  BY DEF IInv
<1>2. \A r \in requests : r.kind \notin MatchKind
  BY <1>1 DEF Named, MatchKind
<1>3. match \in Match /\ join \in Join /\ match.state = "Join" /\ match.request = TRUE
  BY <1>1 DEF Named, Match
<1>4. match.fails # JoinFailures
  BY <1>1, <1>3 DEF Named
<1> QED
  BY <1>2, <1>3, <1>4, MatchAssumption DEF Match

LEMMA NoJoinIs == NoJoin \in Join /\ NoJoin.at = "none" /\ NoJoin.attempt = 0
  BY OnlineAssumption DEF NoJoin, Join

\* The match and the join once the join has failed.
LEMMA JoinOver ==
  ASSUME IInv, join.at = "hello", Settle(Failed(There, {"join"}))
  PROVE  timer' = timer /\ timer' \in BOOLEAN /\ Named(match', join', requests)
<1> DEFINE F == Failed(There, {"join"})
<1>0. /\ F.timer = (There.timer \/ "probe" \in {"join"}) /\ F.assigned = There.assigned
      /\ F.join = NoJoin /\ F.match = JoinFailed(There.match)
  BY ThereIs, FailedIs
<1>1. F.timer = timer /\ F.join = NoJoin /\ F.match = JoinFailed(match) /\ F.assigned = FALSE
  <2>1. F.timer = timer
    BY <1>0, ThereIs DEF IInv, SocketOK
  <2>2. F.match = JoinFailed(match)
    BY <1>0, ThereIs
  <2> QED
    BY <1>0, <2>1, <2>2, ThereIs
<1>2. /\ F.match \in Match /\ F.match.state \in {"Done", "Wait"}
      /\ F.match.fails = JoinFailures => F.match.state = "Done"
  BY <1>1, HelloAlone, JoinFailureIs
<1>3. F.match = Held(F) /\ match' = Held(F) /\ join' = F.join /\ timer' = F.timer
  BY <1>1, SettleIs DEF Held
<1> HIDE DEF F
<1>4. Named(F.match, F.join, requests)
  BY <1>1, <1>2, HelloAlone, NoJoinIs, NamedIdle
<1> QED
  BY <1>1, <1>3, <1>4 DEF IInv, SocketOK

LEMMA HelloReplyKeeps ==
  ASSUME IInv, HelloReply
  PROVE  IInv'
<1> DEFINE d == [There EXCEPT !.join = NoJoin]
           m == Joined(match)
           e == [d EXCEPT !.match = m]
<1>1. join.at = "hello" /\ UNCHANGED <<session, requests, socket>>
  BY DEF HelloReply
<1>2. m \in Match /\ m.state = "Play" /\ m.fails = match.fails
  BY <1>1, HelloAlone, AnsweredIs DEF Joined, State
<1>3. d \in Context /\ d.match = match /\ d.join = NoJoin /\ d.timer = timer /\ d.assigned = FALSE
  BY ThereIs, NoJoinIs, ContextJoin
<1>4. Settle(e) \/ Settle(Failed(There, {"join"}))
  BY <1>3 DEF HelloReply
<1> HIDE DEF m, d
<1>5. e \in Context /\ e.match = m /\ e.join = NoJoin /\ e.timer = timer /\ e.assigned = FALSE
  BY <1>2, <1>3, ContextMatch
<1> HIDE DEF e
<1>6. CASE Settle(e)
  <2>1. Held(e) = m
    BY <1>5 DEF Held
  <2>2. m.fails # JoinFailures
    BY <1>1, <1>2, HelloAlone, MatchAssumption DEF Match
  <2>3. Named(m, NoJoin, requests)
    BY <1>1, <1>2, <2>2, HelloAlone, NoJoinIs, NamedIdle
  <2>4. timer' = timer /\ timer' \in BOOLEAN /\ Named(match', join', requests)
    BY <1>5, <1>6, <2>1, <2>3, SettleNamed
  <2> QED
    BY <1>1, <2>4, Quiet
<1>7. CASE Settle(Failed(There, {"join"}))
  <2>1. timer' = timer /\ timer' \in BOOLEAN /\ Named(match', join', requests)
    BY <1>1, <1>7, JoinOver
  <2> QED
    BY <1>1, <2>1, Quiet
<1> QED
  BY <1>4, <1>6, <1>7

LEMMA HelloSilentKeeps ==
  ASSUME IInv, HelloSilent
  PROVE  IInv'
<1>1. join.at = "hello" /\ UNCHANGED socket
  BY DEF HelloSilent
<1>2. CASE join.attempt < JoinAttempts
  <2> DEFINE j == [join EXCEPT !.at = "read"]
             c == [There EXCEPT !.join = j]
  <2>1. j \in Join /\ j.at = "read" /\ j.attempt < JoinAttempts
    BY <1>1, <1>2, HelloAlone DEF Join
  <2>2. Send(requests, "join", c)
    BY <1>2, ThereIs DEF HelloSilent
  <2> HIDE DEF j
  <2>3. c \in Context /\ c.match = match /\ c.join = j /\ c.timer = timer /\ c.assigned = FALSE
    BY <2>1, ThereIs, ContextJoin
  <2> HIDE DEF c
  <2>4. Held(c) = match
    BY <2>3 DEF Held
  <2>5. WithOne(c, requests, "join")
    <3>1. ASSUME NEW a \in Request, a.kind = "join"
          PROVE  Named(match, j, requests \cup {a})
      BY <1>1, <2>1, <3>1, HelloAlone, NamedJoins
    <3> QED
      BY <2>3, <2>4, <3>1 DEF WithOne
  <2>6. Outcome(c, requests \cup {NewRequest("join")})
    BY <2>2, <2>3, <2>5, SendOutcome DEF IInv, Kind
  <2>7. Probing(requests) => Probing(requests \cup {NewRequest("join")})
    BY DEF Probing
  <2> QED
    BY <1>1, <2>3, <2>6, <2>7, Outcomes
<1>3. CASE ~(join.attempt < JoinAttempts)
  <2>1. Settle(Failed(There, {"join"})) /\ UNCHANGED <<session, requests>>
    BY <1>3 DEF HelloSilent
  <2>2. timer' = timer /\ timer' \in BOOLEAN /\ Named(match', join', requests)
    BY <1>1, <2>1, JoinOver
  <2> QED
    BY <1>1, <2>1, <2>2, Quiet
<1> QED
  BY <1>2, <1>3

\* A match without a request has nothing under way, and is not joining.
LEMMA Unasked ==
  ASSUME IInv, ~match.request
  PROVE  /\ \A r \in requests : r.kind \notin MatchKind
         /\ match \in Match /\ join \in Join /\ join.at = "none" /\ join.attempt = 0
         /\ match.state # "Join"
<1>1. Named(match, join, requests)
  BY DEF IInv
<1> QED
  BY <1>1 DEF Named, MatchKind

\* A request of the match, when it has none.
LEMMA Asks ==
  ASSUME IInv, ~match.request, NEW kind \in {"queue", "ticket"},
         NEW m \in Match, m.state \notin {"Join", "Gone", "Done"}, m.fails = match.fails,
         match.fails # JoinFailures,
         NEW c \in Context, c.match = m, c.join = join, c.timer = timer, c.assigned = TRUE,
         Send(requests, kind, c), UNCHANGED socket
  PROVE  IInv'
<1>1. Held(c) \in Match /\ Held(c).request = TRUE /\ Held(c).state = m.state /\ Held(c).fails = match.fails
  BY HeldIs
<1>2. match.fails < JoinFailures
  BY MatchAssumption DEF Match
<1>3. WithOne(c, requests, kind)
  <2>1. ASSUME NEW a \in Request, a.kind = kind
        PROVE  Named(Held(c), c.join, requests \cup {a})
    BY <1>1, <1>2, <2>1, Unasked, NamedAsks
  <2> QED
    BY <2>1 DEF WithOne
<1>4. Outcome(c, requests \cup {NewRequest(kind)})
  BY <1>3, SendOutcome DEF IInv, Kind
<1>5. Probing(requests) => Probing(requests \cup {NewRequest(kind)})
  BY DEF Probing
<1> QED
  BY <1>4, <1>5, Outcomes

LEMMA TryingIs ==
  ASSUME NEW m \in Match
  PROVE  Trying(m) \in Match /\ Trying(m).state = m.state /\ Trying(m).fails = m.fails
         /\ Trying(m).request = m.request
  BY MatchAssumption DEF Trying, Match

LEMMA SendQueueKeeps ==
  ASSUME IInv, SendQueue
  PROVE  IInv'
<1> DEFINE m == Trying(match)
           d == [There EXCEPT !.match = m]
           c == [d EXCEPT !.assigned = TRUE]
<1>1. match.state = "Queue" /\ ~match.request /\ UNCHANGED socket /\ Send(requests, "queue", c)
  BY ThereIs DEF SendQueue
<1>2. match.fails # JoinFailures
  BY <1>1 DEF IInv, Named
<1>3. m \in Match /\ m.state = "Queue" /\ m.fails = match.fails
  BY <1>1, Unasked, TryingIs
<1> HIDE DEF m
<1>4. d \in Context /\ d.match = m /\ d.join = join /\ d.timer = timer
  BY <1>3, ThereIs, ContextMatch
<1> HIDE DEF d
<1>5. c \in Context /\ c.match = m /\ c.join = join /\ c.timer = timer /\ c.assigned = TRUE
  BY <1>4, ContextAssigned
<1> HIDE DEF c
<1> QED
  BY <1>1, <1>2, <1>3, <1>5, Asks

LEMMA ReadTicketKeeps ==
  ASSUME IInv, ReadTicket
  PROVE  IInv'
<1> DEFINE c == [There EXCEPT !.assigned = TRUE]
<1>1. /\ match.state \in {"Wait", "Result"} /\ ~match.request /\ UNCHANGED socket
      /\ Send(requests, "ticket", c)
  BY DEF ReadTicket
<1>2. match.fails # JoinFailures /\ match \in Match
  BY <1>1 DEF IInv, Named
<1>3. c \in Context /\ c.match = match /\ c.join = join /\ c.timer = timer /\ c.assigned = TRUE
  BY ThereIs, ContextAssigned
<1> HIDE DEF c
<1> QED
  BY <1>1, <1>2, <1>3, Asks

\* Another state, neither the beginning nor the end of a join, nor the match gone.
LEMMA NamedMoves ==
  ASSUME NEW m, NEW j, NEW R, NEW s \in {"Playing", "Result", "Done"}, Named(m, j, R),
         m.state \in {"Play", "Playing", "Result"}
  PROVE  Named([m EXCEPT !.state = s], j, R)
<1> DEFINE n == [m EXCEPT !.state = s]
<1>1. n \in Match /\ n.state = s /\ n.request = m.request /\ n.fails = m.fails
  BY DEF Named, Match, State
<1> HIDE DEF n
<1>2. Named(n, j, R)
  BY <1>1 DEF Named
<1> QED
  BY <1>2 DEF n

LEMMA MatchFrameKeeps ==
  ASSUME IInv, MatchFrame
  PROVE  IInv'
<1>1. UNCHANGED <<session, requests, socket, timer, join>>
  BY DEF MatchFrame
<1>2. \E s \in {"Playing", "Result", "Done"} :
        match' = [match EXCEPT !.state = s] /\ match.state \in {"Play", "Playing", "Result"}
  BY DEF MatchFrame
<1>3. PICK s \in {"Playing", "Result", "Done"} :
        match' = [match EXCEPT !.state = s] /\ match.state \in {"Play", "Playing", "Result"}
  BY <1>2
<1>4. Named(match, join, requests)
  BY DEF IInv
<1>5. Named([match EXCEPT !.state = s], join, requests)
  BY <1>3, <1>4, NamedMoves
<1>6. Named(match', join', requests')
  BY <1>1, <1>3, <1>5
<1> QED
  BY <1>1, <1>6, Quiet DEF IInv, SocketOK

LEMMA DestroyMatchKeeps ==
  ASSUME IInv, DestroyMatch
  PROVE  IInv'
<1>1. match' = Answered(match, "Gone") /\ UNCHANGED <<session, socket, timer>>
  BY DEF DestroyMatch
<1>2. match' \in Match /\ match'.state = "Gone" /\ match'.request = FALSE
  BY <1>1, AnsweredIs DEF IInv, Named, State
<1>3. /\ requests' \subseteq requests /\ \A r \in requests' : r.kind \notin MatchKind
      /\ join' \in Join /\ join'.at = "none" /\ join'.attempt = 0
  <2>1. CASE match.request
    <3>1. requests' = requests \ Cancelled /\ join' = NoJoin
      BY <2>1 DEF DestroyMatch
    <3>2. \A r \in requests : r.kind \in MatchKind => r \in Cancelled
      <4>1. CASE join.at = "none"
        <5>1. join = NoJoin
          BY <4>1 DEF IInv, Named, Join, NoJoin
        <5>2. \A r \in requests : r.kind # "join"
          BY <4>1 DEF IInv, Named
        <5> QED
          BY <5>1, <5>2 DEF Cancelled, MatchKind
      <4>2. CASE join.at # "none"
        <5>1. join # NoJoin
          BY <4>2, NoJoinIs
        <5>2. \A r \in requests : r.kind \notin {"queue", "ticket"}
          BY <4>2 DEF IInv, Named
        <5> QED
          BY <5>1, <5>2 DEF Cancelled, MatchKind
      <4> QED
        BY <4>1, <4>2
    <3> QED
      BY <3>1, <3>2, NoJoinIs
  <2>2. CASE ~match.request
    BY <2>2, Unasked DEF DestroyMatch
  <2> QED
    BY <2>1, <2>2
<1>4. Named(match', join', requests')
  BY <1>2, <1>3, NamedIdle
<1>5. Probing(requests) => Probing(requests')
  <2>1. \A r \in requests : r.kind = "probe" => r \in requests'
    BY DEF DestroyMatch, Cancelled
  <2> QED
    BY <2>1 DEF Probing
<1> QED
  BY <1>1, <1>3, <1>4, <1>5, Quiet DEF IInv, SocketOK

LEMMA SendScriptKeeps ==
  ASSUME IInv, NEW kind \in Script, SendScript(kind)
  PROVE  IInv'
<1>1. kind \in Kind \ MatchKind
  BY OnlineAssumption DEF Kind, MatchKind
<1>2. Outcome(There, requests \cup {NewRequest(kind)})
  BY <1>1, ThereIs, SendBeside DEF SendScript
<1>3. Probing(requests) => Probing(requests \cup {NewRequest(kind)})
  BY DEF Probing
<1> QED
  BY <1>2, <1>3, ThereIs, Outcomes DEF SendScript

LEMMA CancelScriptKeeps ==
  ASSUME IInv, NEW kind \in Script, CancelScript(kind)
  PROVE  IInv'
<1>1. /\ requests' = {r \in requests : r.kind # kind}
      /\ UNCHANGED <<session, socket, timer, join, match>>
  BY DEF CancelScript
<1>2. kind \notin MatchKind /\ kind # "probe"
  BY OnlineAssumption DEF MatchKind
<1>3. Named(match', join', requests')
  BY <1>1, <1>2, NamedLess DEF IInv
<1>4. Probing(requests) => Probing(requests')
  BY <1>1, <1>2 DEF Probing
<1> QED
  BY <1>1, <1>3, <1>4, Quiet DEF IInv, SocketOK

LEMMA BackoffOverKeeps ==
  ASSUME IInv, BackoffOver
  PROVE  IInv'
<1>1. backoff' = FALSE /\ UNCHANGED <<status, refresh, recovering, calls, reused, requests>>
      /\ UNCHANGED <<socket, timer, join, match>>
  BY DEF BackoffOver
<1>2. SessionOK'
  BY <1>1 DEF IInv, SessionOK
<1>3. RequestsOK(requests') /\ Waits(requests)' /\ Named(match', join', requests')
  BY <1>1 DEF IInv, Waits
<1>4. SocketOK' /\ PushReturns'
  BY <1>1 DEF IInv, SocketOK, PushReturns, InFlight, socket
<1> QED
  BY <1>2, <1>3, <1>4 DEF IInv

-----------------------------------------------------------------------------
(* The invariant *)

LEMMA InitIInv == Init => IInv
<1> SUFFICES ASSUME Init PROVE IInv
  OBVIOUS
<1>1. NewMatch \in Match /\ NewMatch.state = "Queue" /\ NewMatch.fails = 0
  BY MatchAssumption DEF NewMatch, Match, State
<1>2. /\ Answered(NewMatch, "Gone") \in Match /\ Answered(NewMatch, "Gone").state = "Gone"
      /\ Answered(NewMatch, "Gone").request = FALSE /\ Answered(NewMatch, "Gone").fails = 0
  BY <1>1, AnsweredIs DEF State
<1>3. /\ match \in Match /\ match.state \in {"Queue", "Gone"} /\ match.fails = 0
      /\ match.state = "Gone" => ~match.request
  BY <1>1, <1>2 DEF Init
<1>4. Named(match, join, requests)
  BY <1>3, NoJoinIs, NamedIdle, MatchAssumption DEF Init
<1>5. SessionOK
  <2>1. /\ status = "SigningIn" /\ refresh = "none" /\ recovering = TRUE /\ backoff = FALSE
        /\ reused = FALSE /\ calls = [signin |-> 1, refresh |-> 0]
    BY DEF Init
  <2>2. calls \in [signin : Nat, refresh : Nat] /\ calls.signin = 1 /\ calls.refresh = 0
    BY <2>1
  <2>3. calls.signin + calls.refresh = IF recovering THEN 1 ELSE 0
    BY <2>1, <2>2
  <2>4. /\ refresh # "none" /\ ~recovering => status = "SignedIn"
        /\ calls.refresh = 1 => status = "SignedIn"
    BY <2>1, <2>2
  <2>5. /\ status \in {"Offline", "SigningIn", "SignedIn"} /\ refresh \in {"none", "fresh"}
        /\ recovering \in BOOLEAN /\ backoff \in BOOLEAN
    BY <2>1
  <2> QED
    BY <2>1, <2>2, <2>3, <2>4, <2>5 DEF SessionOK
<1>6. RequestsOK(requests) /\ Waits(requests) /\ SocketOK /\ PushReturns
  BY DEF Init, RequestsOK, Waits, SocketOK, PushReturns
<1> QED
  BY <1>4, <1>5, <1>6 DEF IInv

LEMMA StepIInv == IInv /\ [Next]_vars => IInv'
<1> SUFFICES ASSUME IInv, [Next]_vars PROVE IInv'
  OBVIOUS
<1>1. CASE UNCHANGED vars
  <2>1. UNCHANGED session /\ UNCHANGED socket /\ UNCHANGED <<requests, timer, join, match>>
    BY <1>1 DEF vars
  <2>2. Named(match', join', requests')
    BY <2>1 DEF IInv
  <2>3. Probing(requests) => Probing(requests')
    BY <2>1
  <2>4. requests' = requests /\ timer' = timer /\ timer \in BOOLEAN
    BY <2>1 DEF IInv, SocketOK
  <2> QED
    BY <2>1, <2>2, <2>3, <2>4, Quiet
<1>2. CASE Next
  BY <1>2, AnswerKeeps, SignInDoneKeeps, RefreshDoneKeeps, PushKeeps, HelloReplyKeeps,
     HelloSilentKeeps, SendQueueKeeps, ReadTicketKeeps, MatchFrameKeeps, DestroyMatchKeeps,
     SendScriptKeeps, CancelScriptKeeps, BackoffOverKeeps DEF Next
<1> QED
  BY <1>1, <1>2

\* In every reachable state the strengthened invariant holds.
THEOREM Invariance == Spec => []IInv
<1>1. Init => IInv
  BY InitIInv
<1>2. IInv /\ [Next]_vars => IInv'
  BY StepIInv
<1> QED
  BY <1>1, <1>2, PTL DEF Spec

\* The session, its requests, the push socket and the match keep their types.
THEOREM TypeCorrect == Spec => []TypeOK
<1>1. IInv => TypeOK
  <2> SUFFICES ASSUME IInv PROVE TypeOK
    OBVIOUS
  <2>1. /\ status \in {"Offline", "SigningIn", "SignedIn"} /\ refresh \in {"none", "fresh", "used"}
        /\ recovering \in BOOLEAN /\ backoff \in BOOLEAN /\ reused \in BOOLEAN
        /\ calls \in [signin : Nat, refresh : Nat]
    BY DEF IInv, SessionOK
  <2>2. requests \subseteq Request
    BY DEF IInv, RequestsOK
  <2>3. match \in Match /\ join \in Join
    BY DEF IInv, Named
  <2>4. SocketOK
    BY DEF IInv
  <2> QED
    BY <2>1, <2>2, <2>3, <2>4 DEF TypeOK, SocketOK, Request, Join
<1> QED
  BY <1>1, Invariance, PTL

\* Never more than one sign-in or refresh is in flight, and no request waits when
\* there is none.
THEOREM NobodyWaitsForNothing == Spec => []OneRecovery
<1>1. IInv => OneRecovery
  BY DEF IInv, SessionOK, Waits, OneRecovery
<1> QED
  BY <1>1, Invariance, PTL

\* BeginRefresh never sends the same refresh token twice.
THEOREM TokenSentOnce == Spec => []RefreshTokenOnce
<1>1. IInv => RefreshTokenOnce
  BY DEF IInv, SessionOK, RefreshTokenOnce
<1> QED
  BY <1>1, Invariance, PTL

\* A request that was refused is tried again with a newer session than the one refused.
THEOREM RetriedFresh == Spec => []RetryIsFresh
<1>1. IInv => RetryIsFresh
  BY DEF IInv, RequestsOK, RetryIsFresh
<1> QED
  BY <1>1, Invariance, PTL

\* The id the match keeps names all it has under way, so its destructor cancels it.
THEOREM NothingOutlivesTheMatch == Spec => []CancelReaches
<1>1. IInv => CancelReaches
  <2> SUFFICES ASSUME IInv PROVE CancelReaches
    OBVIOUS
  <2>1. Named(match, join, requests)
    BY DEF IInv
  <2>2. join # NoJoin <=> join.at # "none"
    BY <2>1 DEF Named, Join, NoJoin
  <2> QED
    BY <2>1, <2>2 DEF CancelReaches, Named, InFlight
<1> QED
  BY <1>1, Invariance, PTL

\* While signed in, a closed push socket has a reconnect coming: a timer or a probe.
THEOREM PushComesBack == Spec => []PushReturns
<1>1. IInv => PushReturns
  BY DEF IInv
<1> QED
  BY <1>1, Invariance, PTL
=============================================================================
