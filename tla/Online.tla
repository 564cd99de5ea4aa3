------------------------------- MODULE Online -------------------------------
(***************************************************************************)
(* The online session (Online/OnlineSession.cpp): requests that share one  *)
(* session with the backend, its sign-in and token refresh, the push       *)
(* socket, and the join of a match; with the RuntimeMatch that uses it.    *)
(*                                                                         *)
(* Everything runs on the main thread, between two arrivals from the       *)
(* network; a completion may call Send again before its caller goes on.    *)
(* A request is known by who made it: "queue", "ticket" and "join" are the *)
(* match's, "probe" the push socket's, "profile" the sign-in's, the others *)
(* scripts'.  Two requests of one kind in the same state are one.  The     *)
(* clocks are not counted: a backoff, a timer or a minute may be over at   *)
(* any moment.                                                             *)
(***************************************************************************)
EXTENDS RuntimeMatch, FiniteSets

CONSTANTS
  Script,         \* requests of scripts
  JoinAttempts,   \* kJoinAttempts: 3
  MaxDrops        \* bound: how often the push socket fails or is closed

Kind == {"queue", "ticket", "join", "probe", "profile"} \cup Script

ASSUME OnlineAssumption ==
  Script \cap {"queue", "ticket", "join", "probe", "profile"} = {} /\ JoinAttempts \in Nat \ {0}
  /\ MaxDrops \in Nat

VARIABLES
  status,      \* Status
  refresh,     \* RefreshToken: "none", "fresh", or "used" were it kept once sent
  recovering,  \* Recovering
  backoff,     \* a sign-in failed within kSignInBackoff
  calls,       \* sign-ins and refreshes under way
  requests,    \* Requests and Waiting
  push,        \* Push
  timer,       \* ReconnectPending
  refused,     \* Upgrade401s > 0
  replaced,    \* Replaced within the last minute
  join,        \* Joins
  match,       \* the RuntimeMatch
  drops,       \* bound: failures and closes of the push socket to come
  reused       \* history: a refresh token was sent twice

session == <<status, refresh, recovering, backoff, calls, reused>>
socket  == <<push, refused, replaced, drops>>
vars    == <<session, requests, socket, timer, join, match>>

NewRequest(kind) == [kind |-> kind, attempts |-> 0, stale |-> FALSE, waiting |-> TRUE]

\* No join, or its Attempt and what it has under way: the ticket's read or a HELLO.
NoJoin == [attempt |-> 0, at |-> "none"]

\* Online::Init has started the sign-in; there is a match with --queue.
Init ==
  /\ status = "SigningIn" /\ refresh = "none" /\ recovering = TRUE /\ backoff = FALSE
  /\ calls = [signin |-> 1, refresh |-> 0] /\ reused = FALSE
  /\ requests = {}
  /\ push = "Disconnected" /\ timer = FALSE /\ refused = FALSE /\ replaced = FALSE
  /\ join = NoJoin
  /\ match \in {NewMatch, Answered(NewMatch, "Gone")}
  /\ drops \in 0..MaxDrops

-----------------------------------------------------------------------------
(* Requests *)

\* What a handler leaves to its callers: the match, the join, the reconnect timer,
\* and whether m_Request is assigned what Send returns, its callback run or not.
There == [match |-> match, join |-> join, timer |-> timer, assigned |-> FALSE]

Settle(c) ==
  /\ match' = IF c.assigned THEN [c.match EXCEPT !.request = TRUE] ELSE c.match
  /\ join' = c.join
  /\ timer' = c.timer

\* Mutant of Failed: a probe that fails is not tried again.
Failed_Quiet(c, kinds) ==
  [c EXCEPT
    !.join  = IF "join" \in kinds THEN NoJoin ELSE @,
    !.match = IF "join" \in kinds THEN JoinFailed(@)
              ELSE IF "queue" \in kinds THEN QueueFailed(@)
              ELSE IF "ticket" \in kinds THEN TicketFailed(@) ELSE @]

\* The completions of requests that fail: a probe schedules a reconnect, a join's
\* read ends the join.
Failed(c, kinds) ==
  [c EXCEPT
    !.timer = @ \/ "probe" \in kinds,
    !.join  = IF "join" \in kinds THEN NoJoin ELSE @,
    !.match = IF "join" \in kinds THEN JoinFailed(@)
              ELSE IF "queue" \in kinds THEN QueueFailed(@)
              ELSE IF "ticket" \in kinds THEN TicketFailed(@) ELSE @]

\* Launch.  `stale`: a newer session than the one of the first attempt was adopted.
Launched(r) == [r EXCEPT !.attempts = @ + 1, !.waiting = FALSE]

FailWaiting(R, c) ==
  LET waiting == {r \in R : r.waiting} IN
  /\ requests' = R \ waiting
  /\ Settle(Failed(c, {r.kind : r \in waiting}))

\* Within the backoff every waiting request fails, inside the call.
BeginSignIn(R, c) ==
  IF backoff
  THEN /\ recovering' = FALSE
       /\ FailWaiting(R, c)
       /\ UNCHANGED <<status, refresh, backoff, calls, reused>>
  ELSE /\ recovering' = TRUE /\ status' = "SigningIn"
       /\ calls' = [calls EXCEPT !.signin = @ + 1]
       /\ requests' = R /\ Settle(c)
       /\ UNCHANGED <<refresh, backoff, reused>>

Parked(R, r) == R \cup {[r EXCEPT !.waiting = TRUE]}

\* Dispatch: sent now, or parked until there is a session.
Dispatch(R, r, c) ==
  CASE recovering ->
         requests' = Parked(R, r) /\ Settle(c) /\ UNCHANGED session
    [] ~recovering /\ status = "SignedIn" ->
         requests' = R \cup {Launched(r)} /\ Settle(c) /\ UNCHANGED session
    [] OTHER -> BeginSignIn(Parked(R, r), c)

Send(R, kind, c) == Dispatch(R, NewRequest(kind), c)

InFlight(kind) == \E r \in requests : r.kind = kind

\* ConnectPush: opens the socket of a session that has none.
ConnectPush ==
  IF push = "Disconnected" /\ status' = "SignedIn"
  THEN push' = "Connecting" /\ timer' = FALSE
  ELSE UNCHANGED <<push, timer>>

-----------------------------------------------------------------------------
(* The answer to an attempt *)

\* Any failure but a first 401 completes the request.
AnswerFailed(r) ==
  /\ requests' = requests \ {r}
  /\ Settle(Failed(There, {r.kind}))
  /\ UNCHANGED <<session, socket>>

\* Success, by whose request it is.
AnswerOther(r) ==
  /\ r.kind \in Script \cup {"profile"}
  /\ requests' = requests \ {r}
  /\ UNCHANGED <<session, socket, timer, join, match>>

AnswerProbe(r) ==
  /\ r.kind = "probe"
  /\ requests' = requests \ {r}
  /\ UNCHANGED <<session, refused, replaced, drops, join, match>>
  /\ ConnectPush

AnswerQueue(r) ==
  /\ r.kind = "queue"
  /\ requests' = requests \ {r}
  /\ Settle([There EXCEPT !.match = Queued(@)])
  /\ UNCHANGED <<session, socket>>

\* A ready ticket joins from inside the callback.
AnswerTicket(r, ticket) ==
  LET m == OnTicket(match, ticket)
      c == [There EXCEPT !.match = m]
  IN
  /\ r.kind = "ticket"
  /\ IF m.state = "Join"
     THEN Send(requests \ {r}, "join",
               [c EXCEPT !.join = [attempt |-> 0, at |-> "read"], !.assigned = TRUE])
     ELSE requests' = requests \ {r} /\ Settle(c) /\ UNCHANGED session
  /\ UNCHANGED socket

\* OnJoinTicket: a HELLO with the token that was read, or no match to join.
AnswerJoin(r) ==
  /\ r.kind = "join"
  /\ requests' = requests \ {r}
  /\ \/ Settle([There EXCEPT !.join = [attempt |-> @.attempt + 1, at |-> "hello"]])
     \/ Settle(Failed(There, {"join"}))
  /\ UNCHANGED <<session, socket>>

\* Mutant of BeginRefresh: the refresh token is kept until there is an answer.
BeginRefresh_Keeps ==
  /\ recovering' = TRUE
  /\ calls' = [calls EXCEPT !.refresh = @ + 1]
  /\ reused' = (reused \/ refresh = "used")
  /\ refresh' = "used"
  /\ UNCHANGED <<status, backoff>>

\* The refresh token is dropped as it is sent.
BeginRefresh ==
  /\ recovering' = TRUE
  /\ calls' = [calls EXCEPT !.refresh = @ + 1]
  /\ reused' = (reused \/ refresh = "used")
  /\ refresh' = "none"
  /\ UNCHANGED <<status, backoff>>

\* Mutant of Unauthorized: every first 401 starts a recovery.
Unauthorized_Each(r, expired) ==
  LET others == requests \ {r} IN
  /\ r.attempts = 1
  /\ IF expired /\ refresh # "none"
     THEN requests' = Parked(others, r) /\ Settle(There) /\ BeginRefresh
     ELSE BeginSignIn(Parked(others, r), There)
  /\ UNCHANGED socket

\* A first 401: retried with the token that came since, or after the recovery this
\* request waits for, or starts.
Unauthorized(r, expired) ==
  LET others == requests \ {r} IN
  /\ r.attempts = 1
  /\ CASE r.stale -> Dispatch(others, r, There)
       [] ~r.stale /\ recovering ->
            requests' = Parked(others, r) /\ Settle(There) /\ UNCHANGED session
       [] ~r.stale /\ ~recovering /\ expired /\ refresh # "none" ->
            requests' = Parked(others, r) /\ Settle(There) /\ BeginRefresh
       [] OTHER -> BeginSignIn(Parked(others, r), There)
  /\ UNCHANGED socket

\* Any attempt of a kind is answered, for the transport gives up after a time.
Answer(kind) ==
  \E r \in requests :
    /\ r.kind = kind /\ ~r.waiting
    /\ \/ AnswerFailed(r) \/ AnswerOther(r) \/ AnswerProbe(r) \/ AnswerQueue(r) \/ AnswerJoin(r)
       \/ \E ticket \in {"none", "open", "ready", "over"} : AnswerTicket(r, ticket)
       \/ \E expired \in BOOLEAN : Unauthorized(r, expired)

-----------------------------------------------------------------------------
(* Sign-in and refresh *)

\* AdoptSession
Adopt ==
  /\ status' = "SignedIn" /\ refresh' = "fresh" /\ recovering' = FALSE
  /\ UNCHANGED reused

\* ResumeWaiting, once a session was adopted.
Resumed ==
  LET since(r) == [r EXCEPT !.stale = r.attempts = 1 \/ @]
  IN  {IF r.waiting THEN Launched(since(r)) ELSE since(r) : r \in requests}

SignInDone ==
  /\ calls.signin > 0
  /\ calls' = [calls EXCEPT !.signin = @ - 1]
  /\ \/ /\ Adopt /\ backoff' = FALSE
        /\ requests' = Resumed \cup {Launched(NewRequest("profile"))}
        /\ ConnectPush
        /\ UNCHANGED <<join, match>>
     \/ /\ status' = "Offline" /\ refresh' = "none" /\ recovering' = FALSE /\ backoff' = TRUE
        /\ FailWaiting(requests, There)
        /\ UNCHANGED <<push, reused>>
  /\ UNCHANGED <<refused, replaced, drops>>

\* Mutant of RefreshDone: without an answer the waiting are sent with the old token.
RefreshDone_Resumes ==
  /\ calls.refresh > 0
  /\ calls' = [calls EXCEPT !.refresh = @ - 1]
  /\ \/ Adopt /\ requests' = Resumed
     \/ /\ recovering' = FALSE
        /\ requests' = {IF r.waiting THEN Launched(r) ELSE r : r \in requests}
        /\ UNCHANGED <<status, refresh, reused>>
  /\ UNCHANGED <<backoff, socket, timer, join, match>>

\* Mutant of RefreshDone: without an answer the waiting go on waiting.
RefreshDone_Forgets ==
  /\ calls.refresh > 0
  /\ calls' = [calls EXCEPT !.refresh = @ - 1]
  /\ \/ Adopt /\ requests' = Resumed
     \/ recovering' = FALSE /\ UNCHANGED <<status, refresh, reused, requests>>
  /\ UNCHANGED <<backoff, socket, timer, join, match>>

\* A session; a refusal, and a sign-in at once; or no answer, and the old token stays.
\* A refusal within the backoff would end like no answer.
RefreshDone ==
  /\ calls.refresh > 0
  /\ \/ /\ Adopt /\ calls' = [calls EXCEPT !.refresh = @ - 1]
        /\ requests' = Resumed
        /\ UNCHANGED <<backoff, timer, join, match>>
     \/ /\ ~backoff
        /\ recovering' = TRUE /\ status' = "SigningIn"
        /\ calls' = [signin |-> calls.signin + 1, refresh |-> calls.refresh - 1]
        /\ UNCHANGED <<refresh, backoff, reused, requests, timer, join, match>>
     \/ /\ recovering' = FALSE
        /\ calls' = [calls EXCEPT !.refresh = @ - 1]
        /\ FailWaiting(requests, There)
        /\ UNCHANGED <<status, refresh, backoff, reused>>
  /\ UNCHANGED socket

BackoffOver ==
  /\ backoff /\ backoff' = FALSE
  /\ UNCHANGED <<status, refresh, recovering, calls, reused, requests, socket, timer, join, match>>

-----------------------------------------------------------------------------
(* The push socket *)

PushOpened ==
  /\ push = "Connecting"
  /\ push' = "Connected" /\ refused' = FALSE
  /\ UNCHANGED <<session, requests, replaced, drops, timer, join, match>>

\* A first 401 recovers the session through a probe; anything else backs off.
PushFailed ==
  /\ push = "Connecting" /\ drops > 0
  /\ push' = "Disconnected" /\ drops' = drops - 1
  /\ \/ ~refused /\ refused' = TRUE /\ Send(requests, "probe", There)
     \/ timer' = TRUE /\ UNCHANGED <<session, requests, refused, join, match>>
  /\ UNCHANGED replaced

\* 4001 twice within a minute is final; after any other close the timer is set.
PushClosed ==
  /\ push = "Connected" /\ drops > 0
  /\ drops' = drops - 1
  /\ \/ replaced /\ push' = "Replaced" /\ UNCHANGED <<replaced, timer>>
     \/ push' = "Disconnected" /\ replaced' = TRUE /\ ~replaced /\ timer' = TRUE
     \/ push' = "Disconnected" /\ timer' = TRUE /\ UNCHANGED replaced
  /\ UNCHANGED <<session, requests, refused, join, match>>

MinuteOver ==
  /\ replaced /\ replaced' = FALSE
  /\ UNCHANGED <<session, requests, push, refused, drops, timer, join, match>>

\* OnUpdate: the reconnect is due.
Reconnect ==
  /\ timer
  /\ IF status = "SignedIn" /\ ~recovering
     THEN /\ push' = IF push = "Disconnected" THEN "Connecting" ELSE push
          /\ timer' = FALSE
          /\ UNCHANGED <<session, requests, join, match>>
     ELSE Send(requests, "probe", [There EXCEPT !.timer = FALSE]) /\ UNCHANGED push
  /\ UNCHANGED <<refused, replaced, drops>>

-----------------------------------------------------------------------------
(* The join *)

\* OnHelloReply: WELCOME and a session to begin, or the end of the join.
HelloReply ==
  /\ join.at = "hello"
  /\ \/ Settle([There EXCEPT !.join = NoJoin, !.match = Joined(@)])
     \/ Settle(Failed(There, {"join"}))
  /\ UNCHANGED <<session, requests, socket>>

\* A second without an answer: again, from the ticket's read, for a fresh token.
HelloSilent ==
  /\ join.at = "hello"
  /\ IF join.attempt < JoinAttempts
     THEN Send(requests, "join", [There EXCEPT !.join.at = "read"])
     ELSE Settle(Failed(There, {"join"})) /\ UNCHANGED <<session, requests>>
  /\ UNCHANGED socket

-----------------------------------------------------------------------------
(* The match, once a frame, and scripts *)

SendQueue ==
  /\ match.state = "Queue" /\ ~match.request
  /\ Send(requests, "queue", [There EXCEPT !.match = Trying(@), !.assigned = TRUE])
  /\ UNCHANGED socket

ReadTicket ==
  /\ match.state \in {"Wait", "Result"} /\ ~match.request
  /\ Send(requests, "ticket", [There EXCEPT !.assigned = TRUE])
  /\ UNCHANGED socket

\* Play: the session stands, then is gone.  Result: a minute is over.
MatchFrame ==
  /\ \/ match.state = "Play" /\ match' = [match EXCEPT !.state = "Playing"]
     \/ match.state = "Playing" /\ match' = [match EXCEPT !.state = "Result"]
     \/ match.state = "Result" /\ match' = [match EXCEPT !.state = "Done"]
  /\ UNCHANGED <<session, requests, socket, timer, join>>

\* Mutant of Cancelled: a join is cancelled without its ticket's read.
Cancelled_JoinOnly == {r \in requests : join = NoJoin /\ r.kind \in {"queue", "ticket"}}

\* The requests that Cancel(m_Request) takes away.
Cancelled == {r \in requests : r.kind \in IF join # NoJoin THEN {"join"} ELSE {"queue", "ticket"}}

\* The match is destroyed, and cancels what it has under way.
DestroyMatch ==
  /\ match.state # "Gone"
  /\ match' = Answered(match, "Gone")
  /\ IF match.request
     THEN requests' = requests \ Cancelled /\ join' = NoJoin
     ELSE UNCHANGED <<requests, join>>
  /\ UNCHANGED <<session, socket, timer>>

SendScript(kind) ==
  /\ ~InFlight(kind)
  /\ Send(requests, kind, There)
  /\ UNCHANGED socket

CancelScript(kind) ==
  /\ InFlight(kind)
  /\ requests' = {r \in requests : r.kind # kind}
  /\ UNCHANGED <<session, socket, timer, join, match>>

-----------------------------------------------------------------------------
Push == PushOpened \/ PushFailed \/ PushClosed \/ MinuteOver \/ Reconnect

Next ==
  \/ \E kind \in Kind : Answer(kind)
  \/ SignInDone \/ RefreshDone \/ BackoffOver
  \/ Push
  \/ HelloReply \/ HelloSilent
  \/ SendQueue \/ ReadTicket \/ MatchFrame \/ DestroyMatch
  \/ \E kind \in Script : SendScript(kind) \/ CancelScript(kind)

\* Every attempt, recovery and HELLO is answered or times out.  The match has one
\* thing under way at a time, and the session one recovery.
Fairness ==
  /\ WF_vars(\E kind \in {"queue", "ticket", "join"} : Answer(kind))
  /\ \A kind \in Script : WF_vars(Answer(kind))
  /\ WF_vars(SignInDone \/ RefreshDone)
  /\ WF_vars(HelloReply \/ HelloSilent)

Spec == Init /\ [][Next]_vars /\ Fairness

-----------------------------------------------------------------------------
TypeOK ==
  /\ status \in {"Offline", "SigningIn", "SignedIn"}
  /\ refresh \in {"none", "fresh", "used"}
  /\ recovering \in BOOLEAN /\ backoff \in BOOLEAN /\ reused \in BOOLEAN
  /\ calls \in [signin : Nat, refresh : Nat]
  /\ requests \subseteq [kind : Kind, attempts : 0..2, stale : BOOLEAN, waiting : BOOLEAN]
  /\ push \in {"Disconnected", "Connecting", "Connected", "Replaced"}
  /\ timer \in BOOLEAN /\ refused \in BOOLEAN /\ replaced \in BOOLEAN
  /\ join \in [attempt : 0..JoinAttempts, at : {"none", "read", "hello"}]
  /\ match \in Match
  /\ drops \in 0..MaxDrops

\* "There is never more than one" sign-in or refresh in flight, and a request waits
\* for a session only while one is: nobody is left waiting for nothing.
OneRecovery ==
  /\ calls.signin + calls.refresh = IF recovering THEN 1 ELSE 0
  /\ (\E r \in requests : r.waiting) => recovering

\* "Presenting one twice revokes the whole session": a refresh token is sent once.
RefreshTokenOnce == ~reused

\* The one retry of a request never carries the token that was refused.
RetryIsFresh == \A r \in requests : r.attempts = 2 => r.stale

\* Whatever the match has under way is what m_Request names, so the destructor's
\* Cancel leaves no callback into a match that is gone; and a join has one thing
\* under way, a read or a HELLO, as long as the match is joining.
CancelReaches ==
  /\ join.at = "read" <=> InFlight("join")
  /\ match.state = "Join" <=> join # NoJoin
  /\ InFlight("queue") \/ InFlight("ticket") \/ join # NoJoin => match.request
  /\ match.state = "Gone" => ~match.request

\* While there is a session, the push socket is open or opening, is for another
\* process, or somebody is to reconnect it.
PushReturns ==
  status = "SignedIn" /\ push = "Disconnected" => timer \/ InFlight("probe")

\* Every request of a script or of the match ends, whatever is expired, refused or lost,
\* and however many wait for the same recovery; and every join ends, in a session or with
\* an error.
RequestsAndJoinsEnd ==
  /\ \A kind \in Script : InFlight(kind) ~> ~InFlight(kind)
  /\ InFlight("queue") \/ InFlight("ticket") ~> ~InFlight("queue") /\ ~InFlight("ticket")
  /\ join # NoJoin ~> join = NoJoin
=============================================================================
