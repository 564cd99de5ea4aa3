-------------------------- MODULE ServerLifecycle --------------------------
(***************************************************************************)
(* ServerLifecycle (Online/ServerLifecycle.cpp) and the layer that drives  *)
(* it (GanymedDedicated/source/DedicatedLayer.cpp): a fleet game server    *)
(* from its first /ready to the close of its game port.                    *)
(*                                                                         *)
(* Three threads: main is the allocation, the match and the teardown;      *)
(* health posts to the agent; door reads the game port and admits players. *)
(* The agent answers or does not, the clock ticks in seconds, and the      *)
(* players send HELLOs.  The scene is only loaded or not.  A --dev server  *)
(* has no agent, no health thread and no tokens: it admits names.          *)
(***************************************************************************)
EXTENDS Naturals, FiniteSets

CONSTANTS
  Token,          \* connect tokens the backend signed for this server and match
  Players,        \* accounts of the allocation
  Address,        \* where HELLOs come from
  Nobody,         \* no address
  Leeway,         \* kLeewaySeconds: 5
  MaxAttempts,    \* posts of the result: 5
  MaxTime,        \* bound: seconds on the clock
  MaxHellos       \* bound: HELLOs the door reads

ASSUME TokenAssumption ==
  \A t \in Token : DOMAIN t = {"account", "nonce", "iat", "exp"} /\ t.iat \in Nat /\ t.exp \in Nat
\* The backend signs every token with a nonce of its own.
ASSUME NonceAssumption == \A t, u \in Token : t.nonce = u.nonce => t = u
ASSUME AddressAssumption == Nobody \notin Address
ASSUME LimitAssumption ==
  Leeway \in Nat /\ MaxAttempts \in Nat \ {0} /\ MaxTime \in Nat /\ MaxHellos \in Nat

Account == {t.account : t \in Token}
Nonce   == {t.nonce : t \in Token}

VARIABLES
  dev,        \* m_Launch.Dev
  main,       \* where the main thread is
  attempt,    \* ReportResult's attempt
  health,     \* where the health thread is
  door,       \* where the door thread is
  hello,      \* the token and sender of the HELLO in Answer, while it holds DoorMutex
  stop,       \* Stop
  phase,      \* Phase: Waiting, Open or Over
  seen,       \* SeenNonce: nonces with their expiry
  admitted,   \* Admitted: accounts
  noted,      \* Net's Admitted: the address of an account
  port,       \* the game port: "none", "bound" or "closed"
  clock,      \* NowUnix
  hellos,     \* bound: HELLOs read
  acked,      \* history: the agent has our acknowledgement of an allocation
  played,     \* history: the scene ran
  results,    \* history: posts of /result
  shutdowns,  \* history: posts of /shutdown
  welcomes    \* history: WELCOMEs answered to each nonce

mainVars  == <<main, attempt, acked, played, results, shutdowns>>
doorVars  == <<door, hello, hellos, seen, admitted, noted, welcomes>>
vars == <<dev, mainVars, doorVars, health, stop, phase, port, clock>>

Init ==
  /\ dev \in BOOLEAN
  /\ main = "start" /\ attempt = 0
  /\ health = "none" /\ door = "none" /\ hello = <<>>
  /\ stop = FALSE /\ phase = "Waiting"
  /\ seen = {} /\ admitted = {} /\ noted = [a \in Account |-> Nobody]
  /\ port = "none" /\ clock = 0 /\ hellos = 0
  /\ acked = FALSE /\ played = FALSE
  /\ results = 0 /\ shutdowns = 0 /\ welcomes = [n \in Nonce |-> 0]

\* DoorMutex: Answer holds it from its check of the phase to its reply.
DoorMutexFree == door # "admit"

Goto(place) == main' = place /\ UNCHANGED <<attempt, acked, played, results, shutdowns>>

-----------------------------------------------------------------------------
(* The main thread: Start *)

\* A port that cannot be bound is torn down before any thread runs.  A fleet server
\* starts both threads and asks for a match; a dev server opens its door and loads.
Start ==
  /\ main = "start"
  /\ \/ Goto("stop") /\ UNCHANGED <<health, door, phase, port>>
     \/ /\ Goto(IF dev THEN "load" ELSE "ready")
        /\ port' = "bound" /\ door' = "loop"
        /\ health' = IF dev THEN health ELSE "post"
        /\ phase' = IF dev THEN "Open" ELSE phase
  /\ UNCHANGED <<dev, hello, hellos, seen, admitted, noted, welcomes, stop, clock>>

-----------------------------------------------------------------------------
(* The main thread: WaitForAllocation *)

PollReady ==
  /\ main = "ready"
  /\ Goto(IF stop THEN "stop" ELSE "polling")
  /\ UNCHANGED <<dev, doorVars, health, stop, phase, port, clock>>

\* A transport error and a body that is no allocation are retried; 204 asks
\* again at once; any other refusal ends the process.
ReadyAnswered ==
  /\ main = "polling"
  /\ \/ stop /\ Goto("stop")
     \/ ~stop /\ \E next \in {"retry", "ready", "stop", "allocated"} : Goto(next)
  /\ UNCHANGED <<dev, doorVars, health, stop, phase, port, clock>>

RetryWaited ==
  /\ main = "retry"
  /\ Goto("ready")
  /\ UNCHANGED <<dev, doorVars, health, stop, phase, port, clock>>

AllocatedAnswered ==
  /\ main = "allocated"
  /\ \/ main' = "open" /\ acked' = TRUE
     \/ main' = "shutdown" /\ UNCHANGED acked
  /\ UNCHANGED <<dev, attempt, played, results, shutdowns, doorVars, health, stop, phase, port, clock>>

OpenAdmission ==
  /\ main = "open" /\ DoorMutexFree
  /\ seen' = {} /\ admitted' = {}
  /\ phase' = "Open"
  /\ Goto("load")
  /\ UNCHANGED <<dev, door, hello, hellos, noted, welcomes, health, stop, port, clock>>

-----------------------------------------------------------------------------
(* The main thread: DedicatedLayer *)

\* Mutant of LoadScene: a scene that does not load is a finished match.
LoadScene_Finishes ==
  /\ main = "load"
  /\ \/ stop /\ Goto("shutdown")
     \/ ~stop /\ Goto("finish")
     \/ ~stop /\ main' = "match" /\ played' = TRUE /\ UNCHANGED <<attempt, acked, results, shutdowns>>
  /\ UNCHANGED <<dev, doorVars, health, stop, phase, port, clock>>

\* Where GiveUp starts: a dev server has nobody to tell.
GiveUp == IF dev THEN "stop" ELSE "shutdown"

\* OnAttach once admission is open.  GiveUp posts /shutdown and no result.
LoadScene ==
  /\ main = "load"
  /\ \/ Goto(GiveUp)
     \/ ~stop /\ main' = "match" /\ played' = TRUE /\ UNCHANGED <<attempt, acked, results, shutdowns>>
  /\ UNCHANGED <<dev, doorVars, health, stop, phase, port, clock>>

\* Mutant of EndMatch: a refused server only stops.
EndMatch_Silent ==
  /\ main = "match" /\ ~dev
  /\ Goto(IF stop THEN "stop" ELSE "finish")
  /\ UNCHANGED <<dev, doorVars, health, stop, phase, port, clock>>

\* The frame that ends the match, or OnDetach in the middle of it: Finish, or
\* GiveUp when health was refused.  A refusal is noticed by the next frame.
EndMatch ==
  /\ main = "match" /\ ~dev
  /\ Goto(IF stop THEN "shutdown" ELSE "finish")
  /\ UNCHANGED <<dev, doorVars, health, stop, phase, port, clock>>

\* A dev server plays until it is taken down: OnDetach and its Finish.
LeaveDev ==
  /\ main = "match" /\ dev
  /\ Goto("stop")
  /\ UNCHANGED <<dev, doorVars, health, stop, phase, port, clock>>

\* Mutant of Finish: Phase is written without DoorMutex.
Finish_Unlocked ==
  /\ main = "finish"
  /\ phase' = "Over"
  /\ main' = "result" /\ attempt' = 1
  /\ UNCHANGED <<dev, acked, played, results, shutdowns, doorVars, health, stop, port, clock>>

Finish ==
  /\ main = "finish" /\ DoorMutexFree
  /\ phase' = "Over"
  /\ main' = "result" /\ attempt' = 1
  /\ UNCHANGED <<dev, acked, played, results, shutdowns, doorVars, health, stop, port, clock>>

\* Mutant of PostResult: one attempt too many.
PostResult_OneMore ==
  /\ main = "result"
  /\ results' = results + 1
  /\ main' \in IF attempt > MaxAttempts THEN {"shutdown"} ELSE {"shutdown", "backoff"}
  /\ UNCHANGED <<dev, attempt, acked, played, shutdowns, doorVars, health, stop, phase, port, clock>>

\* ReportResult: a 200 or a refusal ends it, a 5xx or a lost answer is retried.
PostResult ==
  /\ main = "result"
  /\ results' = results + 1
  /\ main' \in IF attempt = MaxAttempts THEN {"shutdown"} ELSE {"shutdown", "backoff"}
  /\ UNCHANGED <<dev, attempt, acked, played, shutdowns, doorVars, health, stop, phase, port, clock>>

\* The wait ignores Stop.
Backoff ==
  /\ main = "backoff"
  /\ main' = "result" /\ attempt' = attempt + 1
  /\ UNCHANGED <<dev, acked, played, results, shutdowns, doorVars, health, stop, phase, port, clock>>

PostShutdown ==
  /\ main = "shutdown"
  /\ main' = "stop" /\ shutdowns' = shutdowns + 1
  /\ UNCHANGED <<dev, attempt, acked, played, results, doorVars, health, stop, phase, port, clock>>

-----------------------------------------------------------------------------
(* The main thread: TearDown *)

RequestStop ==
  /\ main = "stop"
  /\ stop' = TRUE
  /\ Goto("joinHealth")
  /\ UNCHANGED <<dev, doorVars, health, phase, port, clock>>

JoinHealth ==
  /\ main = "joinHealth" /\ health \in {"none", "done"}
  /\ Goto("joinDoor")
  /\ UNCHANGED <<dev, doorVars, health, stop, phase, port, clock>>

\* Mutant of JoinDoor: the port is closed to wake the door.
JoinDoor_NoWait ==
  /\ main = "joinDoor"
  /\ Goto("close")
  /\ UNCHANGED <<dev, doorVars, health, stop, phase, port, clock>>

JoinDoor ==
  /\ main = "joinDoor" /\ door \in {"none", "done"}
  /\ Goto("close")
  /\ UNCHANGED <<dev, doorVars, health, stop, phase, port, clock>>

\* Net::CloseServer, then the state is deleted.
CloseServer ==
  /\ main = "close"
  /\ port' = "closed"
  /\ noted' = [a \in Account |-> Nobody]
  /\ Goto("gone")
  /\ UNCHANGED <<dev, door, hello, hellos, seen, admitted, welcomes, health, stop, phase, clock>>

-----------------------------------------------------------------------------
(* The health thread *)

HealthAnswered ==
  /\ health = "post"
  /\ \/ stop /\ health' = "done" /\ UNCHANGED stop
     \/ ~stop /\ health' = "wait" /\ UNCHANGED stop
     \/ ~stop /\ health' = "done" /\ stop' = TRUE
  /\ UNCHANGED <<dev, mainVars, doorVars, phase, port, clock>>

\* wait_for ends by the notification or after two seconds.
HealthWaited ==
  /\ health = "wait"
  /\ health' = IF stop THEN "done" ELSE "post"
  /\ UNCHANGED <<dev, mainVars, doorVars, stop, phase, port, clock>>

-----------------------------------------------------------------------------
(* The door thread *)

\* Mutant of DoorLoop: it does not look at Stop.
DoorLoop_Deaf ==
  /\ \/ door = "loop" /\ door' = "pump"
     \/ door = "pump" /\ door' = "loop"
  /\ UNCHANGED <<dev, mainVars, hello, hellos, seen, admitted, noted, welcomes, health, stop, phase, port, clock>>

\* DoorLoop: while not stopped, PumpServer, which reads until the port is empty.
DoorLoop ==
  /\ \/ door = "loop" /\ door' = IF stop THEN "done" ELSE "pump"
     \/ door = "pump" /\ door' = "loop"
  /\ UNCHANGED <<dev, mainVars, hello, hellos, seen, admitted, noted, welcomes, health, stop, phase, port, clock>>

\* What is wrong with a token, from VerifyConnectToken and the list of players.
Valid(t) ==
  /\ clock <= t.exp + Leeway
  /\ t.iat <= clock + Leeway
  /\ t.account \in Players

\* Answer up to the check of the nonce.  A token that fails is denied.
HelloChecked(t, from) ==
  /\ door = "pump" /\ ~dev /\ hellos < MaxHellos
  /\ hellos' = hellos + 1
  /\ IF phase = "Open" /\ Valid(t)
     THEN door' = "admit" /\ hello' = <<t, from>>
     ELSE UNCHANGED <<door, hello>>
  /\ UNCHANGED <<dev, mainVars, seen, admitted, noted, welcomes, health, stop, phase, port, clock>>

\* Mutant of Unexpired: a nonce is dropped when its token expires, leeway or not.
Unexpired_Early == {s \in seen : clock + Leeway <= s.until}

\* The nonces kept when a HELLO is answered.
Unexpired == {s \in seen : clock <= s.until}

\* Answer from its second reading of the clock: nonces past their expiry are
\* forgotten, then the nonce is looked up.
HelloAnswered ==
  LET t    == hello[1]
      kept == Unexpired
  IN
  /\ door = "admit"
  /\ door' = "pump" /\ hello' = <<>>
  /\ IF \E s \in kept : s.nonce = t.nonce
     THEN seen' = kept /\ UNCHANGED <<admitted, noted, welcomes>>
     ELSE /\ seen' = kept \cup {[nonce |-> t.nonce, until |-> t.exp + Leeway]}
          /\ admitted' = admitted \cup {t.account}
          /\ noted' = [noted EXCEPT ![t.account] = hello[2]]
          /\ welcomes' = [welcomes EXCEPT ![t.nonce] = @ + 1]
  /\ UNCHANGED <<dev, mainVars, hellos, health, stop, phase, port, clock>>

\* Answer of a dev server: a name is admitted whenever it comes.
HelloDev(account, from) ==
  /\ door = "pump" /\ dev /\ hellos < MaxHellos
  /\ phase # "Over"
  /\ hellos' = hellos + 1
  /\ noted' = [noted EXCEPT ![account] = from]
  /\ UNCHANGED <<dev, mainVars, door, hello, seen, admitted, welcomes, health, stop, phase, port, clock>>

Tick ==
  /\ clock < MaxTime
  /\ clock' = clock + 1
  /\ UNCHANGED <<dev, mainVars, doorVars, health, stop, phase, port>>

-----------------------------------------------------------------------------
Main ==
  \/ Start \/ PollReady \/ ReadyAnswered \/ RetryWaited \/ AllocatedAnswered \/ OpenAdmission
  \/ LoadScene \/ EndMatch \/ Finish \/ PostResult \/ Backoff \/ PostShutdown
  \/ RequestStop \/ JoinHealth \/ JoinDoor \/ CloseServer

Health == HealthAnswered \/ HealthWaited

Door ==
  \/ DoorLoop \/ HelloAnswered
  \/ \E t \in Token, from \in Address : HelloChecked(t, from)
  \/ \E account \in Account, from \in Address : HelloDev(account, from)

Next == Main \/ LeaveDev \/ Health \/ Door \/ Tick

\* Every thread is scheduled, a post is answered or times out (5 to 25 s), and
\* the match ends by its clock.  Nothing makes the clock of the tokens tick, and
\* nothing takes a dev server down.
Fairness == WF_vars(Main) /\ WF_vars(Health) /\ WF_vars(Door)

Spec == Init /\ [][Next]_vars /\ Fairness

-----------------------------------------------------------------------------
TypeOK ==
  /\ dev \in BOOLEAN
  /\ main \in {"start", "ready", "polling", "retry", "allocated", "open", "load", "match", "finish",
               "result", "backoff", "shutdown", "stop", "joinHealth", "joinDoor", "close", "gone"}
  /\ attempt \in 0..MaxAttempts
  /\ health \in {"none", "post", "wait", "done"}
  /\ door \in {"none", "loop", "pump", "admit", "done"}
  /\ hello \in {<<>>} \cup (Token \X Address)
  /\ stop \in BOOLEAN
  /\ phase \in {"Waiting", "Open", "Over"}
  /\ seen \subseteq [nonce : Nonce, until : Nat]
  /\ admitted \subseteq Account
  /\ noted \in [Account -> Address \cup {Nobody}]
  /\ port \in {"none", "bound", "closed"}
  /\ clock \in Nat /\ hellos \in Nat
  /\ acked \in BOOLEAN /\ played \in BOOLEAN
  /\ results \in 0..MaxAttempts /\ shutdowns \in Nat
  /\ welcomes \in [Nonce -> Nat]

\* "Join before close: closing under a blocked call races the descriptor": the
\* port is closed, and the state deleted, only when no thread can still use them.
JoinedBeforeClose == port = "closed" => health \in {"none", "done"} /\ door \in {"none", "done"}

\* A result is the result of a match that was acknowledged and played, and it is
\* reported with admission closed ("reporting a victory for a match that never
\* started would be a lie").
ResultIsOfAMatch == results > 0 => acked /\ played /\ phase = "Over"

\* Nobody is admitted once the outcome is being reported, although Answer runs
\* on the door's thread and may have started before.
NoAdmissionAfterResult == [][results > 0 => admitted' = admitted]_vars

\* The agent hears exactly one /shutdown from every server that acknowledged an
\* allocation, however the match ended, and never two.
OneShutdown ==
  /\ shutdowns <= 1
  /\ main = "gone" /\ acked => shutdowns = 1

\* A stop, whoever asks for it and wherever the threads are, ends with the port closed
\* and both threads joined; and every match that starts is ended.  /ready may be polled
\* for ever, nothing else.
StopAndMatchEnd ==
  /\ stop ~> main = "gone"
  /\ main = "open" ~> main = "gone"

\* "The nonce has not been seen. A replay is DENIED token already used"
\* (dedicated.md): a token admits once.
TokenAdmitsOnce == \A n \in Nonce : welcomes[n] <= 1

\* As long as a token verifies, its nonce is remembered: it has admitted once.
SeenWhileValid ==
  \A t \in Token : clock <= t.exp + Leeway => welcomes[t.nonce] <= 1
=============================================================================
