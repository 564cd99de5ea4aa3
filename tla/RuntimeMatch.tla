---------------------------- MODULE RuntimeMatch ----------------------------
(***************************************************************************)
(* RuntimeMatch (GanymedRuntime/source/RuntimeMatch.cpp): a player's match *)
(* from --queue to its result, as what each of its callbacks makes of it.  *)
(* Online sends its requests and calls them.                               *)
(*                                                                         *)
(* Its timers are not counted: a wait may be over at any frame.            *)
(***************************************************************************)
EXTENDS Naturals

CONSTANTS
  QueueTries,     \* kQueueTries: 10
  JoinFailures    \* kJoinFailures: 3

ASSUME MatchAssumption == QueueTries \in Nat \ {0} /\ JoinFailures \in Nat \ {0}

\* m_State, with Play split by m_SeenConnected; "Gone" is the match destroyed.
State == {"Queue", "Wait", "Join", "Play", "Playing", "Result", "Done", "Gone"}

\* m_State, whether m_Request is not 0, m_QueueTries and m_JoinFailures.
Match == [state : State, request : BOOLEAN, tries : 0..QueueTries, fails : 0..JoinFailures]

NewMatch == [state |-> "Queue", request |-> FALSE, tries |-> 0, fails |-> 0]

\* A callback's m_Request = 0, and the state it goes to.
Answered(m, state) == [m EXCEPT !.request = FALSE, !.state = state]

\* SendQueue counts its tries, never reset; more than QueueTries make no difference.
Trying(m) == [m EXCEPT !.tries = IF @ < QueueTries THEN @ + 1 ELSE @]

\* SendQueue's callback.  A profile that is queued already follows its ticket.
Queued(m) == Answered(m, "Wait")
QueueFailed(m) == Answered(m, IF m.tries >= QueueTries THEN "Done" ELSE m.state)

TicketFailed(m) == Answered(m, m.state)

\* OnTicket: no ticket, one that waits for its server, a ready one, or one that is
\* finished, failed or cancelled.
OnTicket(m, ticket) ==
  CASE ticket = "over" -> Answered(m, "Done")
    [] ticket = "none" /\ m.state # "Result" -> Answered(m, "Queue")
    [] ticket = "ready" /\ m.state = "Wait" -> Answered(m, "Join")
    [] OTHER -> Answered(m, m.state)

\* JoinMatch's callback.
Joined(m) == Answered(m, "Play")
JoinFailed(m) ==
  [Answered(m, IF m.fails + 1 >= JoinFailures THEN "Done" ELSE "Wait") EXCEPT !.fails = @ + 1]
=============================================================================
