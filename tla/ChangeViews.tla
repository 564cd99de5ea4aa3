---------------------------- MODULE ChangeViews ----------------------------
(***************************************************************************)
(* Change views (ECS/Views.h) that read one ChangeBuffer, each at its own  *)
(* moment of a frame and with a cursor of its own.  A view may read more   *)
(* than once in a frame; what the code asserts is that none skips one.     *)
(***************************************************************************)
EXTENDS ChangeBuffer

CONSTANTS
  Entity, View,
  MaxLogged     \* bound: changes ever

ASSUME ViewsAssumption == MaxLogged \in Nat

VARIABLES
  buffer,  \* the ChangeBuffer
  cursor,  \* State::Cursors of a view, 0 if it has never read
  due,     \* the views that have still to read in this frame
  logged   \* history: every change there was

viewVars == <<buffer, cursor, due, logged>>

ViewsInit ==
  /\ buffer = NewBuffer /\ cursor = [v \in View |-> 0]
  /\ due = {} /\ logged = <<>>

\* A tracked component is written, or constructed.
MarkChanged(entity) ==
  /\ Len(logged) < MaxLogged
  /\ buffer' = Add(buffer, entity) /\ logged' = Append(logged, entity)
  /\ UNCHANGED <<cursor, due>>

\* Scene::FrameBegin, once the frame before it is over.
BeginFrame ==
  /\ due = {} /\ due' = View
  /\ buffer' = NextFrame(buffer)
  /\ UNCHANGED <<cursor, logged>>

\* ChangeView::Select.  The first time everything there is counts as changed; after that
\* it is what CollectSince returns.
Select(v) ==
  /\ cursor' = [cursor EXCEPT ![v] = HeadOf(buffer)]
  /\ due' = due \ {v}
  /\ UNCHANGED <<buffer, logged>>

ViewsNext ==
  \/ BeginFrame
  \/ \E entity \in Entity : MarkChanged(entity)
  \/ \E v \in View : Select(v)

ViewsSpec == ViewsInit /\ [][ViewsNext]_viewVars

-----------------------------------------------------------------------------
\* A view that reads finds the changes since it read the last time, all of them, once and
\* in their order, however its reads, the changes and the turns of the frames fall.
NothingIsLost ==
  \A v \in View :
    cursor[v] # 0 => CollectSince(buffer, cursor[v]) = SubSeq(logged, cursor[v], Len(logged))
=============================================================================
