---------------------------- MODULE ChangeBuffer ----------------------------
(***************************************************************************)
(* The log of the changes of one component type (ECS/ChangeBuffer.h).  An  *)
(* entry is known by a virtual index, counted from 1 since the scene was   *)
(* made; only the entries of this frame and of the one before are kept.    *)
(***************************************************************************)
EXTENDS Integers, Sequences

NewBuffer == [previous |-> <<>>, current |-> <<>>, prevStart |-> 1, currStart |-> 1]

Add(B, entity) ==
  [previous |-> B.previous, current |-> Append(B.current, entity),
   prevStart |-> B.prevStart, currStart |-> B.currStart]

\* Mutant of NextFrame: what was swapped in is not cleared.
NextFrame_Swaps(B) ==
  [previous |-> B.current, current |-> B.previous,
   prevStart |-> B.currStart, currStart |-> B.currStart + Len(B.current)]

NextFrame(B) ==
  [previous |-> B.current, current |-> <<>>,
   prevStart |-> B.currStart, currStart |-> B.currStart + Len(B.current)]

\* One past the newest entry.
HeadOf(B) == B.currStart + Len(B.current)

At(B, i) ==
  IF i < B.currStart THEN B.previous[i - B.prevStart + 1] ELSE B.current[i - B.currStart + 1]

\* Every change after `cursor` that is still there.
CollectSince(B, cursor) ==
  LET kept  == IF cursor < B.prevStart THEN B.prevStart ELSE cursor
      first == IF kept > HeadOf(B) THEN HeadOf(B) ELSE kept
  IN  [k \in 1..HeadOf(B) - first |-> At(B, first + k - 1)]
=============================================================================
