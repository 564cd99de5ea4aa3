-------------------------------- MODULE Fifo --------------------------------
(***************************************************************************)
(* What the reliable channel promises in one direction: what is written    *)
(* comes out once, whole and in order, some time later.                    *)
(***************************************************************************)
EXTENDS Integers, Sequences

CONSTANT Message

VARIABLES written, read

Init == written = <<>> /\ read = <<>>

Write ==
  /\ \E m \in Message : written' = Append(written, m)
  /\ UNCHANGED read

\* One datagram can release several messages.
Read ==
  /\ \E n \in (Len(read) + 1)..Len(written) : read' = SubSeq(written, 1, n)
  /\ UNCHANGED written

Next == Write \/ Read

Spec == Init /\ [][Next]_<<written, read>>
=============================================================================
