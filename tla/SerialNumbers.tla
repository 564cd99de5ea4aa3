--------------------------- MODULE SerialNumbers ---------------------------
(***************************************************************************)
(* The 16-bit numbers of the packet header (Connection.h:13-24): packet    *)
(* sequences and reliable message ids.  Both start at 1, skip 0 when they  *)
(* wrap, and are compared by the sign of their 16-bit difference.          *)
(*                                                                         *)
(* The state of the modules that use them counts without wrapping: number  *)
(* n stands for the n-th slot of the endless repetition of the wire's      *)
(* values, Wire(n) is the field the code stores, and the slots whose wire  *)
(* value is 0 are never used.  Everything the code compares is compared    *)
(* here through Wire, so a number half the space away is misread exactly   *)
(* as the code would misread it.                                           *)
(***************************************************************************)
EXTENDS Integers

CONSTANT Half           \* half of the number space: 2^15 in the code

ASSUME HalfAssumption == Half \in Nat \ {0}

Modulus == 2 * Half

\* The uint16_t that number n is on the wire.
Wire(n) == n % Modulus

\* static_cast<int16_t>(d)
Signed(d) == LET r == d % Modulus IN IF r >= Half THEN r - Modulus ELSE r

\* Mutant of SeqDiff: the cast to 16 bits is left out.
SeqDiff_Unwrapped(a, b) == a - b

\* SeqDiff of two wire values: positive when a is newer than b.
SeqDiff(a, b) == Signed(a - b)

\* What the code finds when it compares the fields of numbers m and n.
Ahead(m, n) == SeqDiff(Wire(m), Wire(n))

\* 0 means "nothing sent" or "nothing received" and numbers no packet.
Used(n) == Wire(n) # 0

\* if (++x == 0) x = 1
After(n) == IF Used(n + 1) THEN n + 1 ELSE n + 2
=============================================================================
