----------------------------- MODULE UndoProofs -----------------------------
(***************************************************************************)
(* The editor's hierarchy stays a forest, and its commands and panels      *)
(* implement the abstract undo stack, so that a scene that is shown as     *)
(* saved is the file: for scenes of any size, any cap, and any order of    *)
(* gestures, commands, undos, redos, saves and reloads.                    *)
(*                                                                         *)
(* The two stacks are one row of entries between the scenes of shots.      *)
(* The invariant says two things of that row.  Each entry leads from its   *)
(* scene to the next as far as parents go (Alike: the same entities with   *)
(* the same parents, whatever the order of siblings and the values); so    *)
(* the scene is always like the one of its depth, even after changes       *)
(* beside the stack, and every undo and redo finds a scene it can be       *)
(* applied to.  That gives the forest.  And while nothing was changed      *)
(* beside the stack each entry leads there Exactly, to the last value and  *)
(* sibling.  What a held widget is changing is not on the stack yet:       *)
(* Settle takes it back, and an entry commutes with that when it does not  *)
(* touch what is held.  That gives the abstract stack.                     *)
(***************************************************************************)
EXTENDS EditorUndo, SequenceTheorems, FunctionTheorems, FiniteSetTheorems, TLAPS

-----------------------------------------------------------------------------
(* Lists of children *)

\* A list without repetitions.
IsList(s) == s \in Seq(Nat) /\ \A i, j \in DOMAIN s : i # j => s[i] # s[j]

LEMMA RemoveAtIs ==
  ASSUME NEW s \in Seq(Nat), NEW i \in 1..Len(s)
  PROVE  /\ RemoveAt(s, i) \in Seq(Nat) /\ Len(RemoveAt(s, i)) = Len(s) - 1
         /\ \A k \in 1..Len(s) - 1 : RemoveAt(s, i)[k] = IF k < i THEN s[k] ELSE s[k + 1]
<1> DEFINE n == Len(s)
           a == SubSeq(s, 1, i - 1)
           b == SubSeq(s, i + 1, n)
<1>1. n \in Nat /\ i \in Nat /\ 1 <= i /\ i <= n
  OBVIOUS
<1>2. a \in Seq(Nat) /\ Len(a) = i - 1 /\ \A k \in 1..i - 1 : a[k] = s[k]
  OBVIOUS
<1>3. b \in Seq(Nat) /\ Len(b) = n - i /\ \A k \in 1..n - i : b[k] = s[i + k]
  OBVIOUS
<1>4. RemoveAt(s, i) = a \o b
  BY DEF RemoveAt
<1> HIDE DEF a, b, n
<1>5. /\ a \o b \in Seq(Nat) /\ Len(a \o b) = Len(a) + Len(b)
      /\ \A k \in 1..Len(a) + Len(b) : (a \o b)[k] = IF k <= Len(a) THEN a[k] ELSE b[k - Len(a)]
  BY <1>2, <1>3, ConcatProperties
<1>6. Len(a) + Len(b) = n - 1
  BY ONLY <1>1, <1>2, <1>3
<1>7. ASSUME NEW k \in 1..n - 1
      PROVE  (a \o b)[k] = IF k < i THEN s[k] ELSE s[k + 1]
  <2>1. CASE k < i
    BY <1>1, <1>2, <1>5, <1>6, <2>1
  <2>2. CASE ~(k < i)
    <3> DEFINE l == k - (i - 1)
    <3>1. l \in 1..n - i /\ i + l = k + 1 /\ ~(k <= i - 1)
      BY <1>1, <2>2
    <3>2. (a \o b)[k] = b[l]
      BY <1>2, <1>5, <1>6, <3>1
    <3> HIDE DEF l
    <3> QED
      BY <1>3, <2>2, <3>1, <3>2
  <2> QED
    BY <2>1, <2>2
<1> QED
  BY <1>4, <1>5, <1>6, <1>7 DEF n

\* s, with e put in at i.
IsInserted(t, s, i, e) ==
  /\ t \in Seq(Nat) /\ Len(t) = Len(s) + 1
  /\ \A k \in 1..Len(s) + 1 : t[k] = IF k < i THEN s[k] ELSE IF k = i THEN e ELSE s[k - 1]

LEMMA InsertAtIs ==
  ASSUME NEW s \in Seq(Nat), NEW i \in 1..Len(s) + 1, NEW e \in Nat
  PROVE  IsInserted(InsertAt(s, i, e), s, i, e)
<1> DEFINE n == Len(s)
           a == SubSeq(s, 1, i - 1)
           b == SubSeq(s, i, n)
           c == a \o <<e>>
<1>1. n \in Nat /\ i \in Nat /\ 1 <= i /\ i <= n + 1
  OBVIOUS
<1>2. a \in Seq(Nat) /\ Len(a) = i - 1 /\ \A k \in 1..i - 1 : a[k] = s[k]
  OBVIOUS
<1>3. b \in Seq(Nat) /\ Len(b) = n - i + 1 /\ \A k \in 1..n - i + 1 : b[k] = s[i + k - 1]
  OBVIOUS
<1>4. InsertAt(s, i, e) = c \o b
  BY DEF InsertAt
<1> HIDE DEF a, b, n
<1>5. c \in Seq(Nat) /\ Len(c) = i /\ (\A k \in 1..i - 1 : c[k] = s[k]) /\ c[i] = e
  <2>1. /\ c \in Seq(Nat) /\ Len(c) = Len(a) + Len(<<e>>)
        /\ \A k \in 1..Len(a) + Len(<<e>>) : c[k] = IF k <= Len(a) THEN a[k] ELSE <<e>>[k - Len(a)]
    <3>1. <<e>> \in Seq(Nat)
      OBVIOUS
    <3> QED
      BY <1>2, <3>1, ConcatProperties
  <2>2. Len(<<e>>) = 1 /\ <<e>>[1] = e
    OBVIOUS
  <2> HIDE DEF c
  <2>3. Len(a) + Len(<<e>>) = i
    BY <1>1, <1>2, <2>2
  <2>4. c[i] = <<e>>[i - Len(a)] /\ i - Len(a) = 1
    BY <1>1, <1>2, <2>1, <2>3
  <2>5. \A k \in 1..i - 1 : c[k] = s[k]
    BY <1>1, <1>2, <2>1, <2>3
  <2> QED
    BY <2>1, <2>2, <2>3, <2>4, <2>5
<1> HIDE DEF c
<1>6. /\ c \o b \in Seq(Nat) /\ Len(c \o b) = Len(c) + Len(b)
      /\ \A k \in 1..Len(c) + Len(b) : (c \o b)[k] = IF k <= Len(c) THEN c[k] ELSE b[k - Len(c)]
  BY <1>3, <1>5, ConcatProperties
<1>7. Len(c) + Len(b) = n + 1
  BY ONLY <1>1, <1>3, <1>5
<1>8. ASSUME NEW k \in 1..n + 1
      PROVE  (c \o b)[k] = IF k < i THEN s[k] ELSE IF k = i THEN e ELSE s[k - 1]
  <2>1. CASE k <= i
    BY <1>1, <1>5, <1>6, <1>7, <2>1
  <2>2. CASE ~(k <= i)
    <3> DEFINE l == k - i
    <3>1. l \in 1..n - i + 1 /\ i + l - 1 = k - 1 /\ ~(k <= i) /\ ~(k < i) /\ k # i
      BY <1>1, <2>2
    <3>2. (c \o b)[k] = b[l]
      BY <1>5, <1>6, <1>7, <3>1
    <3> HIDE DEF l
    <3> QED
      BY <1>3, <3>1, <3>2
  <2> QED
    BY <2>1, <2>2
<1>9. IsInserted(c \o b, s, i, e)
  BY ONLY <1>6, <1>7, <1>8 DEF n, IsInserted
<1> QED
  BY <1>4, <1>9

LEMMA PlaceIs ==
  ASSUME NEW s, IsList(s), NEW k \in DOMAIN s
  PROVE  Place(s, s[k]) = k
BY DEF Place, IsList

\* A list without one of its children.
LEMMA WithoutIs ==
  ASSUME NEW s, IsList(s), NEW c
  PROVE  /\ IsList(Without(s, c)) /\ ToSet(Without(s, c)) = ToSet(s) \ {c}
         /\ c \notin ToSet(s) => Without(s, c) = s
<1>1. s \in Seq(Nat)
  BY DEF IsList
<1>2. CASE c \notin ToSet(s)
  BY <1>2 DEF Without
<1>3. CASE c \in ToSet(s)
  <2>1. PICK p \in 1..Len(s) : s[p] = c /\ Place(s, c) = p
    BY <1>1, <1>3, PlaceIs DEF ToSet
  <2> DEFINE t == RemoveAt(s, p)
  <2>2. /\ t \in Seq(Nat) /\ Len(t) = Len(s) - 1 /\ Len(s) \in Nat
        /\ \A k \in 1..Len(s) - 1 : t[k] = IF k < p THEN s[k] ELSE s[k + 1]
    <3>1. /\ t \in Seq(Nat) /\ Len(t) = Len(s) - 1
          /\ \A k \in 1..Len(s) - 1 : t[k] = IF k < p THEN s[k] ELSE s[k + 1]
      BY ONLY <1>1, p \in 1..Len(s), RemoveAtIs
    <3> QED
      BY <1>1, <3>1
  <2>3. Without(s, c) = t
    BY <1>3, <2>1 DEF Without
  <2> HIDE DEF t
  <2>4. \A i, j \in 1..Len(s) : i # j => s[i] # s[j]
    BY <1>1 DEF IsList
  <2>5. ASSUME NEW i \in 1..Len(s) - 1, NEW j \in 1..Len(s) - 1, i # j
        PROVE  t[i] # t[j]
    <3> DEFINE f(k) == IF k < p THEN k ELSE k + 1
    <3>1. f(i) \in 1..Len(s) /\ f(j) \in 1..Len(s) /\ f(i) # f(j)
      BY <2>2, <2>5
    <3>2. t[i] = s[f(i)] /\ t[j] = s[f(j)]
      BY <2>2
    <3> HIDE DEF f
    <3> QED
      BY <2>4, <3>1, <3>2
  <2>6. IsList(t)
    <3>1. DOMAIN t = 1..Len(s) - 1
      BY <2>2
    <3> QED
      BY <2>2, <2>5, <3>1 DEF IsList
  <2>7. ToSet(t) \subseteq ToSet(s) \ {c}
    <3> SUFFICES ASSUME NEW i \in 1..Len(s) - 1
                 PROVE  t[i] \in ToSet(s) \ {c}
      BY <2>2 DEF ToSet
    <3> DEFINE q == IF i < p THEN i ELSE i + 1
    <3>1. q \in 1..Len(s) /\ q # p /\ t[i] = s[q]
      BY <2>2
    <3> HIDE DEF q
    <3> QED
      BY <1>1, <2>1, <2>4, <3>1 DEF ToSet
  <2>8. ToSet(s) \ {c} \subseteq ToSet(t)
    <3> SUFFICES ASSUME NEW i \in 1..Len(s), s[i] # c
                 PROVE  s[i] \in ToSet(t)
      BY <1>1 DEF ToSet
    <3> DEFINE q == IF i < p THEN i ELSE i - 1
    <3>1. i # p
      BY <2>1
    <3>2. q \in 1..Len(s) - 1 /\ t[q] = s[i]
      BY <2>2, <3>1
    <3> HIDE DEF q
    <3> QED
      BY <2>2, <3>2 DEF ToSet
  <2> QED
    BY <1>3, <2>3, <2>6, <2>7, <2>8
<1> QED
  BY <1>2, <1>3

\* A list with one more child.
LEMMA InsertedIs ==
  ASSUME NEW s, IsList(s), NEW c \in Nat, c \notin ToSet(s), NEW p \in 1..Len(s) + 1
  PROVE  /\ IsList(InsertAt(s, p, c)) /\ ToSet(InsertAt(s, p, c)) = ToSet(s) \cup {c}
         /\ Without(InsertAt(s, p, c), c) = s
<1>1. s \in Seq(Nat) /\ Len(s) \in Nat /\ DOMAIN s = 1..Len(s)
  BY DEF IsList
<1>2. p \in 1..Len(s) + 1 /\ c \in Nat
  OBVIOUS
<1>0. s \in Seq(Nat) /\ c \in Nat /\ p \in 1..Len(s) + 1
  BY <1>1
<1>a. IsInserted(InsertAt(s, p, c), s, p, c)
  BY ONLY <1>0, InsertAtIs
<1>b. /\ InsertAt(s, p, c) \in Seq(Nat) /\ Len(InsertAt(s, p, c)) = Len(s) + 1
      /\ \A k \in 1..Len(s) + 1 :
           InsertAt(s, p, c)[k] = IF k < p THEN s[k] ELSE IF k = p THEN c ELSE s[k - 1]
  BY ONLY <1>a DEF IsInserted
<1> DEFINE t == InsertAt(s, p, c)
<1>3. /\ t \in Seq(Nat) /\ Len(t) = Len(s) + 1 /\ DOMAIN t = 1..Len(s) + 1
      /\ \A k \in 1..Len(s) + 1 : t[k] = IF k < p THEN s[k] ELSE IF k = p THEN c ELSE s[k - 1]
  <2>1. /\ t \in Seq(Nat) /\ Len(t) = Len(s) + 1
        /\ \A k \in 1..Len(s) + 1 : t[k] = IF k < p THEN s[k] ELSE IF k = p THEN c ELSE s[k - 1]
    BY <1>a, <1>b
  <2> HIDE DEF t
  <2>2. DOMAIN t = 1..Len(s) + 1
    BY <1>1, <2>1
  <2> QED
    BY <2>1, <2>2
<1> HIDE DEF t
<1>4. \A i, j \in 1..Len(s) : i # j => s[i] # s[j]
  BY <1>1 DEF IsList
<1>5. \A i \in 1..Len(s) : s[i] # c
  BY <1>1 DEF ToSet
<1>6. t[p] = c /\ p \in DOMAIN t
  BY <1>2, <1>3
<1>7. ASSUME NEW i \in 1..Len(s) + 1, i # p
      PROVE  \E k \in 1..Len(s) : k = (IF i < p THEN i ELSE i - 1) /\ t[i] = s[k]
  <2> DEFINE k == IF i < p THEN i ELSE i - 1
  <2>1. k \in 1..Len(s) /\ t[i] = s[k]
    BY <1>1, <1>2, <1>3, <1>7
  <2> QED
    BY <2>1
<1>8. ASSUME NEW i \in 1..Len(s) + 1, NEW j \in 1..Len(s) + 1, i # j
      PROVE  t[i] # t[j]
  <2>1. CASE i = p
    BY <1>5, <1>6, <1>7, <1>8, <2>1
  <2>2. CASE j = p
    BY <1>5, <1>6, <1>7, <1>8, <2>2
  <2>3. CASE i # p /\ j # p
    <3>1. PICK k \in 1..Len(s) : k = (IF i < p THEN i ELSE i - 1) /\ t[i] = s[k]
      BY <1>7, <2>3
    <3>2. PICK l \in 1..Len(s) : l = (IF j < p THEN j ELSE j - 1) /\ t[j] = s[l]
      BY <1>7, <2>3
    <3>3. k # l
      BY <1>2, <1>8, <2>3, <3>1, <3>2
    <3> QED
      BY <1>4, <3>1, <3>2, <3>3
  <2> QED
    BY <2>1, <2>2, <2>3
<1>9. IsList(t)
  BY <1>3, <1>8 DEF IsList
<1>10. ToSet(t) \subseteq ToSet(s) \cup {c}
  <2> SUFFICES ASSUME NEW i \in 1..Len(s) + 1 PROVE t[i] \in ToSet(s) \cup {c}
    BY <1>3 DEF ToSet
  <2> QED
    BY <1>1, <1>6, <1>7 DEF ToSet
<1>11. ToSet(s) \cup {c} \subseteq ToSet(t)
  <2> SUFFICES ASSUME NEW k \in 1..Len(s) PROVE s[k] \in ToSet(t)
    BY <1>1, <1>6 DEF ToSet
  <2> DEFINE i == IF k < p THEN k ELSE k + 1
  <2>1. i \in 1..Len(s) + 1 /\ i # p /\ (IF i < p THEN i ELSE i - 1) = k
    BY <1>1, <1>2
  <2> HIDE DEF i
  <2>2. t[i] = s[k]
    BY <1>7, <2>1
  <2> QED
    BY <1>3, <2>1, <2>2 DEF ToSet
<1>12. Without(t, c) = s
  <2>1. Without(t, c) = RemoveAt(t, p)
    BY <1>6, <1>9, PlaceIs DEF Without, ToSet
  <2> DEFINE u == RemoveAt(t, p)
  <2>2. /\ u \in Seq(Nat) /\ Len(u) = Len(s)
        /\ \A k \in 1..Len(s) : u[k] = IF k < p THEN t[k] ELSE t[k + 1]
    <3>1. t \in Seq(Nat) /\ p \in 1..Len(t) /\ Len(t) - 1 = Len(s)
      BY <1>1, <1>2, <1>3
    <3>2. u \in Seq(Nat) /\ Len(u) = Len(t) - 1
      BY <3>1, RemoveAtIs
    <3>3. \A k \in 1..Len(t) - 1 : u[k] = IF k < p THEN t[k] ELSE t[k + 1]
      BY <3>1, RemoveAtIs
    <3> QED
      BY <3>1, <3>2, <3>3
  <2> HIDE DEF u
  <2>3. ASSUME NEW k \in 1..Len(s) PROVE u[k] = s[k]
    <3>1. CASE k < p
      <4>1. k \in 1..Len(s) + 1 /\ k # p
        BY <1>1, <1>2, <3>1
      <4> QED
        BY <1>7, <2>2, <3>1, <4>1
    <3>2. CASE ~(k < p)
      <4> DEFINE l == k + 1
      <4>1. l \in 1..Len(s) + 1 /\ ~(l < p) /\ l # p /\ l - 1 = k
        BY <1>1, <1>2, <3>2
      <4>2. u[k] = t[l]
        BY <2>2, <3>2
      <4> HIDE DEF l
      <4> QED
        BY <1>7, <4>1, <4>2
    <3> QED
      BY <3>1, <3>2
  <2>4. u = s
    BY <1>1, <2>2, <2>3
  <2> QED
    BY <2>1, <2>4 DEF u
<1> QED
  BY <1>9, <1>10, <1>11, <1>12 DEF t

LEMMA PutAtIs ==
  ASSUME NEW s, IsList(s), NEW c \in Nat, c \notin ToSet(s), NEW index \in Nat
  PROVE  /\ IsList(PutAt(s, c, index)) /\ ToSet(PutAt(s, c, index)) = ToSet(s) \cup {c}
         /\ Without(PutAt(s, c, index), c) = s
<1> DEFINE p == 1 + IF index < Len(s) THEN index ELSE Len(s)
<1>1. Len(s) \in Nat
  BY DEF IsList
<1>2. p \in 1..Len(s) + 1
  BY <1>1
<1> QED
  BY <1>2, InsertedIs DEF PutAt

\* Appending is putting last.
LEMMA AppendIsPut ==
  ASSUME NEW s, IsList(s), NEW c \in Nat
  PROVE  PutAt(s, c, Len(s)) = Append(s, c)
<1> DEFINE p == Len(s) + 1
           t == InsertAt(s, p, c)
<1>1. s \in Seq(Nat) /\ Len(s) \in Nat
  BY DEF IsList
<1>2. PutAt(s, c, Len(s)) = t
  BY <1>1 DEF PutAt
<1>3. /\ t \in Seq(Nat) /\ Len(t) = Len(s) + 1
      /\ \A k \in 1..Len(s) + 1 : t[k] = IF k < p THEN s[k] ELSE IF k = p THEN c ELSE s[k - 1]
  <2>1. p \in 1..Len(s) + 1
    BY <1>1
  <2>2. IsInserted(t, s, p, c)
    BY <1>1, <2>1, InsertAtIs
  <2> QED
    BY <2>2 DEF IsInserted
<1>4. Append(s, c) \in Seq(Nat) /\ Len(Append(s, c)) = Len(s) + 1
  BY <1>1
<1>5. ASSUME NEW k \in 1..Len(s) + 1 PROVE t[k] = Append(s, c)[k]
  <2>1. CASE k < p
    <3>1. t[k] = s[k] /\ k \in 1..Len(s)
      BY <1>1, <1>3, <2>1
    <3>2. Append(s, c)[k] = s[k]
      BY <1>1, <3>1
    <3> QED
      BY <3>1, <3>2
  <2>2. CASE k = p
    <3>1. t[k] = c
      BY <1>3, <2>2
    <3>2. Append(s, c)[Len(s) + 1] = c
      BY <1>1
    <3> QED
      BY <2>2, <3>1, <3>2
  <2> QED
    BY <1>1, <2>1, <2>2
<1> HIDE DEF t
<1> QED
  BY <1>2, <1>3, <1>4, <1>5

\* A child that is taken out and put back at its place leaves the list as it was.
LEMMA PutBack ==
  ASSUME NEW s, IsList(s), NEW c \in ToSet(s)
  PROVE  /\ PutAt(Without(s, c), c, Place(s, c) - 1) = s
         /\ Place(s, c) - 1 \in Nat
<1>1. s \in Seq(Nat) /\ Len(s) \in Nat /\ DOMAIN s = 1..Len(s)
  BY DEF IsList
<1>2. PICK p \in 1..Len(s) : s[p] = c /\ Place(s, c) = p
  BY <1>1, PlaceIs DEF ToSet
<1> DEFINE t == RemoveAt(s, p)
           u == InsertAt(t, p, c)
<1>3. /\ t \in Seq(Nat) /\ Len(t) = Len(s) - 1 /\ Without(s, c) = t
      /\ \A k \in 1..Len(s) - 1 : t[k] = IF k < p THEN s[k] ELSE s[k + 1]
  BY <1>1, <1>2, RemoveAtIs DEF Without
<1> HIDE DEF t
<1>4. PutAt(t, c, p - 1) = u
  <2>1. 1 + (IF p - 1 < Len(t) THEN p - 1 ELSE Len(t)) = p
    BY <1>1, <1>2, <1>3
  <2> QED
    BY <2>1 DEF PutAt
<1>5. /\ u \in Seq(Nat) /\ Len(u) = Len(s)
      /\ \A k \in 1..Len(s) : u[k] = IF k < p THEN t[k] ELSE IF k = p THEN c ELSE t[k - 1]
  <2>1. c \in Nat /\ p \in 1..Len(t) + 1 /\ Len(t) + 1 = Len(s)
    BY <1>1, <1>2, <1>3
  <2> QED
    BY <1>3, <2>1, InsertAtIs DEF IsInserted
<1> HIDE DEF u
<1>6. ASSUME NEW k \in 1..Len(s) PROVE u[k] = s[k]
  <2>1. CASE k < p
    <3>1. k \in 1..Len(s) - 1
      BY <1>1, <1>2, <2>1
    <3> QED
      BY <1>3, <1>5, <2>1, <3>1
  <2>2. CASE k = p
    BY <1>2, <1>5, <2>2
  <2>3. CASE k > p
    <3> DEFINE l == k - 1
    <3>1. l \in 1..Len(s) - 1 /\ ~(l < p) /\ l + 1 = k /\ ~(k < p) /\ k # p
      BY <1>1, <1>2, <2>3
    <3>2. u[k] = t[l]
      BY <1>5, <3>1
    <3> HIDE DEF l
    <3> QED
      BY <1>3, <3>1, <3>2
  <2> QED
    BY <1>2, <2>1, <2>2, <2>3
<1> QED
  BY <1>1, <1>2, <1>3, <1>4, <1>5, <1>6

-----------------------------------------------------------------------------
(* Scenes *)

Component == Value \cup {None}

Node == [parent : Nat, children : Seq(Nat), value : Component]

\* The children of an entity are listed with it, once each.
Linked(N) ==
  \A id \in DOMAIN N :
    /\ IsList(N[id].children)
    /\ ToSet(N[id].children) = {c \in DOMAIN N : N[c].parent = id}

\* The way up ends.
Ends(N) == \A X \in (SUBSET DOMAIN N) \ {{}} : \E x \in X : N[x].parent \notin X

IsNodes(N, n) == N \in [DOMAIN N -> Node] /\ DOMAIN N \subseteq 1..n /\ Linked(N) /\ Ends(N)

\* A parent is in the scene.
IsScene(S, n) == IsNodes(S, n) /\ \A id \in DOMAIN S : S[id].parent \in DOMAIN S \cup {0}

LEMMA SceneIsForest ==
  ASSUME NEW n \in Nat, NEW S, IsScene(S, n)
  PROVE  DOMAIN S \subseteq 1..n /\ IsForest(S)
<1>1. DOMAIN S \subseteq 1..n /\ 0 \notin DOMAIN S
  BY DEF IsScene, IsNodes
<1>2. ASSUME NEW id \in DOMAIN S
      PROVE  /\ \A i, j \in DOMAIN S[id].children : i # j => S[id].children[i] # S[id].children[j]
             /\ \A c \in ToSet(S[id].children) : c \in DOMAIN S /\ S[c].parent = id
             /\ S[id].parent # 0 => S[id].parent \in DOMAIN S /\ id \in ToSet(S[S[id].parent].children)
  BY DEF IsScene, IsNodes, Linked, IsList
<1>3. \A X \in (SUBSET DOMAIN S) \ {{}} : \E x \in X : S[x].parent \notin X
  BY DEF IsScene, IsNodes, Ends
<1> QED
  BY <1>1, <1>2, <1>3 DEF IsForest

\* Entities with their parents.
Closed(S, X) == \A x \in X : S[x].parent \in DOMAIN S => S[x].parent \in X

LEMMA AboveIs ==
  ASSUME NEW S, NEW id
  PROVE  /\ \A a \in Above(S, id), X \in SUBSET DOMAIN S : id \in X /\ Closed(S, X) => a \in X
         /\ \A a \in DOMAIN S :
              (\A X \in SUBSET DOMAIN S : id \in X /\ Closed(S, X) => a \in X) => a \in Above(S, id)
         /\ Above(S, id) \subseteq DOMAIN S
         /\ Closed(S, Above(S, id))
         /\ id \in DOMAIN S => id \in Above(S, id)
<1>1. ASSUME NEW X \in SUBSET DOMAIN S
      PROVE  Closed(S, X) <=> \A x \in X : {S[x].parent} \cap DOMAIN S \subseteq X
  BY DEF Closed
<1>2. /\ \A a \in Above(S, id), X \in SUBSET DOMAIN S : id \in X /\ Closed(S, X) => a \in X
      /\ \A a \in DOMAIN S :
           (\A X \in SUBSET DOMAIN S : id \in X /\ Closed(S, X) => a \in X) => a \in Above(S, id)
      /\ Above(S, id) \subseteq DOMAIN S
  BY <1>1 DEF Above
<1>3. ASSUME NEW x \in Above(S, id), S[x].parent \in DOMAIN S
      PROVE  S[x].parent \in Above(S, id)
  <2> SUFFICES ASSUME NEW X \in SUBSET DOMAIN S, id \in X, Closed(S, X)
               PROVE  S[x].parent \in X
    BY <1>2, <1>3
  <2>1. x \in X
    BY <1>2
  <2> QED
    BY <1>3, <2>1 DEF Closed
<1> QED
  BY <1>2, <1>3 DEF Closed

\* What is above an entity and is another is above its parent.
LEMMA AboveStep ==
  ASSUME NEW S, NEW x \in DOMAIN S, NEW a \in Above(S, x), a # x
  PROVE  S[x].parent \in DOMAIN S /\ a \in Above(S, S[x].parent)
<1> DEFINE p == S[x].parent
<1>1. a \in DOMAIN S
  BY AboveIs
<1>2. p \in DOMAIN S
  <2> SUFFICES ASSUME p \notin DOMAIN S PROVE FALSE
    OBVIOUS
  <2>1. Closed(S, {x})
    BY DEF Closed
  <2> QED
    BY <2>1, AboveIs
<1>3. ASSUME NEW Y \in SUBSET DOMAIN S, p \in Y, Closed(S, Y)
      PROVE  a \in Y
  <2>1. Closed(S, Y \cup {x})
    BY <1>3 DEF Closed
  <2> QED
    BY <2>1, AboveIs
<1> QED
  BY <1>1, <1>2, <1>3, AboveIs

\* An entity is not above its parent.
LEMMA NotAboveParent ==
  ASSUME NEW S, Ends(S), NEW c \in DOMAIN S, S[c].parent \in DOMAIN S
  PROVE  c \notin Above(S, S[c].parent)
<1> SUFFICES ASSUME c \in Above(S, S[c].parent) PROVE FALSE
  OBVIOUS
<1> DEFINE X == {x \in DOMAIN S : c \in Above(S, x)}
<1>1. X \in (SUBSET DOMAIN S) \ {{}}
  BY AboveIs
<1>2. ASSUME NEW x \in X PROVE S[x].parent \in X
  <2>1. CASE x = c
    BY <2>1
  <2>2. CASE x # c
    BY <2>2, AboveStep
  <2> QED
    BY <2>1, <2>2
<1> QED
  BY <1>1, <1>2 DEF Ends

\* With one other parent, the way up still ends, unless the entity is above that parent.
LEMMA EndsStill ==
  ASSUME NEW S, Ends(S), NEW c \in DOMAIN S, NEW p, p \in DOMAIN S => c \notin Above(S, p),
         NEW T, DOMAIN T = DOMAIN S, T[c].parent = p,
         \A id \in DOMAIN S \ {c} : T[id].parent = S[id].parent
  PROVE  Ends(T)
<1> SUFFICES ASSUME NEW X \in (SUBSET DOMAIN S) \ {{}}, \A x \in X : T[x].parent \in X
             PROVE  FALSE
  BY DEF Ends
<1>1. CASE c \notin X
  BY <1>1 DEF Ends
<1>2. CASE c \in X
  <2>1. p \in X /\ p \in DOMAIN S
    BY <1>2
  <2> DEFINE Y == X \cap Above(S, p)
  <2>2. Y \in (SUBSET DOMAIN S) \ {{}} /\ c \notin Y
    BY <2>1, AboveIs
  <2>3. ASSUME NEW y \in Y PROVE S[y].parent \in Y
    BY <2>2, AboveIs DEF Closed
  <2> QED
    BY <2>2, <2>3 DEF Ends
<1> QED
  BY <1>1, <1>2

\* Above depends on the parents only, and not on that of an entity that is not above.
LEMMA AboveSame ==
  ASSUME NEW S, NEW T, DOMAIN T = DOMAIN S, NEW c, NEW p \in DOMAIN S, c \notin Above(S, p),
         \A id \in DOMAIN S \ {c} : T[id].parent = S[id].parent
  PROVE  c \notin Above(T, p)
<1>1. Closed(T, Above(S, p))
  BY AboveIs DEF Closed
<1> QED
  BY <1>1, AboveIs

-----------------------------------------------------------------------------
(* An entity is moved *)

\* The child is taken from where it is listed, and put among the children of the parent.
Listed(l, child, id, parent, index) ==
  IF id = parent THEN PutAt(Without(l, child), child, index) ELSE Without(l, child)

Placed(S, child, parent, index) ==
  [id \in DOMAIN S |->
     [parent   |-> IF id = child THEN parent ELSE S[id].parent,
      children |-> Listed(S[id].children, child, id, parent, index),
      value    |-> S[id].value]]

LEMMA ListedIs ==
  ASSUME NEW l, IsList(l), NEW c \in Nat, NEW id, NEW p, NEW i \in Nat
  PROVE  /\ IsList(Listed(l, c, id, p, i))
         /\ ToSet(Listed(l, c, id, p, i)) = (ToSet(l) \ {c}) \cup (IF id = p THEN {c} ELSE {})
         /\ Without(Listed(l, c, id, p, i), c) = Without(l, c)
<1>1. /\ IsList(Without(l, c)) /\ ToSet(Without(l, c)) = ToSet(l) \ {c}
  BY WithoutIs
<1>2. CASE id = p
  <2>1. /\ IsList(PutAt(Without(l, c), c, i))
        /\ ToSet(PutAt(Without(l, c), c, i)) = ToSet(Without(l, c)) \cup {c}
        /\ Without(PutAt(Without(l, c), c, i), c) = Without(l, c)
    <3>1. c \notin ToSet(Without(l, c))
      BY <1>1
    <3> QED
      BY <1>1, <3>1, PutAtIs
  <2> QED
    BY <1>1, <1>2, <2>1 DEF Listed
<1>3. CASE id # p
  <2>1. Without(Without(l, c), c) = Without(l, c)
    <3>1. c \notin ToSet(Without(l, c))
      BY <1>1
    <3> QED
      BY <1>1, <3>1, WithoutIs
  <2> QED
    BY <1>1, <1>3, <2>1 DEF Listed
<1> QED
  BY <1>2, <1>3

LEMMA PlacedIs ==
  ASSUME NEW n \in Nat, NEW S, IsScene(S, n), NEW c \in DOMAIN S, NEW p \in DOMAIN S \cup {0},
         p \in DOMAIN S => c \notin Above(S, p), NEW i \in Nat
  PROVE  IsScene(Placed(S, c, p, i), n)
<1> DEFINE T == Placed(S, c, p, i)
<1>1. S \in [DOMAIN S -> Node] /\ DOMAIN S \subseteq 1..n /\ Linked(S) /\ Ends(S) /\ p \in Nat
  BY DEF IsScene, IsNodes
<1>2. /\ DOMAIN T = DOMAIN S
      /\ \A id \in DOMAIN S :
           /\ T[id] = [parent   |-> IF id = c THEN p ELSE S[id].parent,
                       children |-> Listed(S[id].children, c, id, p, i),
                       value    |-> S[id].value]
           /\ T[id].parent = IF id = c THEN p ELSE S[id].parent
           /\ T[id].children = Listed(S[id].children, c, id, p, i)
  BY DEF Placed
<1>3. T = [id \in DOMAIN T |-> T[id]]
  BY DEF Placed
<1> HIDE DEF T
<1>4. ASSUME NEW id \in DOMAIN S
      PROVE  /\ T[id] \in Node /\ IsList(T[id].children)
             /\ ToSet(T[id].children) = {d \in DOMAIN S : T[d].parent = id}
  <2>1. IsList(S[id].children) /\ ToSet(S[id].children) = {d \in DOMAIN S : S[d].parent = id}
    BY <1>1 DEF Linked
  <2>2. /\ IsList(T[id].children)
        /\ ToSet(T[id].children) = (ToSet(S[id].children) \ {c}) \cup (IF id = p THEN {c} ELSE {})
    <3>1. c \in Nat
      BY <1>1
    <3> QED
      BY <1>2, <2>1, <3>1, ListedIs
  <2>3. S[id] \in Node /\ T[id].children \in Seq(Nat)
    BY <1>1, <2>2 DEF IsList
  <2>4. T[id] \in Node
    <3>1. S[id].parent \in Nat /\ S[id].value \in Component
      BY <2>3 DEF Node
    <3>2. T[id] = [parent |-> T[id].parent, children |-> T[id].children, value |-> S[id].value]
      BY <1>2
    <3>3. T[id].parent \in Nat
      BY <1>1, <1>2, <3>1
    <3> QED
      BY <2>3, <3>1, <3>2, <3>3 DEF Node
  <2> QED
    BY <1>2, <2>1, <2>2, <2>4
<1>5. T \in [DOMAIN T -> Node]
  BY <1>2, <1>3, <1>4
<1>6. Linked(T)
  BY <1>2, <1>4 DEF Linked
<1>7. Ends(T)
  <2>1. \A id \in DOMAIN S \ {c} : T[id].parent = S[id].parent
    BY <1>2
  <2>2. T[c].parent = p
    BY <1>2
  <2> QED
    BY ONLY <1>1, <1>2, <2>1, <2>2, EndsStill, c \in DOMAIN S, p \in DOMAIN S => c \notin Above(S, p)
<1>8. \A id \in DOMAIN T : T[id].parent \in DOMAIN T \cup {0}
  BY <1>2 DEF IsScene
<1> QED
  BY <1>1, <1>2, <1>5, <1>6, <1>7, <1>8 DEF IsScene, IsNodes, T

\* Undoing a move moves back.
LEMMA PlacedBack ==
  ASSUME NEW n \in Nat, NEW S, IsScene(S, n), NEW c \in DOMAIN S, NEW p \in DOMAIN S \cup {0},
         NEW i \in Nat
  PROVE  Placed(Placed(S, c, p, i), c, S[c].parent, SiblingIndexOf(S, c)) = S
<1> DEFINE T == Placed(S, c, p, i)
           o == S[c].parent
           x == SiblingIndexOf(S, c)
           U == Placed(T, c, o, x)
<1>1. /\ S \in [DOMAIN S -> Node] /\ DOMAIN S \subseteq 1..n /\ Linked(S)
      /\ \A id \in DOMAIN S : S[id].parent \in DOMAIN S \cup {0}
      /\ S = [id \in DOMAIN S |-> S[id]]
  BY DEF IsScene, IsNodes
<1>2. /\ DOMAIN T = DOMAIN S
      /\ \A id \in DOMAIN S :
           /\ T[id].parent = IF id = c THEN p ELSE S[id].parent
           /\ T[id].children = Listed(S[id].children, c, id, p, i)
           /\ T[id].value = S[id].value
  BY DEF Placed
<1>3. /\ U = [id \in DOMAIN T |->
                [parent   |-> IF id = c THEN o ELSE T[id].parent,
                 children |-> Listed(T[id].children, c, id, o, x),
                 value    |-> T[id].value]]
  BY DEF Placed
<1> HIDE DEF T, U
<1>4. ASSUME NEW id \in DOMAIN S
      PROVE  Listed(T[id].children, c, id, o, x) = S[id].children
  <2> DEFINE l == S[id].children
  <2>1. IsList(l) /\ ToSet(l) = {d \in DOMAIN S : S[d].parent = id} /\ c \in Nat
    BY <1>1 DEF Linked
  <2>2. Without(T[id].children, c) = Without(l, c)
    BY <1>2, <2>1, ListedIs
  <2>3. CASE id = o
    <3>1. c \in ToSet(l)
      BY <2>1, <2>3
    <3>2. x = Place(l, c) - 1
      BY <1>1, <2>3 DEF SiblingIndexOf
    <3>3. PutAt(Without(l, c), c, x) = l
      BY <2>1, <3>1, <3>2, PutBack
    <3> QED
      BY <2>2, <2>3, <3>3 DEF Listed
  <2>4. CASE id # o
    <3>1. Without(l, c) = l
      BY <2>1, <2>4, WithoutIs
    <3> QED
      BY <2>2, <2>4, <3>1 DEF Listed
  <2> QED
    BY <2>3, <2>4
<1>5. ASSUME NEW id \in DOMAIN S
      PROVE  U[id] = S[id]
  <2>1. U[id] = [parent |-> S[id].parent, children |-> S[id].children, value |-> S[id].value]
    BY <1>2, <1>3, <1>4
  <2>2. S[id] \in Node
    BY <1>1
  <2>3. S[id] = [parent |-> S[id].parent, children |-> S[id].children, value |-> S[id].value]
    BY <2>2 DEF Node
  <2> QED
    BY <2>1, <2>3
<1>6. DOMAIN U = DOMAIN S /\ U = [id \in DOMAIN U |-> U[id]]
  BY <1>2, <1>3
<1> QED
  BY <1>1, <1>5, <1>6 DEF U, T

LEMMA UnderIs ==
  ASSUME NEW n \in Nat, NEW S, IsScene(S, n), NEW c \in DOMAIN S, NEW p \in DOMAIN S \cup {0}
  PROVE  \E k \in Nat : Under(S, c, p) = Placed(S, c, p, k)
<1> DEFINE k == IF p = 0 THEN 0 ELSE Len(Without(S[p].children, c))
<1>1. /\ S \in [DOMAIN S -> Node] /\ DOMAIN S \subseteq 1..n /\ Linked(S)
      /\ \A id \in DOMAIN S : S[id].parent \in DOMAIN S \cup {0}
  BY DEF IsScene, IsNodes
<1>2. ASSUME NEW id \in DOMAIN S
      PROVE  /\ IsList(S[id].children) /\ IsList(Without(S[id].children, c))
             /\ id # S[c].parent => Without(S[id].children, c) = S[id].children
  <2>1. IsList(S[id].children) /\ ToSet(S[id].children) = {d \in DOMAIN S : S[d].parent = id}
    BY <1>1 DEF Linked
  <2> QED
    BY <2>1, WithoutIs
<1>3. k \in Nat
  <2>1. CASE p = 0
    BY <2>1
  <2>2. CASE p # 0
    <3>1. Without(S[p].children, c) \in Seq(Nat)
      BY <1>2, <2>2 DEF IsList
    <3> QED
      BY <2>2, <3>1
  <2> QED
    BY <2>1, <2>2
<1>4. ASSUME NEW id \in DOMAIN S
      PROVE  Under(S, c, p)[id] = Placed(S, c, p, k)[id]
  <2> DEFINE rest == IF id = S[c].parent THEN Without(S[id].children, c) ELSE S[id].children
             all == IF id = p THEN Append(rest, c) ELSE rest
  <2>1. rest = Without(S[id].children, c)
    BY <1>2
  <2>2. all = Listed(S[id].children, c, id, p, k)
    <3>1. CASE id = p
      <4>1. p # 0
        BY <1>1, <3>1
      <4>2. PutAt(rest, c, Len(rest)) = Append(rest, c)
        <5>1. c \in Nat
          BY <1>1
        <5> QED
          BY <1>2, <2>1, <5>1, AppendIsPut
      <4> QED
        BY <2>1, <3>1, <4>1, <4>2 DEF Listed
    <3>2. CASE id # p
      BY <2>1, <3>2 DEF Listed
    <3> QED
      BY <3>1, <3>2
  <2> HIDE DEF k
  <2>3. S[id] \in Node
    BY <1>1
  <2>4. Under(S, c, p)[id] =
          [parent   |-> IF id = c THEN p ELSE S[id].parent,
           children |-> all,
           value    |-> S[id].value]
    BY <2>3 DEF Under, Node
  <2> HIDE DEF all
  <2>5. Placed(S, c, p, k)[id] =
          [parent   |-> IF id = c THEN p ELSE S[id].parent,
           children |-> Listed(S[id].children, c, id, p, k),
           value    |-> S[id].value]
    BY DEF Placed
  <2> QED
    BY <2>2, <2>4, <2>5
<1> HIDE DEF k
<1>5. Under(S, c, p) = Placed(S, c, p, k)
  <2>1. /\ Under(S, c, p) = [id \in DOMAIN S |-> Under(S, c, p)[id]]
        /\ Placed(S, c, p, k) = [id \in DOMAIN S |-> Placed(S, c, p, k)[id]]
    BY DEF Under, Placed
  <2> QED
    BY <1>4, <2>1
<1> QED
  BY <1>3, <1>5

LEMMA SetParentIs ==
  ASSUME NEW n \in Nat, NEW S, IsScene(S, n), NEW c \in DOMAIN S, NEW p \in DOMAIN S \cup {0},
         p \in DOMAIN S => c \notin Above(S, p)
  PROVE  \E k \in Nat : SetParent(S, c, p) = Placed(S, c, p, k)
<1>1. SetParent(S, c, p) = Under(S, c, p)
  BY DEF SetParent
<1> QED
  BY <1>1, UnderIs

LEMMA SetParentAtIndexIs ==
  ASSUME NEW n \in Nat, NEW S, IsScene(S, n), NEW c \in DOMAIN S, NEW p \in DOMAIN S \cup {0},
         p \in DOMAIN S => c \notin Above(S, p), NEW i \in Nat
  PROVE  SetParentAtIndex(S, c, p, i) = Placed(S, c, p, i)
<1> DEFINE T == SetParent(S, c, p)
<1>1. PICK k \in Nat : T = Placed(S, c, p, k)
  BY SetParentIs
<1>2. /\ S \in [DOMAIN S -> Node] /\ DOMAIN S \subseteq 1..n /\ Linked(S)
  BY DEF IsScene, IsNodes
<1>3. SetParentAtIndex(S, c, p, i) =
        IF p = 0 \/ T[c].parent # p THEN T
        ELSE [T EXCEPT ![p].children = PutAt(Without(@, c), c, i)]
  BY DEF SetParentAtIndex
<1> HIDE DEF T
<1>4. /\ DOMAIN T = DOMAIN S
      /\ \A id \in DOMAIN S :
           T[id] = [parent   |-> IF id = c THEN p ELSE S[id].parent,
                    children |-> Listed(S[id].children, c, id, p, k),
                    value    |-> S[id].value]
  BY <1>1 DEF Placed
<1>5. CASE p = 0
  <2>1. ASSUME NEW id \in DOMAIN S
        PROVE  Listed(S[id].children, c, id, p, k) = Listed(S[id].children, c, id, p, i)
    BY <1>2, <1>5 DEF Listed
  <2>2. T = Placed(S, c, p, i)
    BY <1>1, <2>1 DEF Placed
  <2> QED
    BY <1>3, <1>5, <2>2
<1>6. CASE p # 0
  <2> DEFINE U == [T EXCEPT ![p].children = PutAt(Without(@, c), c, i)]
  <2>1. p \in DOMAIN S
    BY <1>6
  <2>2. SetParentAtIndex(S, c, p, i) = U
    BY <1>3, <1>4, <1>6
  <2>3. ASSUME NEW id \in DOMAIN S
        PROVE  U[id] = Placed(S, c, p, i)[id]
    <3>0. Placed(S, c, p, i)[id] =
            [parent   |-> IF id = c THEN p ELSE S[id].parent,
             children |-> Listed(S[id].children, c, id, p, i),
             value    |-> S[id].value]
      BY DEF Placed
    <3>1. CASE id # p
      <4>1. U[id] = T[id]
        BY <1>4, <3>1
      <4>2. Listed(S[id].children, c, id, p, k) = Listed(S[id].children, c, id, p, i)
        BY <3>1 DEF Listed
      <4> QED
        BY <1>4, <3>0, <4>1, <4>2
    <3>2. CASE id = p
      <4>1. U[id] = [T[id] EXCEPT !.children = PutAt(Without(@, c), c, i)]
        BY <1>4, <3>2
      <4>2. Without(Listed(S[id].children, c, id, p, k), c) = Without(S[id].children, c)
        <5>1. IsList(S[id].children) /\ c \in Nat
          BY <1>2 DEF Linked
        <5> QED
          BY <5>1, ListedIs
      <4>3. PutAt(Without(Listed(S[id].children, c, id, p, k), c), c, i) = Listed(S[id].children, c, id, p, i)
        BY <3>2, <4>2 DEF Listed
      <4> QED
        BY <1>4, <3>0, <4>1, <4>3
    <3> QED
      BY <3>1, <3>2
  <2>4. DOMAIN U = DOMAIN S /\ U = [id \in DOMAIN U |-> U[id]]
    BY <1>4
  <2>5. DOMAIN Placed(S, c, p, i) = DOMAIN S /\ Placed(S, c, p, i) = [id \in DOMAIN S |-> Placed(S, c, p, i)[id]]
    BY DEF Placed
  <2> HIDE DEF U
  <2>6. U = Placed(S, c, p, i)
    BY <2>3, <2>4, <2>5
  <2> QED
    BY <2>2, <2>6
<1> QED
  BY <1>5, <1>6

-----------------------------------------------------------------------------
(* A subtree goes and comes back *)

\* A snapshot is a tree.
IsTree(W, n) ==
  /\ IsNodes(W.nodes, n) /\ W.root \in DOMAIN W.nodes /\ W.index \in Nat
  /\ \A id \in DOMAIN W.nodes : W.nodes[id].parent \in DOMAIN W.nodes <=> id # W.root

\* It is a tree of this scene, with nothing else under it.
IsOf(W, S) ==
  /\ DOMAIN W.nodes \subseteq DOMAIN S
  /\ \A id \in DOMAIN W.nodes : S[id].parent = W.nodes[id].parent
  /\ \A id \in DOMAIN S \ DOMAIN W.nodes : S[id].parent \notin DOMAIN W.nodes

\* It is not there, and where it was still is.
IsFreeOf(W, S) ==
  /\ DOMAIN W.nodes \cap DOMAIN S = {}
  /\ W.nodes[W.root].parent \in DOMAIN S \cup {0}

\* A is B with a tree.
Grown(W, A, B, n) ==
  /\ IsTree(W, n) /\ IsOf(W, A) /\ IsFreeOf(W, B)
  /\ DOMAIN A = DOMAIN B \cup DOMAIN W.nodes
  /\ \A id \in DOMAIN B : A[id].parent = B[id].parent

\* It is what there is of the scene.
IsExact(W, S) ==
  /\ \A id \in DOMAIN W.nodes : W.nodes[id] = S[id]
  /\ W.index = SiblingIndexOf(S, W.root)

\* The scene without it.
Cut(S, W) ==
  [id \in DOMAIN S \ DOMAIN W.nodes |->
     [parent   |-> S[id].parent,
      children |-> Without(S[id].children, W.root),
      value    |-> S[id].value]]

LEMMA RemovedIs ==
  ASSUME NEW n \in Nat, NEW S, IsScene(S, n), NEW W, IsTree(W, n), IsOf(W, S)
  PROVE  /\ RemoveSubtree(S, W) = Cut(S, W)
         /\ IsScene(RemoveSubtree(S, W), n)
         /\ Grown(W, S, RemoveSubtree(S, W), n)
<1> DEFINE gone == DOMAIN W.nodes
           T == RemoveSubtree(S, W)
<1>1. /\ S \in [DOMAIN S -> Node] /\ DOMAIN S \subseteq 1..n /\ Linked(S) /\ Ends(S)
      /\ \A id \in DOMAIN S : S[id].parent \in DOMAIN S \cup {0}
  BY DEF IsScene, IsNodes
<1>2. /\ gone \subseteq DOMAIN S /\ W.root \in gone
      /\ \A id \in gone : S[id].parent \in gone <=> id # W.root
      /\ \A id \in DOMAIN S \ gone : S[id].parent \notin gone
  BY DEF IsTree, IsOf
<1>3. /\ DOMAIN T = DOMAIN S \ gone /\ T = [id \in DOMAIN T |-> T[id]]
      /\ \A id \in DOMAIN S \ gone :
           T[id] = [S[id] EXCEPT !.parent   = IF @ \in gone THEN 0 ELSE @,
                                 !.children = Without(@, W.root)]
  BY DEF RemoveSubtree
<1> HIDE DEF T, gone
<1>4. ASSUME NEW id \in DOMAIN S \ gone
      PROVE  /\ T[id] = [parent   |-> S[id].parent,
                         children |-> Without(S[id].children, W.root),
                         value    |-> S[id].value]
             /\ T[id].parent = S[id].parent /\ T[id].children = Without(S[id].children, W.root)
  <2>1. S[id] \in Node
    BY <1>1
  <2>2. S[id].parent \notin gone
    BY <1>2
  <2>3. S[id] = [parent |-> S[id].parent, children |-> S[id].children, value |-> S[id].value]
    BY <2>1 DEF Node
  <2>4. T[id] = [S[id] EXCEPT !.parent = S[id].parent, !.children = Without(S[id].children, W.root)]
    BY <1>3, <2>2
  <2> QED
    BY <2>3, <2>4
<1>5. ASSUME NEW id \in DOMAIN S \ gone
      PROVE  /\ T[id] \in Node /\ T[id].parent = S[id].parent /\ IsList(T[id].children)
             /\ ToSet(T[id].children) = {d \in DOMAIN T : T[d].parent = id}
  <2>1. S[id] \in Node /\ IsList(S[id].children)
    BY <1>1 DEF Linked
  <2>2. ToSet(S[id].children) = {d \in DOMAIN S : S[d].parent = id}
    BY <1>1 DEF Linked
  <2>3. T[id].parent = S[id].parent /\ T[id].children = Without(S[id].children, W.root)
    BY <1>4
  <2>4. IsList(T[id].children) /\ ToSet(T[id].children) = ToSet(S[id].children) \ {W.root}
    BY <2>1, <2>3, WithoutIs
  <2>5. T[id] \in Node
    <3>1. S[id].parent \in Nat /\ S[id].value \in Component /\ T[id].children \in Seq(Nat)
      BY <2>1, <2>4 DEF Node, IsList
    <3>2. T[id] = [parent |-> S[id].parent, children |-> T[id].children, value |-> S[id].value]
      BY <1>4
    <3> QED
      BY <3>1, <3>2 DEF Node
  <2>6. \A d \in DOMAIN T : T[d].parent = S[d].parent
    BY <1>3, <1>4
  <2>7. \A d \in DOMAIN S : S[d].parent = id => d = W.root \/ d \in DOMAIN T
    BY <1>2, <1>3
  <2>8. W.root \notin DOMAIN T /\ DOMAIN T \subseteq DOMAIN S
    BY <1>2, <1>3
  <2>9. {d \in DOMAIN T : T[d].parent = id} = {d \in DOMAIN S : S[d].parent = id} \ {W.root}
    BY <2>6, <2>7, <2>8
  <2> QED
    BY <2>2, <2>3, <2>4, <2>5, <2>9
<1>6. T \in [DOMAIN T -> Node] /\ DOMAIN T \subseteq 1..n /\ Linked(T)
  BY <1>1, <1>3, <1>5 DEF Linked
<1>7. Ends(T)
  BY <1>1, <1>3, <1>5 DEF Ends
<1>8. \A id \in DOMAIN T : T[id].parent \in DOMAIN T \cup {0}
  BY <1>1, <1>2, <1>3, <1>5
<1>9. IsScene(T, n)
  BY <1>6, <1>7, <1>8 DEF IsScene, IsNodes
<1>10. W.nodes[W.root].parent \in DOMAIN T \cup {0}
  <2>1. W.nodes[W.root].parent = S[W.root].parent
    BY <1>2 DEF IsOf, gone
  <2> QED
    BY <1>1, <1>2, <1>3, <2>1
<1>11. Grown(W, S, T, n)
  BY <1>2, <1>3, <1>5, <1>10 DEF Grown, IsFreeOf, gone
<1>12. T = Cut(S, W)
  BY <1>3, <1>4 DEF Cut, gone
<1> QED
  BY <1>9, <1>11, <1>12 DEF T, gone

\* The scene with the snapshot.
Rejoined(T, W) ==
  [id \in DOMAIN T \cup DOMAIN W.nodes |->
     IF id \in DOMAIN W.nodes THEN W.nodes[id]
     ELSE [parent   |-> T[id].parent,
           children |-> IF id = W.nodes[W.root].parent THEN PutAt(T[id].children, W.root, W.index)
                        ELSE T[id].children,
           value    |-> T[id].value]]

LEMMA RestoredIs ==
  ASSUME NEW n \in Nat, NEW T, IsScene(T, n), NEW W, IsTree(W, n), IsFreeOf(W, T)
  PROVE  RestoreSubtree(T, W) = Rejoined(T, W)
<1> DEFINE N == W.nodes
           r == W.root
           p == N[r].parent
           R == With(T, N)
<1>1. /\ T \in [DOMAIN T -> Node] /\ Linked(T) /\ 0 \notin DOMAIN T /\ 0 \notin DOMAIN N
      /\ r \in DOMAIN N /\ DOMAIN N \cap DOMAIN T = {} /\ p \in DOMAIN T \cup {0}
      /\ \A id \in DOMAIN T : T[id].parent \in DOMAIN T \cup {0}
  BY DEF IsScene, IsTree, IsNodes, IsFreeOf
<1>2. R = [id \in DOMAIN T \cup DOMAIN N |-> IF id \in DOMAIN N THEN N[id] ELSE T[id]]
  BY DEF With
<1>3. RestoreSubtree(T, W) =
        CASE R[r].parent = 0 \/ (R[r].parent \in DOMAIN R /\ r \in ToSet(R[R[r].parent].children)) -> R
          [] R[r].parent # 0 /\ R[r].parent \notin DOMAIN R -> [R EXCEPT ![r].parent = 0]
          [] OTHER -> [R EXCEPT ![R[r].parent].children = PutAt(@, r, W.index)]
  BY DEF RestoreSubtree
<1> HIDE DEF R
<1>4. R[r] = N[r] /\ R[r].parent = p /\ DOMAIN R = DOMAIN T \cup DOMAIN N
  BY <1>1, <1>2
<1>5. ASSUME NEW id \in DOMAIN T PROVE T[id] = [parent |-> T[id].parent, children |-> T[id].children, value |-> T[id].value]
  <2>1. T[id] \in Node
    BY <1>1
  <2> QED
    BY <2>1 DEF Node
<1>6. CASE p = 0
  <2>1. RestoreSubtree(T, W) = R
    BY <1>3, <1>4, <1>6
  <2>2. ASSUME NEW id \in DOMAIN T \cup DOMAIN N PROVE R[id] = Rejoined(T, W)[id]
    BY <1>1, <1>2, <1>5, <1>6 DEF Rejoined
  <2>3. /\ R = [id \in DOMAIN T \cup DOMAIN N |-> R[id]]
        /\ Rejoined(T, W) = [id \in DOMAIN T \cup DOMAIN N |-> Rejoined(T, W)[id]]
    BY <1>2 DEF Rejoined
  <2> QED
    BY <2>1, <2>2, <2>3
<1>7. CASE p \in DOMAIN T
  <2>1. R[p] = T[p]
    BY <1>1, <1>2, <1>7
  <2>2. r \notin ToSet(T[p].children)
    BY <1>1, <1>7 DEF Linked
  <2> DEFINE U == [R EXCEPT ![p].children = PutAt(@, r, W.index)]
  <2>3. RestoreSubtree(T, W) = U
    BY <1>1, <1>3, <1>4, <1>7, <2>1, <2>2
  <2>4. DOMAIN U = DOMAIN T \cup DOMAIN N /\ U = [id \in DOMAIN T \cup DOMAIN N |-> U[id]]
    BY <1>4
  <2>5. ASSUME NEW id \in DOMAIN T \cup DOMAIN N PROVE U[id] = Rejoined(T, W)[id]
    <3>1. CASE id = p
      <4>1. U[id] = [T[p] EXCEPT !.children = PutAt(@, r, W.index)]
        BY <1>4, <2>1, <3>1
      <4>2. id \notin DOMAIN N
        BY <1>1, <1>7, <3>1
      <4>3. Rejoined(T, W)[id] =
              [parent |-> T[p].parent, children |-> PutAt(T[p].children, r, W.index), value |-> T[p].value]
        BY <3>1, <4>2 DEF Rejoined
      <4> DEFINE l == PutAt(T[p].children, r, W.index)
      <4>4. T[p] = [parent |-> T[p].parent, children |-> T[p].children, value |-> T[p].value]
        BY <1>5, <1>7
      <4> HIDE DEF l
      <4>5. [T[p] EXCEPT !.children = l] = [parent |-> T[p].parent, children |-> l, value |-> T[p].value]
        BY ONLY <4>4
      <4> QED
        BY <3>1, <4>1, <4>3, <4>5 DEF l
    <3>2. CASE id # p
      <4>1. U[id] = R[id]
        BY <1>4, <3>2
      <4> QED
        BY <1>2, <1>5, <3>2, <4>1 DEF Rejoined
    <3> QED
      BY <3>1, <3>2
  <2>6. Rejoined(T, W) = [id \in DOMAIN T \cup DOMAIN N |-> Rejoined(T, W)[id]]
    BY DEF Rejoined
  <2> HIDE DEF U
  <2> QED
    BY <2>3, <2>4, <2>5, <2>6
<1> QED
  BY <1>1, <1>6, <1>7

LEMMA RejoinedIs ==
  ASSUME NEW n \in Nat, NEW T, IsScene(T, n), NEW W, IsTree(W, n), IsFreeOf(W, T)
  PROVE  /\ IsScene(Rejoined(T, W), n)
         /\ Grown(W, Rejoined(T, W), T, n)
<1> DEFINE N == W.nodes
           r == W.root
           p == N[r].parent
           S == Rejoined(T, W)
<1>1. /\ T \in [DOMAIN T -> Node] /\ DOMAIN T \subseteq 1..n /\ Linked(T) /\ Ends(T)
      /\ \A id \in DOMAIN T : T[id].parent \in DOMAIN T \cup {0}
      /\ 0 \notin DOMAIN T
  BY DEF IsScene, IsNodes
<1>2. /\ N \in [DOMAIN N -> Node] /\ DOMAIN N \subseteq 1..n /\ Linked(N) /\ Ends(N)
      /\ r \in DOMAIN N /\ r \in Nat /\ W.index \in Nat /\ 0 \notin DOMAIN N
      /\ \A id \in DOMAIN N : N[id].parent \in DOMAIN N <=> id # r
  BY DEF IsTree, IsNodes
<1>3. DOMAIN N \cap DOMAIN T = {} /\ p \in DOMAIN T \cup {0}
  BY DEF IsFreeOf
<1>4. /\ DOMAIN S = DOMAIN T \cup DOMAIN N /\ S = [id \in DOMAIN S |-> S[id]]
      /\ \A id \in DOMAIN N : S[id] = N[id]
      /\ \A id \in DOMAIN T :
           /\ S[id] = [parent   |-> T[id].parent,
                       children |-> IF id = p THEN PutAt(T[id].children, r, W.index) ELSE T[id].children,
                       value    |-> T[id].value]
           /\ S[id].parent = T[id].parent
           /\ S[id].children = IF id = p THEN PutAt(T[id].children, r, W.index) ELSE T[id].children
  BY <1>3 DEF Rejoined
<1> HIDE DEF S, N, r, p
<1>5. ASSUME NEW id \in DOMAIN S
      PROVE  /\ id \in DOMAIN T => S[id].parent = T[id].parent /\ T[id].parent \in DOMAIN T \cup {0}
             /\ id \in DOMAIN N => S[id].parent = N[id].parent
             /\ id \in DOMAIN N /\ id # r => N[id].parent \in DOMAIN N
             /\ N[r].parent = p
  BY <1>1, <1>2, <1>4 DEF p
<1>6. ASSUME NEW id \in DOMAIN S
      PROVE  /\ S[id] \in Node /\ IsList(S[id].children)
             /\ ToSet(S[id].children) = {d \in DOMAIN S : S[d].parent = id}
  <2>1. CASE id \in DOMAIN N
    <3>1. S[id] = N[id] /\ N[id] \in Node
      BY <1>2, <1>4, <2>1
    <3>2. IsList(N[id].children) /\ ToSet(N[id].children) = {d \in DOMAIN N : N[d].parent = id}
      BY <1>2, <2>1 DEF Linked
    <3>3. {d \in DOMAIN N : N[d].parent = id} = {d \in DOMAIN S : S[d].parent = id}
      BY <1>2, <1>3, <1>4, <1>5, <2>1
    <3> QED
      BY <3>1, <3>2, <3>3
  <2>2. CASE id \in DOMAIN T
    <3> DEFINE l == T[id].children
    <3>1. IsList(l) /\ ToSet(l) = {d \in DOMAIN T : T[d].parent = id} /\ r \notin ToSet(l)
      <4>1. IsList(l) /\ ToSet(l) = {d \in DOMAIN T : T[d].parent = id}
        BY <1>1, <2>2 DEF Linked
      <4> QED
        BY <1>2, <1>3, <4>1
    <3>2. /\ IsList(S[id].children)
          /\ ToSet(S[id].children) = ToSet(l) \cup (IF id = p THEN {r} ELSE {})
      <4>1. CASE id = p
        BY <1>2, <1>4, <2>2, <3>1, <4>1, PutAtIs
      <4>2. CASE id # p
        BY <1>4, <2>2, <3>1, <4>2
      <4> QED
        BY <4>1, <4>2
    <3>3. S[id] \in Node
      <4>1. T[id] \in Node
        BY <1>1, <2>2
      <4>2. T[id].parent \in Nat /\ T[id].value \in Component /\ S[id].children \in Seq(Nat)
        BY <3>2, <4>1 DEF Node, IsList
      <4>3. S[id] = [parent |-> T[id].parent, children |-> S[id].children, value |-> T[id].value]
        BY <1>4, <2>2
      <4> QED
        BY <4>2, <4>3 DEF Node
    <3>4. ASSUME NEW d \in DOMAIN S
          PROVE  S[d].parent = id <=> (d \in DOMAIN T /\ T[d].parent = id) \/ (id = p /\ d = r)
      <4>1. CASE d \in DOMAIN T
        BY <1>2, <1>3, <1>5, <4>1
      <4>2. CASE d \in DOMAIN N
        BY <1>2, <1>3, <1>5, <2>2, <4>2
      <4> QED
        BY <1>4, <4>1, <4>2
    <3>5. r \in DOMAIN S /\ DOMAIN T \subseteq DOMAIN S
      BY <1>2, <1>4
    <3> HIDE DEF l
    <3>6. {d \in DOMAIN S : S[d].parent = id} = ToSet(l) \cup (IF id = p THEN {r} ELSE {})
      BY <3>1, <3>4, <3>5
    <3> QED
      BY <3>2, <3>3, <3>6
  <2> QED
    BY <1>4, <2>1, <2>2
<1>7. S \in [DOMAIN S -> Node] /\ DOMAIN S \subseteq 1..n /\ Linked(S)
  BY <1>1, <1>2, <1>4, <1>6 DEF Linked
<1>8. Ends(S)
  <2> SUFFICES ASSUME NEW X \in (SUBSET DOMAIN S) \ {{}} PROVE \E x \in X : S[x].parent \notin X
    BY DEF Ends
  <2>1. CASE X \cap DOMAIN T # {}
    <3>1. PICK x \in X \cap DOMAIN T : T[x].parent \notin X \cap DOMAIN T
      BY <1>1, <2>1 DEF Ends
    <3>2. S[x].parent = T[x].parent /\ T[x].parent \in DOMAIN T \cup {0}
      BY <1>5, <3>1
    <3>3. 0 \notin X
      BY <1>1, <1>2, <1>4
    <3> QED
      BY <3>1, <3>2, <3>3
  <2>2. CASE X \cap DOMAIN T = {}
    <3>1. X \in (SUBSET DOMAIN N) \ {{}}
      BY <1>4, <2>2
    <3>2. PICK x \in X : N[x].parent \notin X
      BY <1>2, <3>1 DEF Ends
    <3> QED
      BY <1>5, <3>1, <3>2
  <2> QED
    BY <2>1, <2>2
<1>9. \A id \in DOMAIN S : S[id].parent \in DOMAIN S \cup {0}
  BY <1>3, <1>4, <1>5
<1>10. IsScene(S, n)
  BY <1>7, <1>8, <1>9 DEF IsScene, IsNodes
<1>11. \A id \in DOMAIN S \ DOMAIN N : S[id].parent \notin DOMAIN N
  BY <1>2, <1>3, <1>4, <1>5
<1>12. Grown(W, S, T, n)
  BY <1>3, <1>4, <1>5, <1>11 DEF Grown, IsOf, N
<1> QED
  BY <1>10, <1>12 DEF S

\* What came back goes again, and what went comes back as it was.
LEMMA RemovedAgain ==
  ASSUME NEW n \in Nat, NEW T, IsScene(T, n), NEW W, IsTree(W, n), IsFreeOf(W, T)
  PROVE  RemoveSubtree(Rejoined(T, W), W) = T
<1> DEFINE S == Rejoined(T, W)
           p == W.nodes[W.root].parent
<1>1. /\ T \in [DOMAIN T -> Node] /\ Linked(T) /\ W.root \in Nat /\ W.index \in Nat
      /\ W.root \in DOMAIN W.nodes /\ DOMAIN W.nodes \cap DOMAIN T = {}
      /\ T = [id \in DOMAIN T |-> T[id]]
  BY DEF IsScene, IsNodes, IsTree, IsFreeOf
<1>2. IsScene(S, n) /\ IsOf(W, S)
  BY RejoinedIs DEF Grown
<1>3. RemoveSubtree(S, W) = Cut(S, W)
  BY <1>2, RemovedIs
<1>4. /\ DOMAIN S = DOMAIN T \cup DOMAIN W.nodes
      /\ \A id \in DOMAIN T :
           /\ S[id].parent = T[id].parent /\ S[id].value = T[id].value
           /\ S[id].children = IF id = p THEN PutAt(T[id].children, W.root, W.index) ELSE T[id].children
  BY <1>1 DEF Rejoined
<1> HIDE DEF S, p
<1>5. ASSUME NEW id \in DOMAIN T PROVE Without(S[id].children, W.root) = T[id].children
  <2>1. IsList(T[id].children) /\ ToSet(T[id].children) = {d \in DOMAIN T : T[d].parent = id}
    BY <1>1 DEF Linked
  <2>2. W.root \notin ToSet(T[id].children)
    BY <1>1, <2>1
  <2> QED
    BY <1>1, <1>4, <2>1, <2>2, PutAtIs, WithoutIs
<1>6. ASSUME NEW id \in DOMAIN T
      PROVE  T[id] = [parent |-> T[id].parent, children |-> T[id].children, value |-> T[id].value]
  <2>1. T[id] \in Node
    BY <1>1
  <2> QED
    BY <2>1 DEF Node
<1>7. DOMAIN S \ DOMAIN W.nodes = DOMAIN T
  BY <1>1, <1>4
<1>8. ASSUME NEW id \in DOMAIN T PROVE RemoveSubtree(S, W)[id] = T[id]
  <2>1. RemoveSubtree(S, W)[id] =
          [parent |-> S[id].parent, children |-> Without(S[id].children, W.root), value |-> S[id].value]
    BY <1>3, <1>7 DEF Cut
  <2> QED
    BY <1>4, <1>5, <1>6, <2>1
<1>9. RemoveSubtree(S, W) = [id \in DOMAIN T |-> RemoveSubtree(S, W)[id]]
  BY <1>3, <1>7 DEF Cut
<1> QED
  BY <1>1, <1>8, <1>9 DEF S

LEMMA RejoinedAgain ==
  ASSUME NEW n \in Nat, NEW S, IsScene(S, n), NEW W, IsTree(W, n), IsOf(W, S), IsExact(W, S)
  PROVE  Rejoined(RemoveSubtree(S, W), W) = S
<1> DEFINE T == RemoveSubtree(S, W)
           N == W.nodes
           r == W.root
           p == N[r].parent
<1>1. /\ S \in [DOMAIN S -> Node] /\ DOMAIN S \subseteq 1..n /\ Linked(S) /\ S = [id \in DOMAIN S |-> S[id]]
      /\ r \in DOMAIN N /\ DOMAIN N \subseteq DOMAIN S /\ (\A id \in DOMAIN N : N[id] = S[id])
      /\ W.index = SiblingIndexOf(S, r)
  BY DEF IsScene, IsNodes, IsTree, IsOf, IsExact
<1>2. T = [id \in DOMAIN S \ DOMAIN N |->
             [parent |-> S[id].parent, children |-> Without(S[id].children, r), value |-> S[id].value]]
  <2>1. T = Cut(S, W)
    BY RemovedIs
  <2> QED
    BY <2>1 DEF Cut
<1> HIDE DEF T
<1>3. /\ DOMAIN T = DOMAIN S \ DOMAIN N
      /\ \A id \in DOMAIN S \ DOMAIN N :
           T[id].parent = S[id].parent /\ T[id].children = Without(S[id].children, r) /\ T[id].value = S[id].value
  BY <1>2
<1>4. /\ Rejoined(T, W) = [id \in DOMAIN T \cup DOMAIN N |-> Rejoined(T, W)[id]]
      /\ \A id \in DOMAIN N : Rejoined(T, W)[id] = N[id]
      /\ \A id \in DOMAIN T \ DOMAIN N :
           Rejoined(T, W)[id] =
             [parent   |-> T[id].parent,
              children |-> IF id = p THEN PutAt(T[id].children, r, W.index) ELSE T[id].children,
              value    |-> T[id].value]
  BY DEF Rejoined
<1> HIDE DEF N, r, p
<1>5. DOMAIN T \cup DOMAIN N = DOMAIN S
  BY <1>1, <1>3
<1>6. ASSUME NEW id \in DOMAIN S \ DOMAIN N
      PROVE  (IF id = p THEN PutAt(Without(S[id].children, r), r, W.index) ELSE Without(S[id].children, r))
               = S[id].children
  <2> DEFINE l == S[id].children
  <2>1. IsList(l) /\ ToSet(l) = {d \in DOMAIN S : S[d].parent = id}
    BY <1>1 DEF Linked
  <2>2. S[r].parent = p
    BY <1>1 DEF p
  <2>3. CASE id = p
    <3>1. r \in ToSet(l) /\ S[r].parent # 0
      BY <1>1, <2>1, <2>2, <2>3
    <3>2. W.index = Place(l, r) - 1
      BY <1>1, <2>2, <2>3, <3>1 DEF SiblingIndexOf
    <3>3. PutAt(Without(l, r), r, W.index) = l
      BY <2>1, <3>1, <3>2, PutBack
    <3> QED
      BY <2>3, <3>3
  <2>4. CASE id # p
    <3>1. r \notin ToSet(l)
      BY <2>1, <2>2, <2>4
    <3> QED
      BY <2>1, <2>4, <3>1, WithoutIs
  <2> QED
    BY <2>3, <2>4
<1>7. ASSUME NEW id \in DOMAIN S PROVE Rejoined(T, W)[id] = S[id]
  <2>1. CASE id \in DOMAIN N
    BY <1>1, <1>4, <2>1
  <2>2. CASE id \notin DOMAIN N
    <3>1. id \in DOMAIN T \ DOMAIN N
      BY <1>3, <2>2
    <3>2. Rejoined(T, W)[id] =
            [parent   |-> S[id].parent,
             children |-> S[id].children,
             value    |-> S[id].value]
      <4>1. /\ T[id].parent = S[id].parent /\ T[id].children = Without(S[id].children, r)
            /\ T[id].value = S[id].value
        BY <1>3, <2>2
      <4>2. (IF id = p THEN PutAt(T[id].children, r, W.index) ELSE T[id].children) = S[id].children
        BY <1>6, <2>2, <4>1
      <4>3. Rejoined(T, W)[id] =
              [parent   |-> T[id].parent,
               children |-> IF id = p THEN PutAt(T[id].children, r, W.index) ELSE T[id].children,
               value    |-> T[id].value]
        BY ONLY <1>4, <3>1
      <4> QED
        BY ONLY <4>1, <4>2, <4>3
    <3>3. S[id] \in Node
      BY <1>1
    <3> QED
      BY <3>2, <3>3 DEF Node
  <2> QED
    BY <2>1, <2>2
<1> QED
  BY <1>1, <1>4, <1>5, <1>7 DEF T

\* What is under an entity: it, and what has its parent there; and nothing else is under it.
LEMMA SubtreeIs ==
  ASSUME NEW n \in Nat, NEW S, IsScene(S, n), NEW r \in DOMAIN S
  PROVE  LET C == CollectSubtree(S, r) IN
         /\ r \in C /\ C \subseteq DOMAIN S
         /\ \A id \in DOMAIN S \ {r} : id \in C <=> S[id].parent \in C
         /\ S[r].parent \notin C
<1> DEFINE C == CollectSubtree(S, r)
           Down(X) == \A x \in X : ToSet(S[x].children) \cap DOMAIN S \subseteq X
<1>1. /\ Linked(S) /\ Ends(S)
  BY DEF IsScene, IsNodes
<1>2. /\ C \subseteq DOMAIN S
      /\ \A d \in C, X \in SUBSET DOMAIN S : r \in X /\ Down(X) => d \in X
      /\ \A d \in DOMAIN S : (\A X \in SUBSET DOMAIN S : r \in X /\ Down(X) => d \in X) => d \in C
  BY DEF CollectSubtree
<1>3. ASSUME NEW X \in SUBSET DOMAIN S
      PROVE  Down(X) <=> \A d \in DOMAIN S : S[d].parent \in X => d \in X
  <2>1. \A x \in X : ToSet(S[x].children) = {d \in DOMAIN S : S[d].parent = x}
    BY <1>1 DEF Linked
  <2> QED
    BY <2>1
<1> HIDE DEF Down, C
<1>4. r \in C
  BY <1>2
<1>5. ASSUME NEW d \in DOMAIN S, S[d].parent \in C PROVE d \in C
  <2> SUFFICES ASSUME NEW X \in SUBSET DOMAIN S, r \in X, Down(X) PROVE d \in X
    BY <1>2
  <2>1. S[d].parent \in X
    BY <1>2, <1>5
  <2> QED
    BY <1>3, <2>1
<1>6. ASSUME NEW d \in C, d # r PROVE S[d].parent \in C
  <2> SUFFICES ASSUME S[d].parent \notin C PROVE FALSE
    OBVIOUS
  <2> DEFINE X == C \ {d}
  <2>1. X \in SUBSET DOMAIN S /\ r \in X
    BY <1>2, <1>4, <1>6
  <2>2. \A e \in DOMAIN S : S[e].parent \in X => e \in X
    BY <1>5
  <2>3. Down(X)
    BY <1>3, <2>1, <2>2
  <2> QED
    BY <1>2, <2>1, <2>3
<1>7. S[r].parent \notin C
  <2> SUFFICES ASSUME S[r].parent \in C PROVE FALSE
    OBVIOUS
  <2>1. C \in (SUBSET DOMAIN S) \ {{}} /\ \A d \in C : S[d].parent \in C
    BY <1>2, <1>4, <1>6
  <2> QED
    BY <1>1, <2>1 DEF Ends
<1> QED
  BY <1>2, <1>4, <1>5, <1>6, <1>7 DEF C

\* What is captured.
LEMMA CaptureIs ==
  ASSUME NEW n \in Nat, NEW S, IsScene(S, n), NEW r \in DOMAIN S
  PROVE  LET W == CaptureSubtree(S, r) IN
         /\ IsTree(W, n) /\ IsOf(W, S) /\ IsExact(W, S)
         /\ W.root = r /\ DOMAIN W.nodes = CollectSubtree(S, r)
<1> DEFINE W == CaptureSubtree(S, r)
           C == CollectSubtree(S, r)
           N == Restrict(S, C)
<1>1. /\ S \in [DOMAIN S -> Node] /\ DOMAIN S \subseteq 1..n /\ Linked(S) /\ Ends(S)
      /\ \A id \in DOMAIN S : S[id].parent \in DOMAIN S \cup {0}
  BY DEF IsScene, IsNodes
<1>2. /\ r \in C /\ C \subseteq DOMAIN S /\ S[r].parent \notin C
      /\ \A id \in DOMAIN S \ {r} : id \in C <=> S[id].parent \in C
  BY SubtreeIs
<1>3. W.root = r /\ W.index = SiblingIndexOf(S, r) /\ W.nodes = N
  BY DEF CaptureSubtree
<1>4. DOMAIN N = C /\ N = [id \in C |-> S[id]]
  BY DEF Restrict
<1> HIDE DEF C, N, W
<1>5. \A id \in C : N[id] = S[id]
  BY <1>4
<1>6. ASSUME NEW id \in C
      PROVE  IsList(N[id].children) /\ ToSet(N[id].children) = {d \in DOMAIN N : N[d].parent = id}
  <2>1. IsList(S[id].children) /\ ToSet(S[id].children) = {d \in DOMAIN S : S[d].parent = id}
    BY <1>1, <1>2 DEF Linked
  <2>2. {d \in DOMAIN S : S[d].parent = id} = {d \in DOMAIN N : N[d].parent = id}
    BY <1>2, <1>4, <1>5
  <2> QED
    BY <1>5, <2>1, <2>2
<1>7. Linked(N)
  BY <1>4, <1>6 DEF Linked
<1>8. Ends(N)
  BY <1>1, <1>2, <1>4, <1>5 DEF Ends
<1>9. N \in [DOMAIN N -> Node] /\ DOMAIN N \subseteq 1..n
  BY <1>1, <1>2, <1>4
<1>10. SiblingIndexOf(S, r) \in Nat
  <2>1. CASE S[r].parent = 0
    BY <2>1 DEF SiblingIndexOf
  <2>2. CASE S[r].parent # 0
    <3> DEFINE l == S[S[r].parent].children
    <3>1. S[r].parent \in DOMAIN S
      BY <1>1, <2>2
    <3>2. IsList(l) /\ r \in ToSet(l)
      BY <1>1, <3>1 DEF Linked
    <3>3. Place(l, r) - 1 \in Nat
      BY <3>2, PutBack
    <3> QED
      BY <2>2, <3>3 DEF SiblingIndexOf
  <2> QED
    BY <2>1, <2>2
<1>11. IsTree(W, n)
  BY <1>2, <1>3, <1>4, <1>5, <1>7, <1>8, <1>9, <1>10 DEF IsTree, IsNodes
<1>12. IsOf(W, S)
  BY <1>2, <1>3, <1>4, <1>5 DEF IsOf
<1>13. IsExact(W, S)
  BY <1>3, <1>4, <1>5 DEF IsExact
<1> QED
  BY <1>3, <1>4, <1>11, <1>12, <1>13 DEF W, C

-----------------------------------------------------------------------------
(* Components *)

\* The same entities, with the same parents.
Alike(S, T) == DOMAIN S = DOMAIN T /\ \A id \in DOMAIN S : S[id].parent = T[id].parent

\* Only values differ.
Valued(S, T) ==
  /\ DOMAIN T = DOMAIN S /\ T = [id \in DOMAIN T |-> T[id]]
  /\ \A id \in DOMAIN S :
       \E v \in Component : T[id] = [parent |-> S[id].parent, children |-> S[id].children, value |-> v]

LEMMA ValuedIs ==
  ASSUME NEW n \in Nat, NEW S, IsScene(S, n), NEW T, Valued(S, T)
  PROVE  IsScene(T, n) /\ Alike(T, S)
<1>1. /\ S \in [DOMAIN S -> Node] /\ DOMAIN S \subseteq 1..n /\ Linked(S) /\ Ends(S)
      /\ \A id \in DOMAIN S : S[id].parent \in DOMAIN S \cup {0}
  BY DEF IsScene, IsNodes
<1>2. DOMAIN T = DOMAIN S /\ T = [id \in DOMAIN T |-> T[id]]
  BY DEF Valued
<1>3. ASSUME NEW id \in DOMAIN S
      PROVE  T[id] \in Node /\ T[id].parent = S[id].parent /\ T[id].children = S[id].children
  <2>1. PICK v \in Component : T[id] = [parent |-> S[id].parent, children |-> S[id].children, value |-> v]
    BY DEF Valued
  <2>2. S[id] \in Node
    BY <1>1
  <2> QED
    BY <2>1, <2>2 DEF Node
<1>4. T \in [DOMAIN T -> Node]
  BY <1>2, <1>3
<1>5. Linked(T)
  <2> SUFFICES ASSUME NEW id \in DOMAIN S
               PROVE  IsList(T[id].children) /\ ToSet(T[id].children) = {c \in DOMAIN T : T[c].parent = id}
    BY <1>2 DEF Linked
  <2>1. {c \in DOMAIN T : T[c].parent = id} = {c \in DOMAIN S : S[c].parent = id}
    BY <1>2, <1>3
  <2> QED
    BY <1>1, <1>3, <2>1 DEF Linked
<1>6. Ends(T)
  BY <1>1, <1>2, <1>3 DEF Ends
<1> QED
  BY <1>1, <1>2, <1>3, <1>4, <1>5, <1>6 DEF IsScene, IsNodes, Alike

\* Setting values.
LEMMA SetIs ==
  ASSUME NEW n \in Nat, NEW S, IsScene(S, n), NEW D, NEW f \in [D -> Component]
  PROVE  Valued(S, [id \in DOMAIN S |-> IF id \in D THEN [S[id] EXCEPT !.value = f[id]] ELSE S[id]])
<1> DEFINE T == [id \in DOMAIN S |-> IF id \in D THEN [S[id] EXCEPT !.value = f[id]] ELSE S[id]]
<1>1. ASSUME NEW id \in DOMAIN S
      PROVE  \E v \in Component : T[id] = [parent |-> S[id].parent, children |-> S[id].children, value |-> v]
  <2>1. S[id] \in Node
    BY DEF IsScene, IsNodes
  <2>2. S[id].value \in Component
    BY <2>1 DEF Node
  <2>3. CASE id \in D
    <3>1. T[id] = [S[id] EXCEPT !.value = f[id]] /\ f[id] \in Component
      BY <2>3
    <3>2. [S[id] EXCEPT !.value = f[id]] = [parent |-> S[id].parent, children |-> S[id].children, value |-> f[id]]
      BY <2>1 DEF Node
    <3> HIDE DEF T
    <3> QED
      BY <3>1, <3>2
  <2>4. CASE id \notin D
    <3>1. T[id] = S[id]
      BY <2>4
    <3>2. S[id] = [parent |-> S[id].parent, children |-> S[id].children, value |-> S[id].value]
      BY <2>1 DEF Node
    <3> HIDE DEF T
    <3> QED
      BY <2>2, <3>1, <3>2
  <2> QED
    BY <2>3, <2>4
<1>2. DOMAIN T = DOMAIN S /\ T = [id \in DOMAIN T |-> T[id]]
  OBVIOUS
<1> HIDE DEF T
<1>3. Valued(S, T)
  BY <1>1, <1>2 DEF Valued
<1> QED
  BY <1>3 DEF T

LEMMA ReplacedIs ==
  ASSUME NEW n \in Nat, NEW S, IsScene(S, n), NEW f, f \in [DOMAIN f -> Component]
  PROVE  IsScene(Replaced(S, f), n) /\ Alike(Replaced(S, f), S)
<1> DEFINE D == {id \in DOMAIN f : Has(S, id)}
           g == [id \in D |-> f[id]]
<1>1. g \in [D -> Component]
  OBVIOUS
<1>2. Replaced(S, f) = [id \in DOMAIN S |-> IF id \in D THEN [S[id] EXCEPT !.value = g[id]] ELSE S[id]]
  BY DEF Replaced
<1> HIDE DEF D, g
<1>3. Valued(S, Replaced(S, f))
  BY <1>1, <1>2, SetIs
<1> QED
  BY <1>3, ValuedIs

LEMMA TakenIs ==
  ASSUME NEW n \in Nat, NEW S, IsScene(S, n), NEW c
  PROVE  IsScene(Taken(S, c), n) /\ Alike(Taken(S, c), S)
<1> DEFINE f == [bare \in {c} |-> None]
<1>1. f \in [DOMAIN f -> Component]
  BY DEF Component
<1> HIDE DEF f
<1>2. IsScene(Replaced(S, f), n) /\ Alike(Replaced(S, f), S)
  BY <1>1, ReplacedIs
<1> QED
  BY <1>2 DEF Taken, f

LEMMA AddedIs ==
  ASSUME NEW n \in Nat, NEW S, IsScene(S, n), NEW c, NEW v \in Component
  PROVE  IsScene(Added(S, c, v), n) /\ Alike(Added(S, c, v), S)
<1>1. CASE c \in DOMAIN S /\ ~Has(S, c)
  <2> DEFINE f == [id \in {c} |-> v]
  <2>1. f \in [{c} -> Component]
    OBVIOUS
  <2>2. [S EXCEPT ![c].value = v] = [id \in DOMAIN S |-> IF id \in {c} THEN [S[id] EXCEPT !.value = f[id]] ELSE S[id]]
    <3>1. S = [id \in DOMAIN S |-> S[id]]
      BY DEF IsScene, IsNodes
    <3> QED
      BY <3>1
  <2> HIDE DEF f
  <2>3. Valued(S, [S EXCEPT ![c].value = v])
    BY <2>1, <2>2, SetIs
  <2> QED
    BY <1>1, <2>3, ValuedIs DEF Added
<1>2. CASE ~(c \in DOMAIN S /\ ~Has(S, c))
  <2>1. Added(S, c, v) = S
    BY <1>2 DEF Added
  <2> QED
    BY <2>1 DEF Alike
<1> QED
  BY <1>1, <1>2

-----------------------------------------------------------------------------
(* What a command leads between *)

\* An entity has other parents in A and in B.
Replaces(id, A, B) ==
  /\ DOMAIN A = DOMAIN B /\ id \in DOMAIN A
  /\ \A other \in DOMAIN A \ {id} : A[other].parent = B[other].parent

\* A command leads from where A is to where B is.
Leads(c, A, B, n) ==
  \/ /\ c.kind = "edit" /\ Alike(A, B)
     /\ c.before \in [DOMAIN c.before -> Component] /\ c.after \in [DOMAIN c.before -> Component]
  \/ /\ c.kind \in {"add component", "remove component"} /\ Alike(A, B) /\ c.value \in Component
  \/ /\ c.kind = "reparent" /\ Replaces(c.id, A, B) /\ c.oldIndex \in Nat /\ c.newIndex \in Nat
     /\ c.oldParent = A[c.id].parent /\ c.newParent = B[c.id].parent
  \/ c.kind = "delete entities" /\ Grown(c.snapshot, A, B, n)
  \/ c.kind = "add entities" /\ Grown(c.snapshot, B, A, n)

LEMMA MovedIs ==
  ASSUME NEW n \in Nat, NEW A, IsScene(A, n), NEW B, NEW c, Replaces(c, A, B),
         NEW S, IsScene(S, n), Alike(S, B), NEW i \in Nat
  PROVE  /\ Moved(S, c, A[c].parent, i) = Placed(S, c, A[c].parent, i)
         /\ IsScene(Moved(S, c, A[c].parent, i), n)
         /\ Alike(Moved(S, c, A[c].parent, i), A)
<1> DEFINE p == A[c].parent
<1>1. c \in DOMAIN S /\ DOMAIN S = DOMAIN A /\ p \in DOMAIN S \cup {0} /\ 0 \notin DOMAIN S
  BY DEF IsScene, IsNodes, Replaces, Alike
<1>2. \A id \in DOMAIN S \ {c} : S[id].parent = A[id].parent
  BY DEF Replaces, Alike
<1>3. Ends(A)
  BY DEF IsScene, IsNodes
<1>4. p \in DOMAIN S => c \notin Above(S, p)
  <2> SUFFICES ASSUME p \in DOMAIN S PROVE c \notin Above(S, p)
    OBVIOUS
  <2>1. c \notin Above(A, p)
    BY <1>1, <1>3, NotAboveParent
  <2> HIDE DEF p
  <2> QED
    BY ONLY <1>1, <1>2, <2>1, p \in DOMAIN S, AboveSame
<1> HIDE DEF p
<1>5. Moved(S, c, p, i) = SetParentAtIndex(S, c, p, i)
  <2>1. (IF p \in DOMAIN S THEN p ELSE 0) = p
    BY <1>1
  <2> QED
    BY <1>1, <2>1 DEF Moved
<1>6. SetParentAtIndex(S, c, p, i) = Placed(S, c, p, i)
  BY <1>1, <1>4, SetParentAtIndexIs
<1>7. IsScene(Placed(S, c, p, i), n)
  BY <1>1, <1>4, PlacedIs
<1>8. Alike(Placed(S, c, p, i), A)
  BY <1>1, <1>2 DEF Alike, Placed, p
<1> QED
  BY <1>5, <1>6, <1>7, <1>8 DEF p

LEMMA RemovedLeads ==
  ASSUME NEW n \in Nat, NEW A, NEW B, NEW W, Grown(W, A, B, n), NEW S, IsScene(S, n), Alike(S, A)
  PROVE  /\ IsOf(W, S) /\ IsScene(RemoveSubtree(S, W), n) /\ Alike(RemoveSubtree(S, W), B)
<1>1. IsTree(W, n) /\ IsOf(W, S)
  BY DEF Grown, IsOf, Alike
<1>2. IsScene(RemoveSubtree(S, W), n) /\ Grown(W, S, RemoveSubtree(S, W), n)
  BY <1>1, RemovedIs
<1>3. Alike(RemoveSubtree(S, W), B)
  BY <1>2 DEF Grown, Alike, IsFreeOf
<1> QED
  BY <1>1, <1>2, <1>3

LEMMA RestoredLeads ==
  ASSUME NEW n \in Nat, NEW A, NEW B, NEW W, Grown(W, A, B, n), NEW S, IsScene(S, n), Alike(S, B)
  PROVE  /\ RestoreSubtree(S, W) = Rejoined(S, W)
         /\ IsScene(RestoreSubtree(S, W), n) /\ Alike(RestoreSubtree(S, W), A)
<1>1. IsTree(W, n) /\ IsFreeOf(W, S)
  BY DEF Grown, IsFreeOf, Alike
<1>2. RestoreSubtree(S, W) = Rejoined(S, W)
  BY <1>1, RestoredIs
<1>3. IsScene(Rejoined(S, W), n) /\ Grown(W, Rejoined(S, W), S, n)
  BY <1>1, RejoinedIs
<1>4. Alike(Rejoined(S, W), A)
  BY <1>3 DEF Grown, Alike, IsOf
<1> QED
  BY <1>2, <1>3, <1>4

LEMMA AlikeTwice ==
  ASSUME NEW A, NEW B, NEW C, Alike(A, B), Alike(B, C)
  PROVE  Alike(A, C) /\ Alike(B, A)
BY DEF Alike

LEMMA UndoLeads ==
  ASSUME NEW n \in Nat, NEW A, IsScene(A, n), NEW B, NEW c, Leads(c, A, B, n),
         NEW S, IsScene(S, n), Alike(S, B)
  PROVE  IsScene(UndoOne(S, c), n) /\ Alike(UndoOne(S, c), A)
<1>1. CASE c.kind = "edit"
  <2>1. Alike(B, A) /\ c.before \in [DOMAIN c.before -> Component]
    BY <1>1 DEF Leads, Alike
  <2>2. UndoOne(S, c) = Replaced(S, c.before)
    BY <1>1 DEF UndoOne
  <2> QED
    BY <2>1, <2>2, ReplacedIs, AlikeTwice
<1>2. CASE c.kind = "add component"
  <2>1. Alike(B, A)
    BY <1>2 DEF Leads, Alike
  <2>2. UndoOne(S, c) = Taken(S, c.id)
    BY <1>2 DEF UndoOne
  <2> QED
    BY <2>1, <2>2, TakenIs, AlikeTwice
<1>3. CASE c.kind = "remove component"
  <2>1. Alike(B, A) /\ c.value \in Component
    BY <1>3 DEF Leads, Alike
  <2>2. UndoOne(S, c) = Added(S, c.id, c.value)
    BY <1>3 DEF UndoOne
  <2> QED
    BY <2>1, <2>2, AddedIs, AlikeTwice
<1>4. CASE c.kind = "reparent"
  <2>1. Replaces(c.id, A, B) /\ c.oldIndex \in Nat /\ c.oldParent = A[c.id].parent
    BY <1>4 DEF Leads
  <2>2. UndoOne(S, c) = Moved(S, c.id, c.oldParent, c.oldIndex)
    BY <1>4 DEF UndoOne
  <2> QED
    BY <2>1, <2>2, MovedIs
<1>5. CASE c.kind = "add entities"
  <2>1. Grown(c.snapshot, B, A, n)
    BY <1>5 DEF Leads
  <2>2. UndoOne(S, c) = RemoveSubtree(S, c.snapshot)
    BY <1>5 DEF UndoOne
  <2> QED
    BY <2>1, <2>2, RemovedLeads
<1>6. CASE c.kind = "delete entities"
  <2>1. Grown(c.snapshot, A, B, n)
    BY <1>6 DEF Leads
  <2>2. UndoOne(S, c) = RestoreSubtree(S, c.snapshot)
    BY <1>6 DEF UndoOne
  <2> QED
    BY <2>1, <2>2, RestoredLeads
<1> QED
  BY <1>1, <1>2, <1>3, <1>4, <1>5, <1>6 DEF Leads

LEMMA ReplacesBack ==
  ASSUME NEW A, NEW B, NEW c, Replaces(c, A, B)
  PROVE  Replaces(c, B, A)
BY DEF Replaces

LEMMA RedoLeads ==
  ASSUME NEW n \in Nat, NEW A, NEW B, IsScene(B, n), NEW c, Leads(c, A, B, n),
         NEW S, IsScene(S, n), Alike(S, A)
  PROVE  IsScene(RedoOne(S, c), n) /\ Alike(RedoOne(S, c), B)
<1>1. CASE c.kind = "edit"
  <2>1. Alike(A, B) /\ c.after \in [DOMAIN c.after -> Component]
    <3>1. Alike(A, B) /\ c.after \in [DOMAIN c.before -> Component]
      BY <1>1 DEF Leads
    <3> QED
      BY <3>1
  <2>2. RedoOne(S, c) = Replaced(S, c.after)
    BY <1>1 DEF RedoOne
  <2> QED
    BY <2>1, <2>2, ReplacedIs, AlikeTwice
<1>2. CASE c.kind = "add component"
  <2>1. Alike(A, B) /\ c.value \in Component
    BY <1>2 DEF Leads
  <2>2. RedoOne(S, c) = Added(S, c.id, c.value)
    BY <1>2 DEF RedoOne
  <2> QED
    BY <2>1, <2>2, AddedIs, AlikeTwice
<1>3. CASE c.kind = "remove component"
  <2>1. Alike(A, B)
    BY <1>3 DEF Leads
  <2>2. RedoOne(S, c) = Taken(S, c.id)
    BY <1>3 DEF RedoOne
  <2> QED
    BY <2>1, <2>2, TakenIs, AlikeTwice
<1>4. CASE c.kind = "reparent"
  <2>1. Replaces(c.id, B, A) /\ c.newIndex \in Nat /\ c.newParent = B[c.id].parent
    BY <1>4, ReplacesBack DEF Leads
  <2>2. RedoOne(S, c) = Moved(S, c.id, c.newParent, c.newIndex)
    BY <1>4 DEF RedoOne
  <2> QED
    BY <2>1, <2>2, MovedIs
<1>5. CASE c.kind = "add entities"
  <2>1. Grown(c.snapshot, B, A, n)
    BY <1>5 DEF Leads
  <2>2. RedoOne(S, c) = RestoreSubtree(S, c.snapshot)
    BY <1>5 DEF RedoOne
  <2> QED
    BY <2>1, <2>2, RestoredLeads
<1>6. CASE c.kind = "delete entities"
  <2>1. Grown(c.snapshot, A, B, n)
    BY <1>6 DEF Leads
  <2>2. RedoOne(S, c) = RemoveSubtree(S, c.snapshot)
    BY <1>6 DEF RedoOne
  <2> QED
    BY <2>1, <2>2, RemovedLeads
<1> QED
  BY <1>1, <1>2, <1>3, <1>4, <1>5, <1>6 DEF Leads

\* An entry leads there by one command or by two.
EntryLeads(e, A, B, n) ==
  \/ Len(e) = 1 /\ Leads(e[1], A, B, n)
  \/ /\ Len(e) = 2
     /\ \E M : IsScene(M, n) /\ Leads(e[1], A, M, n) /\ Leads(e[2], M, B, n)

LEMMA UndoAllLeads ==
  ASSUME NEW n \in Nat, NEW A, IsScene(A, n), NEW B, NEW e, EntryLeads(e, A, B, n),
         NEW S, IsScene(S, n), Alike(S, B)
  PROVE  IsScene(UndoAll(S, e), n) /\ Alike(UndoAll(S, e), A)
<1>1. CASE Len(e) = 1
  BY <1>1, UndoLeads DEF EntryLeads, UndoAll
<1>2. CASE Len(e) = 2
  <2>1. PICK M : IsScene(M, n) /\ Leads(e[1], A, M, n) /\ Leads(e[2], M, B, n)
    BY <1>2 DEF EntryLeads
  <2>2. IsScene(UndoOne(S, e[2]), n) /\ Alike(UndoOne(S, e[2]), M)
    BY <2>1, UndoLeads
  <2>3. /\ IsScene(UndoOne(UndoOne(S, e[2]), e[1]), n)
        /\ Alike(UndoOne(UndoOne(S, e[2]), e[1]), A)
    BY <2>1, <2>2, UndoLeads
  <2> QED
    BY <1>2, <2>3 DEF UndoAll
<1> QED
  BY <1>1, <1>2 DEF EntryLeads

LEMMA RedoAllLeads ==
  ASSUME NEW n \in Nat, NEW A, NEW B, IsScene(B, n), NEW e, EntryLeads(e, A, B, n),
         NEW S, IsScene(S, n), Alike(S, A)
  PROVE  IsScene(RedoAll(S, e), n) /\ Alike(RedoAll(S, e), B)
<1>1. CASE Len(e) = 1
  BY <1>1, RedoLeads DEF EntryLeads, RedoAll
<1>2. CASE Len(e) = 2
  <2>1. PICK M : IsScene(M, n) /\ Leads(e[1], A, M, n) /\ Leads(e[2], M, B, n)
    BY <1>2 DEF EntryLeads
  <2>2. IsScene(RedoOne(S, e[1]), n) /\ Alike(RedoOne(S, e[1]), M)
    BY <2>1, RedoLeads
  <2>3. /\ IsScene(RedoOne(RedoOne(S, e[1]), e[2]), n)
        /\ Alike(RedoOne(RedoOne(S, e[1]), e[2]), B)
    BY <2>1, <2>2, RedoLeads
  <2> QED
    BY <1>2, <2>3 DEF RedoAll
<1> QED
  BY <1>1, <1>2 DEF EntryLeads

\* More ids do no harm.
LEMMA MoreIds ==
  ASSUME NEW n \in Nat, NEW m \in Nat, n <= m
  PROVE  /\ \A S : IsScene(S, n) => IsScene(S, m)
         /\ \A e, A, B : EntryLeads(e, A, B, n) => EntryLeads(e, A, B, m)
<1>1. 1..n \subseteq 1..m
  OBVIOUS
<1>2. \A N : IsNodes(N, n) => IsNodes(N, m)
  BY <1>1 DEF IsNodes
<1>3. \A S : IsScene(S, n) => IsScene(S, m)
  BY <1>2 DEF IsScene
<1>4. \A W, A, B : Grown(W, A, B, n) => Grown(W, A, B, m)
  BY <1>2 DEF Grown, IsTree
<1>5. ASSUME NEW c, NEW A, NEW B, Leads(c, A, B, n) PROVE Leads(c, A, B, m)
  <2>1. /\ Grown(c.snapshot, A, B, n) => Grown(c.snapshot, A, B, m)
        /\ Grown(c.snapshot, B, A, n) => Grown(c.snapshot, B, A, m)
    BY <1>4
  <2> QED
    BY <1>5, <2>1 DEF Leads
<1>6. ASSUME NEW e, NEW A, NEW B, EntryLeads(e, A, B, n)
      PROVE  EntryLeads(e, A, B, m)
  <2>1. CASE Len(e) = 1
    BY <1>5, <1>6, <2>1 DEF EntryLeads
  <2>2. CASE Len(e) = 2
    BY <1>3, <1>5, <1>6, <2>2 DEF EntryLeads
  <2> QED
    BY <1>6, <2>1, <2>2 DEF EntryLeads
<1> QED
  BY <1>3, <1>6

-----------------------------------------------------------------------------
(* What a held widget changes is beside the commands that do not touch it *)

Settle(S, f) ==
  [id \in DOMAIN S |-> IF id \in DOMAIN f THEN [S[id] EXCEPT !.value = f[id]] ELSE S[id]]

\* The value of an entity when f says it.
Said(S, f, id) == IF id \in DOMAIN f THEN f[id] ELSE S[id].value

IsSettled(T, S, f) ==
  /\ DOMAIN T = DOMAIN S
  /\ \A id \in DOMAIN S :
       T[id].parent = S[id].parent /\ T[id].children = S[id].children /\ T[id].value = Said(S, f, id)

LEMMA SettleIs ==
  ASSUME NEW n \in Nat, NEW S, IsScene(S, n), NEW f, f \in [DOMAIN f -> Component]
  PROVE  IsScene(Settle(S, f), n) /\ Alike(Settle(S, f), S) /\ IsSettled(Settle(S, f), S, f)
<1> DEFINE T == Settle(S, f)
<1>1. Valued(S, T)
  BY SetIs DEF Settle
<1>2. IsScene(T, n) /\ Alike(T, S)
  BY <1>1, ValuedIs
<1>3. DOMAIN T = DOMAIN S
  BY DEF Settle
<1>4. ASSUME NEW id \in DOMAIN S
      PROVE  /\ T[id].parent = S[id].parent
             /\ T[id].children = S[id].children
             /\ T[id].value = Said(S, f, id)
  <2>1. S[id] \in Node
    BY DEF IsScene, IsNodes
  <2>2. S[id] = [parent |-> S[id].parent, children |-> S[id].children, value |-> S[id].value]
    BY <2>1 DEF Node
  <2>3. T[id] = IF id \in DOMAIN f THEN [S[id] EXCEPT !.value = f[id]] ELSE S[id]
    BY DEF Settle
  <2> HIDE DEF T
  <2>4. CASE id \in DOMAIN f
    BY <2>2, <2>3, <2>4 DEF Said
  <2>5. CASE id \notin DOMAIN f
    BY <2>2, <2>3, <2>5 DEF Said
  <2> QED
    BY <2>4, <2>5
<1> HIDE DEF T
<1>5. IsSettled(T, S, f)
  BY <1>3, <1>4 DEF IsSettled
<1> QED
  BY <1>2, <1>5 DEF T

\* Two scenes are the same if every entity is.
LEMMA SameScene ==
  ASSUME NEW n \in Nat, NEW S, IsScene(S, n), NEW T, IsScene(T, n), DOMAIN S = DOMAIN T,
         \A id \in DOMAIN S :
           S[id].parent = T[id].parent /\ S[id].children = T[id].children /\ S[id].value = T[id].value
  PROVE  S = T
<1>1. S = [id \in DOMAIN S |-> S[id]] /\ T = [id \in DOMAIN T |-> T[id]]
  BY DEF IsScene, IsNodes
<1>2. ASSUME NEW id \in DOMAIN S PROVE S[id] = T[id]
  <2>1. S[id] \in Node /\ T[id] \in Node
    BY DEF IsScene, IsNodes
  <2> QED
    BY <2>1 DEF Node
<1> QED
  BY <1>1, <1>2

LEMMA SettlePlaced ==
  ASSUME NEW n \in Nat, NEW S, IsScene(S, n), NEW f, f \in [DOMAIN f -> Component],
         NEW c, NEW p, NEW i, IsScene(Placed(S, c, p, i), n),
         IsScene(Placed(Settle(S, f), c, p, i), n)
  PROVE  Placed(Settle(S, f), c, p, i) = Settle(Placed(S, c, p, i), f)
<1> DEFINE U == Placed(S, c, p, i)
           V == Placed(Settle(S, f), c, p, i)
           T == Settle(S, f)
<1>1. /\ DOMAIN T = DOMAIN S
      /\ \A id \in DOMAIN S :
           T[id].parent = S[id].parent /\ T[id].children = S[id].children /\ T[id].value = Said(S, f, id)
  <2>1. IsSettled(T, S, f)
    BY SettleIs
  <2> QED
    BY ONLY <2>1 DEF IsSettled
<1>2. /\ IsScene(Settle(U, f), n) /\ DOMAIN Settle(U, f) = DOMAIN U
      /\ \A id \in DOMAIN U :
           /\ Settle(U, f)[id].parent = U[id].parent
           /\ Settle(U, f)[id].children = U[id].children
           /\ Settle(U, f)[id].value = Said(U, f, id)
  <2>1. IsScene(Settle(U, f), n) /\ IsSettled(Settle(U, f), U, f)
    BY SettleIs
  <2> QED
    BY ONLY <2>1 DEF IsSettled
<1>3. /\ DOMAIN U = DOMAIN S
      /\ \A id \in DOMAIN S :
           /\ U[id].parent = IF id = c THEN p ELSE S[id].parent
           /\ U[id].children = Listed(S[id].children, c, id, p, i)
           /\ U[id].value = S[id].value
  BY DEF Placed
<1> HIDE DEF U, T
<1>4. /\ DOMAIN V = DOMAIN T
      /\ \A id \in DOMAIN T :
           /\ V[id].parent = IF id = c THEN p ELSE T[id].parent
           /\ V[id].children = Listed(T[id].children, c, id, p, i)
           /\ V[id].value = T[id].value
  BY DEF Placed, T
<1> HIDE DEF V
<1>5. \A id \in DOMAIN S : Said(U, f, id) = Said(S, f, id)
  BY <1>3 DEF Said
<1>6. V = Settle(U, f)
  <2>1. IsScene(V, n)
    BY DEF V
  <2>2. ASSUME NEW id \in DOMAIN V
        PROVE  /\ V[id].parent = Settle(U, f)[id].parent
               /\ V[id].children = Settle(U, f)[id].children
               /\ V[id].value = Settle(U, f)[id].value
    BY <1>1, <1>2, <1>3, <1>4, <1>5
  <2> QED
    BY <1>1, <1>2, <1>3, <1>4, <2>1, <2>2, SameScene
<1> QED
  BY <1>6 DEF U, V

LEMMA SettleCut ==
  ASSUME NEW n \in Nat, NEW S, IsScene(S, n), NEW f, f \in [DOMAIN f -> Component],
         NEW W, IsTree(W, n), IsOf(W, S)
  PROVE  RemoveSubtree(Settle(S, f), W) = Settle(RemoveSubtree(S, W), f)
<1> DEFINE T == Settle(S, f)
           U == RemoveSubtree(S, W)
           V == RemoveSubtree(T, W)
<1>1. /\ DOMAIN T = DOMAIN S /\ IsScene(T, n)
      /\ \A id \in DOMAIN S :
           T[id].parent = S[id].parent /\ T[id].children = S[id].children /\ T[id].value = Said(S, f, id)
  <2>1. IsScene(T, n) /\ IsSettled(T, S, f)
    BY SettleIs
  <2> QED
    BY ONLY <2>1 DEF IsSettled
<1>2. IsOf(W, T)
  BY <1>1 DEF IsOf
<1>3. U = Cut(S, W) /\ IsScene(U, n)
  BY RemovedIs
<1>4. V = Cut(T, W) /\ IsScene(V, n)
  <2> HIDE DEF T
  <2> QED
    BY <1>1, <1>2, RemovedIs
<1> HIDE DEF U, V, T
<1>5. /\ IsScene(Settle(U, f), n) /\ DOMAIN Settle(U, f) = DOMAIN U
      /\ \A id \in DOMAIN U :
           /\ Settle(U, f)[id].parent = U[id].parent
           /\ Settle(U, f)[id].children = U[id].children
           /\ Settle(U, f)[id].value = Said(U, f, id)
  <2>1. IsScene(Settle(U, f), n) /\ IsSettled(Settle(U, f), U, f)
    BY <1>3, SettleIs
  <2> QED
    BY ONLY <2>1 DEF IsSettled
<1>6. /\ DOMAIN U = DOMAIN S \ DOMAIN W.nodes
      /\ \A id \in DOMAIN U :
           /\ U[id].parent = S[id].parent
           /\ U[id].children = Without(S[id].children, W.root)
           /\ U[id].value = S[id].value
  BY <1>3 DEF Cut
<1>7. /\ DOMAIN V = DOMAIN T \ DOMAIN W.nodes
      /\ \A id \in DOMAIN V :
           /\ V[id].parent = T[id].parent
           /\ V[id].children = Without(T[id].children, W.root)
           /\ V[id].value = T[id].value
  BY <1>4 DEF Cut
<1>8. ASSUME NEW id \in DOMAIN V
      PROVE  /\ V[id].parent = Settle(U, f)[id].parent
             /\ V[id].children = Settle(U, f)[id].children
             /\ V[id].value = Settle(U, f)[id].value
  <2>1. id \in DOMAIN U /\ id \in DOMAIN S
    BY <1>1, <1>6, <1>7
  <2>2. Said(U, f, id) = Said(S, f, id)
    BY <1>6, <2>1 DEF Said
  <2> QED
    BY <1>1, <1>5, <1>6, <1>7, <2>1, <2>2
<1>9. V = Settle(U, f)
  BY <1>1, <1>4, <1>5, <1>6, <1>7, <1>8, SameScene
<1> QED
  BY <1>9 DEF T, U, V

LEMMA SettleRejoined ==
  ASSUME NEW n \in Nat, NEW S, IsScene(S, n), NEW f, f \in [DOMAIN f -> Component],
         NEW W, IsTree(W, n), IsFreeOf(W, S), DOMAIN f \cap DOMAIN W.nodes = {}
  PROVE  Rejoined(Settle(S, f), W) = Settle(Rejoined(S, W), f)
<1> DEFINE T == Settle(S, f)
           U == Rejoined(S, W)
           V == Rejoined(T, W)
           N == W.nodes
           put(X, id) == IF id = N[W.root].parent THEN PutAt(X[id].children, W.root, W.index)
                         ELSE X[id].children
<1>1. /\ DOMAIN T = DOMAIN S /\ IsScene(T, n)
      /\ \A id \in DOMAIN S :
           T[id].parent = S[id].parent /\ T[id].children = S[id].children /\ T[id].value = Said(S, f, id)
  <2>1. IsScene(T, n) /\ IsSettled(T, S, f)
    BY SettleIs
  <2> QED
    BY ONLY <2>1 DEF IsSettled
<1>2. IsFreeOf(W, T)
  BY <1>1 DEF IsFreeOf
<1>3. IsScene(U, n)
  BY RejoinedIs
<1>4. IsScene(V, n)
  <2> HIDE DEF T
  <2> QED
    BY <1>1, <1>2, RejoinedIs
<1>a. DOMAIN N \cap DOMAIN S = {}
  BY DEF IsFreeOf
<1>6. /\ DOMAIN U = DOMAIN S \cup DOMAIN N
      /\ \A id \in DOMAIN N : U[id] = N[id]
      /\ \A id \in DOMAIN S :
           U[id].parent = S[id].parent /\ U[id].children = put(S, id) /\ U[id].value = S[id].value
  BY <1>a DEF Rejoined
<1>7. /\ DOMAIN V = DOMAIN T \cup DOMAIN N
      /\ \A id \in DOMAIN N : V[id] = N[id]
      /\ \A id \in DOMAIN T :
           V[id].parent = T[id].parent /\ V[id].children = put(T, id) /\ V[id].value = T[id].value
  <2> HIDE DEF T
  <2> QED
    BY <1>a, <1>1 DEF Rejoined
<1> HIDE DEF U, V, T
<1>5. /\ IsScene(Settle(U, f), n) /\ DOMAIN Settle(U, f) = DOMAIN U
      /\ \A id \in DOMAIN U :
           /\ Settle(U, f)[id].parent = U[id].parent
           /\ Settle(U, f)[id].children = U[id].children
           /\ Settle(U, f)[id].value = Said(U, f, id)
  <2>1. IsScene(Settle(U, f), n) /\ IsSettled(Settle(U, f), U, f)
    BY <1>3, SettleIs
  <2> QED
    BY ONLY <2>1 DEF IsSettled
<1>b. \A id \in DOMAIN S : put(T, id) = put(S, id)
  BY <1>1
<1> HIDE DEF put
<1>8. ASSUME NEW id \in DOMAIN V
      PROVE  /\ V[id].parent = Settle(U, f)[id].parent
             /\ V[id].children = Settle(U, f)[id].children
             /\ V[id].value = Settle(U, f)[id].value
  <2>1. CASE id \in DOMAIN N
    <3>1. id \in DOMAIN U /\ Said(U, f, id) = U[id].value
      BY <1>6, <2>1 DEF Said
    <3> QED
      BY <1>5, <1>6, <1>7, <2>1, <3>1
  <2>2. CASE id \in DOMAIN S
    <3>1. id \in DOMAIN U /\ id \in DOMAIN T /\ Said(U, f, id) = Said(S, f, id)
      BY <1>1, <1>6, <2>2 DEF Said
    <3> QED
      BY <1>1, <1>5, <1>6, <1>7, <1>b, <2>2, <3>1
  <2> QED
    BY <1>1, <1>7, <2>1, <2>2
<1>9. V = Settle(U, f)
  BY <1>1, <1>4, <1>5, <1>6, <1>7, <1>8, SameScene
<1> QED
  BY <1>9 DEF T, U, V

LEMMA ReplacedFields ==
  ASSUME NEW n \in Nat, NEW S, IsScene(S, n), NEW g
  PROVE  /\ DOMAIN Replaced(S, g) = DOMAIN S
         /\ \A id \in DOMAIN S :
              /\ Replaced(S, g)[id].parent = S[id].parent
              /\ Replaced(S, g)[id].children = S[id].children
              /\ Replaced(S, g)[id].value =
                   IF id \in DOMAIN g /\ S[id].value # None THEN g[id] ELSE S[id].value
<1>1. DOMAIN Replaced(S, g) = DOMAIN S
  BY DEF Replaced
<1>2. ASSUME NEW id \in DOMAIN S
      PROVE  /\ Replaced(S, g)[id].parent = S[id].parent
             /\ Replaced(S, g)[id].children = S[id].children
             /\ Replaced(S, g)[id].value =
                  IF id \in DOMAIN g /\ S[id].value # None THEN g[id] ELSE S[id].value
  <2>1. S[id] \in Node
    BY DEF IsScene, IsNodes
  <2>2. Replaced(S, g)[id] = IF id \in DOMAIN g /\ S[id].value # None THEN [S[id] EXCEPT !.value = g[id]] ELSE S[id]
    BY DEF Replaced, Has
  <2>3. S[id] = [parent |-> S[id].parent, children |-> S[id].children, value |-> S[id].value]
    BY <2>1 DEF Node
  <2>4. CASE id \in DOMAIN g /\ S[id].value # None
    BY <2>2, <2>3, <2>4
  <2>5. CASE ~(id \in DOMAIN g /\ S[id].value # None)
    BY <2>2, <2>5
  <2> QED
    BY <2>4, <2>5
<1> QED
  BY <1>1, <1>2

LEMMA TakenFields ==
  ASSUME NEW n \in Nat, NEW S, IsScene(S, n), NEW c
  PROVE  /\ DOMAIN Taken(S, c) = DOMAIN S
         /\ \A id \in DOMAIN S :
              /\ Taken(S, c)[id].parent = S[id].parent
              /\ Taken(S, c)[id].children = S[id].children
              /\ Taken(S, c)[id].value = IF id = c THEN None ELSE S[id].value
<1> DEFINE g == [bare \in {c} |-> None]
<1>1. DOMAIN g = {c} /\ g[c] = None
  OBVIOUS
<1> HIDE DEF g
<1>2. Taken(S, c) = Replaced(S, g)
  BY DEF Taken, g
<1>3. /\ DOMAIN Replaced(S, g) = DOMAIN S
      /\ \A id \in DOMAIN S :
           /\ Replaced(S, g)[id].parent = S[id].parent
           /\ Replaced(S, g)[id].children = S[id].children
           /\ Replaced(S, g)[id].value =
                IF id \in DOMAIN g /\ S[id].value # None THEN g[id] ELSE S[id].value
  BY ReplacedFields
<1> QED
  BY <1>1, <1>2, <1>3

LEMMA AddedFields ==
  ASSUME NEW n \in Nat, NEW S, IsScene(S, n), NEW c, NEW v
  PROVE  /\ DOMAIN Added(S, c, v) = DOMAIN S
         /\ \A id \in DOMAIN S :
              /\ Added(S, c, v)[id].parent = S[id].parent
              /\ Added(S, c, v)[id].children = S[id].children
              /\ Added(S, c, v)[id].value = IF id = c /\ S[id].value = None THEN v ELSE S[id].value
<1>1. \A id \in DOMAIN S : S[id] \in Node
  BY DEF IsScene, IsNodes
<1>2. CASE c \in DOMAIN S /\ S[c].value = None
  <2> DEFINE T == [S EXCEPT ![c].value = v]
  <2>1. Added(S, c, v) = T
    BY <1>2 DEF Added, Has
  <2>2. DOMAIN T = DOMAIN S
    OBVIOUS
  <2>3. ASSUME NEW id \in DOMAIN S
        PROVE  /\ T[id].parent = S[id].parent /\ T[id].children = S[id].children
               /\ T[id].value = IF id = c THEN v ELSE S[id].value
    <3>1. S[id] = [parent |-> S[id].parent, children |-> S[id].children, value |-> S[id].value]
      BY <1>1 DEF Node
    <3>2. CASE id = c
      <4>1. T[id] = [S[id] EXCEPT !.value = v]
        BY <3>2
      <4> HIDE DEF T
      <4> QED
        BY <3>1, <3>2, <4>1
    <3>3. CASE id # c
      BY <3>3
    <3> QED
      BY <3>2, <3>3
  <2> HIDE DEF T
  <2> QED
    BY <1>2, <2>1, <2>2, <2>3
<1>3. CASE ~(c \in DOMAIN S /\ S[c].value = None)
  BY <1>3 DEF Added, Has
<1> QED
  BY <1>2, <1>3

LEMMA SettleReplaced ==
  ASSUME NEW n \in Nat, NEW S, IsScene(S, n), NEW f, f \in [DOMAIN f -> Component],
         NEW g, g \in [DOMAIN g -> Component], DOMAIN f \cap DOMAIN g = {}
  PROVE  Replaced(Settle(S, f), g) = Settle(Replaced(S, g), f)
<1> DEFINE T == Settle(S, f)
           U == Replaced(S, g)
           V == Replaced(T, g)
<1>1. IsScene(T, n) /\ IsSettled(T, S, f)
  BY SettleIs
<1> HIDE DEF T
<1>2. IsScene(V, n)
  BY <1>1, ReplacedIs
<1>3. /\ DOMAIN V = DOMAIN T
      /\ \A id \in DOMAIN T :
           /\ V[id].parent = T[id].parent /\ V[id].children = T[id].children
           /\ V[id].value = IF id \in DOMAIN g /\ T[id].value # None THEN g[id] ELSE T[id].value
  BY <1>1, ReplacedFields
<1>4. IsScene(U, n)
  BY ReplacedIs
<1>5. /\ DOMAIN U = DOMAIN S
      /\ \A id \in DOMAIN S :
           /\ U[id].parent = S[id].parent /\ U[id].children = S[id].children
           /\ U[id].value = IF id \in DOMAIN g /\ S[id].value # None THEN g[id] ELSE S[id].value
  BY ReplacedFields
<1> HIDE DEF U, V
<1>6. IsScene(Settle(U, f), n) /\ IsSettled(Settle(U, f), U, f)
  BY <1>4, SettleIs
<1>7. ASSUME NEW id \in DOMAIN V
      PROVE  /\ V[id].parent = Settle(U, f)[id].parent
             /\ V[id].children = Settle(U, f)[id].children
             /\ V[id].value = Settle(U, f)[id].value
  <2>1. id \in DOMAIN S /\ id \in DOMAIN T /\ id \in DOMAIN U
    BY <1>1, <1>3, <1>5 DEF IsSettled
  <2>2. /\ T[id].parent = S[id].parent /\ T[id].children = S[id].children
        /\ T[id].value = IF id \in DOMAIN f THEN f[id] ELSE S[id].value
    BY <1>1, <2>1 DEF IsSettled, Said
  <2>3. /\ Settle(U, f)[id].parent = U[id].parent /\ Settle(U, f)[id].children = U[id].children
        /\ Settle(U, f)[id].value = IF id \in DOMAIN f THEN f[id] ELSE U[id].value
    BY <1>6, <2>1 DEF IsSettled, Said
  <2> QED
    BY <1>3, <1>5, <2>1, <2>2, <2>3
<1>8. V = Settle(U, f)
  <2>1. DOMAIN Settle(U, f) = DOMAIN V
    BY <1>1, <1>3, <1>5, <1>6 DEF IsSettled
  <2> QED
    BY <1>2, <1>6, <1>7, <2>1, SameScene
<1> QED
  BY <1>8 DEF U, V, T

LEMMA SettleTaken ==
  ASSUME NEW n \in Nat, NEW S, IsScene(S, n), NEW f, f \in [DOMAIN f -> Component],
         NEW c, c \notin DOMAIN f
  PROVE  Taken(Settle(S, f), c) = Settle(Taken(S, c), f)
<1> DEFINE g == [bare \in {c} |-> None]
<1>1. g \in [DOMAIN g -> Component] /\ DOMAIN f \cap DOMAIN g = {}
  BY DEF Component
<1> HIDE DEF g
<1>2. Replaced(Settle(S, f), g) = Settle(Replaced(S, g), f)
  BY <1>1, SettleReplaced
<1> QED
  BY <1>2 DEF Taken, g

LEMMA SettleAdded ==
  ASSUME NEW n \in Nat, NEW S, IsScene(S, n), NEW f, f \in [DOMAIN f -> Component],
         NEW c, c \notin DOMAIN f, NEW v \in Component
  PROVE  Added(Settle(S, f), c, v) = Settle(Added(S, c, v), f)
<1> DEFINE T == Settle(S, f)
           U == Added(S, c, v)
           V == Added(T, c, v)
<1>1. IsScene(T, n) /\ IsSettled(T, S, f)
  BY SettleIs
<1> HIDE DEF T
<1>2. IsScene(V, n)
  BY <1>1, AddedIs
<1>3. /\ DOMAIN V = DOMAIN T
      /\ \A id \in DOMAIN T :
           /\ V[id].parent = T[id].parent /\ V[id].children = T[id].children
           /\ V[id].value = IF id = c /\ T[id].value = None THEN v ELSE T[id].value
  BY <1>1, AddedFields
<1>4. IsScene(U, n)
  BY AddedIs
<1>5. /\ DOMAIN U = DOMAIN S
      /\ \A id \in DOMAIN S :
           /\ U[id].parent = S[id].parent /\ U[id].children = S[id].children
           /\ U[id].value = IF id = c /\ S[id].value = None THEN v ELSE S[id].value
  BY AddedFields
<1> HIDE DEF U, V
<1>6. IsScene(Settle(U, f), n) /\ IsSettled(Settle(U, f), U, f)
  BY <1>4, SettleIs
<1>7. ASSUME NEW id \in DOMAIN V
      PROVE  /\ V[id].parent = Settle(U, f)[id].parent
             /\ V[id].children = Settle(U, f)[id].children
             /\ V[id].value = Settle(U, f)[id].value
  <2>1. id \in DOMAIN S /\ id \in DOMAIN T /\ id \in DOMAIN U
    BY <1>1, <1>3, <1>5 DEF IsSettled
  <2>2. /\ T[id].parent = S[id].parent /\ T[id].children = S[id].children
        /\ T[id].value = IF id \in DOMAIN f THEN f[id] ELSE S[id].value
    BY <1>1, <2>1 DEF IsSettled, Said
  <2>3. /\ Settle(U, f)[id].parent = U[id].parent /\ Settle(U, f)[id].children = U[id].children
        /\ Settle(U, f)[id].value = IF id \in DOMAIN f THEN f[id] ELSE U[id].value
    BY <1>6, <2>1 DEF IsSettled, Said
  <2> QED
    BY <1>3, <1>5, <2>1, <2>2, <2>3
<1>8. V = Settle(U, f)
  <2>1. DOMAIN Settle(U, f) = DOMAIN V
    BY <1>1, <1>3, <1>5, <1>6 DEF IsSettled
  <2> QED
    BY <1>2, <1>6, <1>7, <2>1, SameScene
<1> QED
  BY <1>8 DEF U, V, T

LEMMA UndoSettled ==
  ASSUME NEW n \in Nat, NEW A, IsScene(A, n), NEW B, IsScene(B, n), NEW c, Leads(c, A, B, n),
         NEW S, IsScene(S, n), Alike(S, B),
         NEW f, f \in [DOMAIN f -> Component], DOMAIN f \cap Touched(c) = {}
  PROVE  UndoOne(Settle(S, f), c) = Settle(UndoOne(S, c), f)
<1> DEFINE T == Settle(S, f)
<1>0. IsScene(T, n) /\ Alike(T, B)
  <2>1. IsScene(T, n) /\ Alike(T, S)
    BY SettleIs
  <2> HIDE DEF T
  <2> QED
    BY <2>1, AlikeTwice
<1> HIDE DEF T
<1>1. CASE c.kind = "edit"
  <2>1. c.before \in [DOMAIN c.before -> Component] /\ DOMAIN c.before = DOMAIN c.before
    <3>1. c.before \in [DOMAIN c.before -> Component] /\ c.after \in [DOMAIN c.before -> Component]
      BY <1>1 DEF Leads
    <3> QED
      BY <3>1
  <2>2. DOMAIN f \cap DOMAIN c.before = {}
    BY <1>1, <2>1 DEF Touched
  <2>3. UndoOne(S, c) = Replaced(S, c.before) /\ UndoOne(T, c) = Replaced(T, c.before)
    BY <1>1 DEF UndoOne
  <2> QED
    BY <2>1, <2>2, <2>3, SettleReplaced DEF T
<1>2. CASE c.kind = "add component"
  <2>1. c.id \notin DOMAIN f
    BY <1>2 DEF Touched
  <2>2. UndoOne(S, c) = Taken(S, c.id) /\ UndoOne(T, c) = Taken(T, c.id)
    BY <1>2 DEF UndoOne
  <2> QED
    BY <2>1, <2>2, SettleTaken DEF T
<1>3. CASE c.kind = "remove component"
  <2>1. c.id \notin DOMAIN f /\ c.value \in Component
    BY <1>3 DEF Touched, Leads
  <2>2. UndoOne(S, c) = Added(S, c.id, c.value) /\ UndoOne(T, c) = Added(T, c.id, c.value)
    BY <1>3 DEF UndoOne
  <2> QED
    BY <2>1, <2>2, SettleAdded DEF T
<1>4. CASE c.kind = "reparent"
  <2> DEFINE p == A[c.id].parent
             i == c.oldIndex
  <2>1. Replaces(c.id, A, B) /\ i \in Nat /\ c.oldParent = p
    BY <1>4, ReplacesBack DEF Leads
  <2>2. UndoOne(S, c) = Moved(S, c.id, p, i) /\ UndoOne(T, c) = Moved(T, c.id, p, i)
    BY <1>4, <2>1 DEF UndoOne
  <2>3. /\ Moved(S, c.id, p, i) = Placed(S, c.id, p, i)
        /\ IsScene(Moved(S, c.id, p, i), n)
    BY <2>1, MovedIs
  <2>4. /\ Moved(T, c.id, p, i) = Placed(T, c.id, p, i)
        /\ IsScene(Moved(T, c.id, p, i), n)
    BY <1>0, <2>1, MovedIs
  <2> HIDE DEF p, i
  <2>5. Placed(T, c.id, p, i) = Settle(Placed(S, c.id, p, i), f)
    BY <2>3, <2>4, SettlePlaced DEF T
  <2> QED
    BY <2>2, <2>3, <2>4, <2>5 DEF T
<1>5. CASE c.kind = "add entities"
  <2>1. Grown(c.snapshot, B, A, n)
    BY <1>5 DEF Leads
  <2>2. UndoOne(S, c) = RemoveSubtree(S, c.snapshot) /\ UndoOne(T, c) = RemoveSubtree(T, c.snapshot)
    BY <1>5 DEF UndoOne
  <2>3. IsTree(c.snapshot, n) /\ IsOf(c.snapshot, S)
    BY <2>1, RemovedLeads DEF Grown
  <2> QED
    BY <2>2, <2>3, SettleCut DEF T
<1>6. CASE c.kind = "delete entities"
  <2>1. Grown(c.snapshot, A, B, n)
    BY <1>6 DEF Leads
  <2>2. UndoOne(S, c) = RestoreSubtree(S, c.snapshot) /\ UndoOne(T, c) = RestoreSubtree(T, c.snapshot)
    BY <1>6 DEF UndoOne
  <2>3. RestoreSubtree(S, c.snapshot) = Rejoined(S, c.snapshot)
    BY <2>1, RestoredLeads
  <2>4. RestoreSubtree(T, c.snapshot) = Rejoined(T, c.snapshot)
    BY <1>0, <2>1, RestoredLeads
  <2>5. IsTree(c.snapshot, n) /\ IsFreeOf(c.snapshot, S)
    BY <2>1 DEF Grown, IsFreeOf, Alike
  <2>6. DOMAIN f \cap DOMAIN c.snapshot.nodes = {}
    BY <1>6 DEF Touched
  <2>7. Rejoined(T, c.snapshot) = Settle(Rejoined(S, c.snapshot), f)
    BY <2>5, <2>6, SettleRejoined DEF T
  <2> QED
    BY <2>2, <2>3, <2>4, <2>7 DEF T
<1> QED
  BY <1>1, <1>2, <1>3, <1>4, <1>5, <1>6 DEF Leads

LEMMA RedoSettled ==
  ASSUME NEW n \in Nat, NEW A, IsScene(A, n), NEW B, IsScene(B, n), NEW c, Leads(c, A, B, n),
         NEW S, IsScene(S, n), Alike(S, A),
         NEW f, f \in [DOMAIN f -> Component], DOMAIN f \cap Touched(c) = {}
  PROVE  RedoOne(Settle(S, f), c) = Settle(RedoOne(S, c), f)
<1> DEFINE T == Settle(S, f)
<1>0. IsScene(T, n) /\ Alike(T, A)
  <2>1. IsScene(T, n) /\ Alike(T, S)
    BY SettleIs
  <2> HIDE DEF T
  <2> QED
    BY <2>1, AlikeTwice
<1> HIDE DEF T
<1>1. CASE c.kind = "edit"
  <2>1. c.after \in [DOMAIN c.after -> Component] /\ DOMAIN c.after = DOMAIN c.before
    <3>1. c.before \in [DOMAIN c.before -> Component] /\ c.after \in [DOMAIN c.before -> Component]
      BY <1>1 DEF Leads
    <3> QED
      BY <3>1
  <2>2. DOMAIN f \cap DOMAIN c.after = {}
    BY <1>1, <2>1 DEF Touched
  <2>3. RedoOne(S, c) = Replaced(S, c.after) /\ RedoOne(T, c) = Replaced(T, c.after)
    BY <1>1 DEF RedoOne
  <2> QED
    BY <2>1, <2>2, <2>3, SettleReplaced DEF T
<1>2. CASE c.kind = "remove component"
  <2>1. c.id \notin DOMAIN f
    BY <1>2 DEF Touched
  <2>2. RedoOne(S, c) = Taken(S, c.id) /\ RedoOne(T, c) = Taken(T, c.id)
    BY <1>2 DEF RedoOne
  <2> QED
    BY <2>1, <2>2, SettleTaken DEF T
<1>3. CASE c.kind = "add component"
  <2>1. c.id \notin DOMAIN f /\ c.value \in Component
    BY <1>3 DEF Touched, Leads
  <2>2. RedoOne(S, c) = Added(S, c.id, c.value) /\ RedoOne(T, c) = Added(T, c.id, c.value)
    BY <1>3 DEF RedoOne
  <2> QED
    BY <2>1, <2>2, SettleAdded DEF T
<1>4. CASE c.kind = "reparent"
  <2> DEFINE p == B[c.id].parent
             i == c.newIndex
  <2>1. Replaces(c.id, B, A) /\ i \in Nat /\ c.newParent = p
    BY <1>4, ReplacesBack DEF Leads
  <2>2. RedoOne(S, c) = Moved(S, c.id, p, i) /\ RedoOne(T, c) = Moved(T, c.id, p, i)
    BY <1>4, <2>1 DEF RedoOne
  <2>3. /\ Moved(S, c.id, p, i) = Placed(S, c.id, p, i)
        /\ IsScene(Moved(S, c.id, p, i), n)
    BY <2>1, MovedIs
  <2>4. /\ Moved(T, c.id, p, i) = Placed(T, c.id, p, i)
        /\ IsScene(Moved(T, c.id, p, i), n)
    BY <1>0, <2>1, MovedIs
  <2> HIDE DEF p, i
  <2>5. Placed(T, c.id, p, i) = Settle(Placed(S, c.id, p, i), f)
    BY <2>3, <2>4, SettlePlaced DEF T
  <2> QED
    BY <2>2, <2>3, <2>4, <2>5 DEF T
<1>5. CASE c.kind = "delete entities"
  <2>1. Grown(c.snapshot, A, B, n)
    BY <1>5 DEF Leads
  <2>2. RedoOne(S, c) = RemoveSubtree(S, c.snapshot) /\ RedoOne(T, c) = RemoveSubtree(T, c.snapshot)
    BY <1>5 DEF RedoOne
  <2>3. IsTree(c.snapshot, n) /\ IsOf(c.snapshot, S)
    BY <2>1, RemovedLeads DEF Grown
  <2> QED
    BY <2>2, <2>3, SettleCut DEF T
<1>6. CASE c.kind = "add entities"
  <2>1. Grown(c.snapshot, B, A, n)
    BY <1>6 DEF Leads
  <2>2. RedoOne(S, c) = RestoreSubtree(S, c.snapshot) /\ RedoOne(T, c) = RestoreSubtree(T, c.snapshot)
    BY <1>6 DEF RedoOne
  <2>3. RestoreSubtree(S, c.snapshot) = Rejoined(S, c.snapshot)
    BY <2>1, RestoredLeads
  <2>4. RestoreSubtree(T, c.snapshot) = Rejoined(T, c.snapshot)
    BY <1>0, <2>1, RestoredLeads
  <2>5. IsTree(c.snapshot, n) /\ IsFreeOf(c.snapshot, S)
    BY <2>1 DEF Grown, IsFreeOf, Alike
  <2>6. DOMAIN f \cap DOMAIN c.snapshot.nodes = {}
    BY <1>6 DEF Touched
  <2>7. Rejoined(T, c.snapshot) = Settle(Rejoined(S, c.snapshot), f)
    BY <2>5, <2>6, SettleRejoined DEF T
  <2> QED
    BY <2>2, <2>3, <2>4, <2>7 DEF T
<1> QED
  BY <1>1, <1>2, <1>3, <1>4, <1>5, <1>6 DEF Leads

LEMMA UndoAllSettled ==
  ASSUME NEW n \in Nat, NEW A, IsScene(A, n), NEW B, IsScene(B, n), NEW e, EntryLeads(e, A, B, n),
         NEW S, IsScene(S, n), Alike(S, B),
         NEW f, f \in [DOMAIN f -> Component], \A i \in 1..Len(e) : DOMAIN f \cap Touched(e[i]) = {}
  PROVE  UndoAll(Settle(S, f), e) = Settle(UndoAll(S, e), f)
<1>1. CASE Len(e) = 1
  <2>1. DOMAIN f \cap Touched(e[1]) = {}
    BY <1>1
  <2> QED
    BY <1>1, <2>1, UndoSettled DEF EntryLeads, UndoAll
<1>2. CASE Len(e) = 2
  <2>1. PICK M : IsScene(M, n) /\ Leads(e[1], A, M, n) /\ Leads(e[2], M, B, n)
    BY <1>2 DEF EntryLeads
  <2>2. DOMAIN f \cap Touched(e[1]) = {} /\ DOMAIN f \cap Touched(e[2]) = {}
    BY <1>2
  <2>3. IsScene(UndoOne(S, e[2]), n) /\ Alike(UndoOne(S, e[2]), M)
    BY <2>1, UndoLeads
  <2>4. UndoOne(Settle(S, f), e[2]) = Settle(UndoOne(S, e[2]), f)
    BY <2>1, <2>2, UndoSettled
  <2>5. UndoOne(Settle(UndoOne(S, e[2]), f), e[1]) = Settle(UndoOne(UndoOne(S, e[2]), e[1]), f)
    BY <2>1, <2>2, <2>3, UndoSettled
  <2> QED
    BY <1>2, <2>4, <2>5 DEF UndoAll
<1> QED
  BY <1>1, <1>2 DEF EntryLeads

LEMMA RedoAllSettled ==
  ASSUME NEW n \in Nat, NEW A, IsScene(A, n), NEW B, IsScene(B, n), NEW e, EntryLeads(e, A, B, n),
         NEW S, IsScene(S, n), Alike(S, A),
         NEW f, f \in [DOMAIN f -> Component], \A i \in 1..Len(e) : DOMAIN f \cap Touched(e[i]) = {}
  PROVE  RedoAll(Settle(S, f), e) = Settle(RedoAll(S, e), f)
<1>1. CASE Len(e) = 1
  <2>1. DOMAIN f \cap Touched(e[1]) = {}
    BY <1>1
  <2> QED
    BY <1>1, <2>1, RedoSettled DEF EntryLeads, RedoAll
<1>2. CASE Len(e) = 2
  <2>1. PICK M : IsScene(M, n) /\ Leads(e[1], A, M, n) /\ Leads(e[2], M, B, n)
    BY <1>2 DEF EntryLeads
  <2>2. DOMAIN f \cap Touched(e[1]) = {} /\ DOMAIN f \cap Touched(e[2]) = {}
    BY <1>2
  <2>3. IsScene(RedoOne(S, e[1]), n) /\ Alike(RedoOne(S, e[1]), M)
    BY <2>1, RedoLeads
  <2>4. RedoOne(Settle(S, f), e[1]) = Settle(RedoOne(S, e[1]), f)
    BY <2>1, <2>2, RedoSettled
  <2>5. RedoOne(Settle(RedoOne(S, e[1]), f), e[2]) = Settle(RedoOne(RedoOne(S, e[1]), e[2]), f)
    BY <2>1, <2>2, <2>3, RedoSettled
  <2> QED
    BY <1>2, <2>4, <2>5 DEF RedoAll
<1> QED
  BY <1>1, <1>2 DEF EntryLeads

-----------------------------------------------------------------------------
(* What is recorded *)

\* It leads there, and back, to the last value and sibling.
Exactly(e, A, B) == UndoAll(B, e) = A /\ RedoAll(A, e) = B

Recorded(e, A, B, n) == IsScene(B, n) /\ EntryLeads(e, A, B, n) /\ Exactly(e, A, B)

LEMMA OneCommand ==
  ASSUME NEW n \in Nat, NEW c, NEW A, NEW B, IsScene(B, n), Leads(c, A, B, n),
         UndoOne(B, c) = A, RedoOne(A, c) = B
  PROVE  Recorded(<<c>>, A, B, n)
<1>1. Len(<<c>>) = 1 /\ <<c>>[1] = c
  OBVIOUS
<1> QED
  BY <1>1 DEF Recorded, EntryLeads, Exactly, UndoAll, RedoAll

LEMMA EditRecorded ==
  ASSUME NEW n \in Nat, NEW S, IsScene(S, n), NEW D \in SUBSET DOMAIN S, \A id \in D : Has(S, id),
         NEW f \in [D -> Value]
  PROVE  Recorded(<<Edits([id \in D |-> S[id].value], f)>>, S, Replaced(S, f), n)
<1> DEFINE g == [id \in D |-> S[id].value]
           c == Edits(g, f)
           B == Replaced(S, f)
<1>1. c.kind = "edit" /\ c.before = g /\ c.after = f
  BY DEF Edits
<1>2. /\ f \in [D -> Component] /\ \A id \in D : f[id] # None
  BY EditorUndoAssumption DEF Component
<1>3. g \in [D -> Component] /\ DOMAIN g = D /\ \A id \in D : g[id] = S[id].value
  <2>1. \A id \in DOMAIN S : S[id].value \in Component
    BY DEF IsScene, IsNodes, Node
  <2> QED
    BY <2>1
<1>4. f \in [DOMAIN f -> Component]
  BY <1>2
<1>5. IsScene(B, n) /\ Alike(B, S)
  BY <1>4, ReplacedIs
<1> HIDE DEF g, c
<1>6. Leads(c, S, B, n)
  <2>1. Alike(S, B)
    BY <1>5 DEF Alike
  <2> HIDE DEF B
  <2> QED
    BY <1>1, <1>2, <1>3, <2>1 DEF Leads
<1>7. /\ DOMAIN B = DOMAIN S
      /\ \A id \in DOMAIN S :
           /\ B[id].parent = S[id].parent /\ B[id].children = S[id].children
           /\ B[id].value = IF id \in DOMAIN f /\ S[id].value # None THEN f[id] ELSE S[id].value
  BY ReplacedFields
<1> HIDE DEF B
<1>8. Replaced(B, g) = S
  <2>1. IsScene(Replaced(B, g), n)
    <3>1. g \in [DOMAIN g -> Component]
      BY <1>3
    <3> QED
      BY <1>5, <3>1, ReplacedIs
  <2>2. /\ DOMAIN Replaced(B, g) = DOMAIN B
        /\ \A id \in DOMAIN B :
             /\ Replaced(B, g)[id].parent = B[id].parent /\ Replaced(B, g)[id].children = B[id].children
             /\ Replaced(B, g)[id].value = IF id \in DOMAIN g /\ B[id].value # None THEN g[id] ELSE B[id].value
    BY <1>5, ReplacedFields
  <2>3. ASSUME NEW id \in DOMAIN S
        PROVE  /\ Replaced(B, g)[id].parent = S[id].parent
               /\ Replaced(B, g)[id].children = S[id].children
               /\ Replaced(B, g)[id].value = S[id].value
    <3>1. Replaced(B, g)[id].parent = S[id].parent /\ Replaced(B, g)[id].children = S[id].children
      BY <1>7, <2>2
    <3>2. CASE id \in D
      <4>1. S[id].value # None
        BY <3>2 DEF Has
      <4> QED
        BY <1>2, <1>3, <1>7, <2>2, <3>1, <3>2, <4>1
    <3>3. CASE id \notin D
      BY <1>3, <1>7, <2>2, <3>1, <3>3
    <3> QED
      BY <3>2, <3>3
  <2> QED
    BY <1>7, <2>1, <2>2, <2>3, SameScene
<1>9. UndoOne(B, c) = S /\ RedoOne(S, c) = B
  BY <1>1, <1>8 DEF UndoOne, RedoOne, B
<1>10. Recorded(<<c>>, S, B, n)
  BY <1>5, <1>6, <1>9, OneCommand
<1> QED
  BY <1>10 DEF B, c, g

LEMMA AddRecorded ==
  ASSUME NEW n \in Nat, NEW S, IsScene(S, n), NEW x \in DOMAIN S, ~Has(S, x), NEW v \in Value
  PROVE  Recorded(<<[kind |-> "add component", id |-> x, value |-> v]>>, S, Added(S, x, v), n)
<1> DEFINE c == [kind |-> "add component", id |-> x, value |-> v]
           B == Added(S, x, v)
<1>1. c.kind = "add component" /\ c.id = x /\ c.value = v /\ v \in Component
  BY DEF Component
<1>2. IsScene(B, n) /\ Alike(B, S)
  BY <1>1, AddedIs
<1> HIDE DEF c
<1>3. Leads(c, S, B, n)
  <2>1. Alike(S, B)
    BY <1>2 DEF Alike
  <2> HIDE DEF B
  <2> QED
    BY <1>1, <2>1 DEF Leads
<1>4. /\ DOMAIN B = DOMAIN S
      /\ \A id \in DOMAIN S :
           /\ B[id].parent = S[id].parent /\ B[id].children = S[id].children
           /\ B[id].value = IF id = x /\ S[id].value = None THEN v ELSE S[id].value
  BY AddedFields
<1> HIDE DEF B
<1>5. Taken(B, x) = S
  <2>1. IsScene(Taken(B, x), n)
    BY <1>2, TakenIs
  <2>2. /\ DOMAIN Taken(B, x) = DOMAIN B
        /\ \A id \in DOMAIN B :
             /\ Taken(B, x)[id].parent = B[id].parent /\ Taken(B, x)[id].children = B[id].children
             /\ Taken(B, x)[id].value = IF id = x THEN None ELSE B[id].value
    BY <1>2, TakenFields
  <2>3. S[x].value = None
    BY DEF Has
  <2> QED
    BY <1>4, <2>1, <2>2, <2>3, SameScene
<1>6. UndoOne(B, c) = S /\ RedoOne(S, c) = B
  BY <1>1, <1>5 DEF UndoOne, RedoOne, B
<1>7. Recorded(<<c>>, S, B, n)
  BY <1>2, <1>3, <1>6, OneCommand
<1> QED
  BY <1>7 DEF B, c

LEMMA TakeRecorded ==
  ASSUME NEW n \in Nat, NEW S, IsScene(S, n), NEW x, Has(S, x)
  PROVE  Recorded(<<[kind |-> "remove component", id |-> x, value |-> S[x].value]>>, S, Taken(S, x), n)
<1> DEFINE c == [kind |-> "remove component", id |-> x, value |-> S[x].value]
           B == Taken(S, x)
<1>1. c.kind = "remove component" /\ c.id = x /\ c.value = S[x].value /\ S[x].value \in Component
  <2>1. x \in DOMAIN S
    BY DEF Has
  <2>2. S[x].value \in Component
    BY <2>1 DEF IsScene, IsNodes, Node
  <2> QED
    BY <2>2
<1>2. IsScene(B, n) /\ Alike(B, S)
  BY TakenIs
<1> HIDE DEF c
<1>3. Leads(c, S, B, n)
  <2>1. Alike(S, B)
    BY <1>2 DEF Alike
  <2> HIDE DEF B
  <2> QED
    BY <1>1, <2>1 DEF Leads
<1>4. /\ DOMAIN B = DOMAIN S
      /\ \A id \in DOMAIN S :
           /\ B[id].parent = S[id].parent /\ B[id].children = S[id].children
           /\ B[id].value = IF id = x THEN None ELSE S[id].value
  BY TakenFields
<1> HIDE DEF B
<1>5. Added(B, x, S[x].value) = S
  <2> DEFINE v == S[x].value
             T == Added(B, x, v)
  <2>1. IsScene(T, n)
    BY <1>1, <1>2, AddedIs
  <2>2. /\ DOMAIN T = DOMAIN B
        /\ \A id \in DOMAIN B :
             /\ T[id].parent = B[id].parent /\ T[id].children = B[id].children
             /\ T[id].value = IF id = x /\ B[id].value = None THEN v ELSE B[id].value
    BY <1>2, AddedFields
  <2> HIDE DEF T
  <2>3. T = S
    BY <1>4, <2>1, <2>2, SameScene
  <2> QED
    BY <2>3 DEF T
<1>6. UndoOne(B, c) = S /\ RedoOne(S, c) = B
  BY <1>1, <1>5 DEF UndoOne, RedoOne, B
<1>7. Recorded(<<c>>, S, B, n)
  BY <1>2, <1>3, <1>6, OneCommand
<1> QED
  BY <1>7 DEF B, c

\* A link that was there is replaced: that is not what is recorded, but leads there.
LEMMA LinkLeads ==
  ASSUME NEW n \in Nat, NEW S, IsScene(S, n), NEW x \in DOMAIN S, NEW v \in Value
  PROVE  LET e == <<[kind |-> "add component", id |-> x, value |-> v]>>
             B == [S EXCEPT ![x].value = v]
         IN  /\ IsScene(B, n) /\ EntryLeads(e, S, B, n)
             /\ ~Has(S, x) => Recorded(e, S, B, n)
<1> DEFINE c == [kind |-> "add component", id |-> x, value |-> v]
           B == [S EXCEPT ![x].value = v]
           f == [id \in {x} |-> v]
<1>1. c.kind = "add component" /\ c.value = v /\ v \in Component
  BY DEF Component
<1>2. Valued(S, B)
  <2>1. f \in [{x} -> Component]
    BY <1>1
  <2>2. B = [id \in DOMAIN S |-> IF id \in {x} THEN [S[id] EXCEPT !.value = f[id]] ELSE S[id]]
    <3>1. S = [id \in DOMAIN S |-> S[id]]
      BY DEF IsScene, IsNodes
    <3> QED
      BY <3>1
  <2> HIDE DEF f, B
  <2> QED
    BY <2>1, <2>2, SetIs
<1>3. ~Has(S, x) => B = Added(S, x, v)
  BY DEF Added
<1> HIDE DEF B, c, f
<1>4. IsScene(B, n) /\ Alike(S, B)
  BY <1>2, ValuedIs DEF Alike
<1>5. Leads(c, S, B, n)
  BY <1>1, <1>4 DEF Leads
<1>6. EntryLeads(<<c>>, S, B, n)
  <2>1. Len(<<c>>) = 1 /\ <<c>>[1] = c
    OBVIOUS
  <2> QED
    BY <1>5, <2>1 DEF EntryLeads
<1>7. ~Has(S, x) => Recorded(<<c>>, S, B, n)
  BY <1>3, AddRecorded DEF c
<1> QED
  BY <1>4, <1>6, <1>7 DEF B, c

LEMMA DeleteRecorded ==
  ASSUME NEW n \in Nat, NEW S, IsScene(S, n), NEW x \in DOMAIN S
  PROVE  LET W == CaptureSubtree(S, x)
             B == RemoveSubtree(S, W)
             c == Delete(W)
         IN  /\ Recorded(<<c>>, S, B, n)
             /\ Leads(c, S, B, n) /\ UndoOne(B, c) = S /\ RedoOne(S, c) = B
<1> DEFINE W == CaptureSubtree(S, x)
           B == RemoveSubtree(S, W)
           c == Delete(W)
<1>1. IsTree(W, n) /\ IsOf(W, S) /\ IsExact(W, S)
  BY CaptureIs
<1>2. c.kind = "delete entities" /\ c.snapshot = W
  BY DEF Delete
<1> HIDE DEF W, c
<1>3. IsScene(B, n) /\ Grown(W, S, B, n)
  BY <1>1, RemovedIs
<1>4. Leads(c, S, B, n)
  BY <1>2, <1>3 DEF Leads
<1>5. RestoreSubtree(B, W) = S
  <2>1. RestoreSubtree(B, W) = Rejoined(B, W)
    BY <1>1, <1>3, RestoredIs DEF Grown
  <2>2. Rejoined(B, W) = S
    BY <1>1, RejoinedAgain
  <2> QED
    BY <2>1, <2>2
<1>6. UndoOne(B, c) = S /\ RedoOne(S, c) = B
  BY <1>2, <1>5 DEF UndoOne, RedoOne
<1>7. Recorded(<<c>>, S, B, n)
  BY <1>3, <1>4, <1>6, OneCommand
<1> QED
  BY <1>4, <1>6, <1>7 DEF c, W

\* Entities that are new, if the scene without them is the one there was.
LEMMA AddEntitiesRecorded ==
  ASSUME NEW n \in Nat, NEW S, NEW B, IsScene(B, n), NEW x \in DOMAIN B,
         RemoveSubtree(B, CaptureSubtree(B, x)) = S
  PROVE  LET c == Add(CaptureSubtree(B, x)) IN
         /\ Recorded(<<c>>, S, B, n)
         /\ Leads(c, S, B, n) /\ UndoOne(B, c) = S /\ RedoOne(S, c) = B
<1> DEFINE W == CaptureSubtree(B, x)
           c == Add(W)
<1>1. IsTree(W, n) /\ IsOf(W, B) /\ IsExact(W, B)
  BY CaptureIs
<1>2. c.kind = "add entities" /\ c.snapshot = W
  BY DEF Add
<1>a. RemoveSubtree(B, W) = S
  OBVIOUS
<1> HIDE DEF W, c
<1>3. IsScene(S, n) /\ Grown(W, B, S, n)
  BY <1>1, <1>a, RemovedIs
<1>4. Leads(c, S, B, n)
  BY <1>2, <1>3 DEF Leads
<1>5. RestoreSubtree(S, W) = B
  <2>1. RestoreSubtree(S, W) = Rejoined(S, W)
    BY <1>1, <1>3, RestoredIs DEF Grown
  <2>2. Rejoined(S, W) = B
    BY <1>1, <1>a, RejoinedAgain
  <2> QED
    BY <2>1, <2>2
<1>6. UndoOne(B, c) = S /\ RedoOne(S, c) = B
  BY <1>2, <1>5, <1>a DEF UndoOne, RedoOne
<1>7. Recorded(<<c>>, S, B, n)
  BY <1>4, <1>6, OneCommand
<1> QED
  BY <1>4, <1>6, <1>7 DEF c, W

LEMMA MoveRecorded ==
  ASSUME NEW n \in Nat, NEW S, IsScene(S, n), NEW x \in DOMAIN S, NEW p \in DOMAIN S \cup {0},
         SetParent(S, x, p)[x].parent # S[x].parent
  PROVE  LET B == SetParent(S, x, p)
             c == [kind |-> "reparent", id |-> x,
                   oldParent |-> S[x].parent, oldIndex |-> SiblingIndexOf(S, x),
                   newParent |-> B[x].parent, newIndex |-> SiblingIndexOf(B, x)]
         IN  Recorded(<<c>>, S, B, n)
<1> DEFINE B == SetParent(S, x, p)
           q == S[x].parent
           i == SiblingIndexOf(S, x)
           j == SiblingIndexOf(B, x)
           c == [kind |-> "reparent", id |-> x, oldParent |-> q, oldIndex |-> i,
                 newParent |-> B[x].parent, newIndex |-> j]
<1>1. p \in DOMAIN S => x \notin Above(S, p)
  <2> SUFFICES ASSUME p \in DOMAIN S, x \in Above(S, p) PROVE FALSE
    OBVIOUS
  <2>1. p # 0
    BY DEF IsScene, IsNodes
  <2>2. B = S
    BY <2>1 DEF SetParent
  <2> QED
    BY <2>2
<1>2. PICK k \in Nat : B = Placed(S, x, p, k)
  BY <1>1, SetParentIs
<1>3. IsScene(Placed(S, x, p, k), n)
  BY <1>1, PlacedIs
<1>4. /\ c.kind = "reparent" /\ c.id = x /\ c.oldParent = q /\ c.oldIndex = i
      /\ c.newParent = B[x].parent /\ c.newIndex = j
  OBVIOUS
<1> HIDE DEF B, c
<1>5. IsScene(B, n)
  BY <1>2, <1>3
<1>6. /\ DOMAIN B = DOMAIN S /\ B[x].parent = p
      /\ \A id \in DOMAIN S \ {x} : B[id].parent = S[id].parent
  BY <1>2 DEF Placed
<1>7. Replaces(x, S, B) /\ Replaces(x, B, S)
  BY <1>6 DEF Replaces
<1>8. i \in Nat /\ j \in Nat
  <2>1. i \in Nat
    BY CaptureIs DEF IsTree, IsExact
  <2>2. x \in DOMAIN B
    BY <1>6
  <2>3. j \in Nat
    BY <1>5, <2>2, CaptureIs DEF IsTree, IsExact
  <2> QED
    BY <2>1, <2>3
<1> HIDE DEF i, j
<1>9. Leads(c, S, B, n)
  BY <1>4, <1>7, <1>8 DEF Leads
<1>a. Alike(S, S) /\ Alike(B, B)
  BY DEF Alike
<1>b. q \in DOMAIN S \cup {0}
  BY DEF IsScene
<1>10. Moved(B, x, q, i) = S
  <2>1. Moved(B, x, q, i) = Placed(B, x, q, i)
    BY <1>5, <1>7, <1>8, <1>a, MovedIs
  <2>2. Placed(Placed(S, x, p, k), x, q, i) = S
    BY PlacedBack DEF i
  <2> QED
    BY <1>2, <2>1, <2>2
<1>11. Moved(S, x, p, j) = B
  <2>1. Moved(S, x, p, j) = Placed(S, x, p, j)
    BY <1>5, <1>6, <1>7, <1>8, <1>a, MovedIs
  <2>2. Placed(Placed(B, x, q, i), x, p, j) = B
    <3>1. x \in DOMAIN B /\ q \in DOMAIN B \cup {0}
      BY <1>6, <1>b
    <3>2. Placed(Placed(B, x, q, i), x, B[x].parent, SiblingIndexOf(B, x)) = B
      BY ONLY n \in Nat, <1>5, <1>8, <3>1, PlacedBack
    <3> QED
      BY <1>6, <3>2 DEF j
  <2>3. Placed(B, x, q, i) = S
    BY <1>2, PlacedBack DEF i
  <2> QED
    BY <2>1, <2>2, <2>3
<1>12. UndoOne(B, c) = S /\ RedoOne(S, c) = B
  BY <1>4, <1>6, <1>10, <1>11 DEF UndoOne, RedoOne
<1>13. Recorded(<<c>>, S, B, n)
  BY <1>5, <1>9, <1>12, OneCommand
<1> QED
  BY <1>13 DEF c, B, i, j

-----------------------------------------------------------------------------
(* New entities *)

\* There is one set of an entity and what has its parent there.
LEMMA SubtreeUnique ==
  ASSUME NEW n \in Nat, NEW S, IsScene(S, n), NEW r \in DOMAIN S,
         NEW C \in SUBSET DOMAIN S, r \in C,
         \A id \in DOMAIN S \ {r} : id \in C <=> S[id].parent \in C
  PROVE  CollectSubtree(S, r) = C
<1> DEFINE D == CollectSubtree(S, r)
<1>1. /\ r \in D /\ D \subseteq DOMAIN S
      /\ \A id \in DOMAIN S \ {r} : id \in D <=> S[id].parent \in D
  BY SubtreeIs
<1>2. Ends(S)
  BY DEF IsScene, IsNodes
<1> HIDE DEF D
<1>3. C \subseteq D
  <2> SUFFICES ASSUME C \ D # {} PROVE FALSE
    OBVIOUS
  <2>1. \A x \in C \ D : S[x].parent \in C \ D
    BY <1>1
  <2>2. C \ D \in (SUBSET DOMAIN S) \ {{}}
    OBVIOUS
  <2> QED
    BY <1>2, <2>1, <2>2 DEF Ends
<1>4. D \subseteq C
  <2> SUFFICES ASSUME D \ C # {} PROVE FALSE
    OBVIOUS
  <2>1. \A x \in D \ C : S[x].parent \in D \ C
    BY <1>1
  <2>2. D \ C \in (SUBSET DOMAIN S) \ {{}}
    BY <1>1
  <2> QED
    BY <1>2, <2>1, <2>2 DEF Ends
<1> QED
  BY <1>3, <1>4 DEF D

\* What is above an entity has it under it.
LEMMA AboveBelow ==
  ASSUME NEW n \in Nat, NEW S, IsScene(S, n), NEW p \in DOMAIN S, NEW x \in DOMAIN S,
         p \notin CollectSubtree(S, x)
  PROVE  x \notin Above(S, p)
<1> DEFINE C == CollectSubtree(S, x)
           Y == DOMAIN S \ C
<1>1. /\ x \in C /\ \A id \in DOMAIN S \ {x} : id \in C <=> S[id].parent \in C
  BY SubtreeIs
<1> HIDE DEF C
<1>2. Closed(S, Y)
  BY <1>1 DEF Closed
<1>3. p \in Y /\ Y \in SUBSET DOMAIN S
  BY DEF C
<1> QED
  BY <1>1, <1>2, <1>3, AboveIs

\* A tree that is not there comes in as it is.
LEMMA NewTree ==
  ASSUME NEW n \in Nat, NEW S, IsScene(S, n), NEW W, IsTree(W, n),
         DOMAIN W.nodes \cap DOMAIN S = {}, W.nodes[W.root].parent = 0
  PROVE  LET B == With(S, W.nodes) IN
         /\ IsScene(B, n) /\ DOMAIN B = DOMAIN S \cup DOMAIN W.nodes
         /\ CollectSubtree(B, W.root) = DOMAIN W.nodes
         /\ RemoveSubtree(B, CaptureSubtree(B, W.root)) = S
<1> DEFINE B == With(S, W.nodes)
           N == W.nodes
           x == W.root
           V == CaptureSubtree(B, x)
<1>1. IsFreeOf(W, S)
  BY DEF IsFreeOf
<1>2. x \in DOMAIN N /\ 0 \notin DOMAIN S /\ (\A id \in DOMAIN N : N[id].parent \in DOMAIN N <=> id # x)
  BY DEF IsTree, IsScene, IsNodes
<1>3. B = Rejoined(S, W)
  <2>1. \A id \in DOMAIN S : S[id] = [parent |-> S[id].parent, children |-> S[id].children, value |-> S[id].value]
    <3> SUFFICES ASSUME NEW id \in DOMAIN S
                 PROVE  S[id] = [parent |-> S[id].parent, children |-> S[id].children, value |-> S[id].value]
      OBVIOUS
    <3>1. S[id] \in Node
      BY DEF IsScene, IsNodes
    <3> QED
      BY <3>1 DEF Node
  <2>2. \A id \in DOMAIN S \cup DOMAIN N : B[id] = Rejoined(S, W)[id]
    BY <1>2, <2>1 DEF Rejoined, With
  <2>3. /\ B = [id \in DOMAIN S \cup DOMAIN N |-> B[id]]
        /\ Rejoined(S, W) = [id \in DOMAIN S \cup DOMAIN N |-> Rejoined(S, W)[id]]
    BY DEF Rejoined, With
  <2> HIDE DEF B
  <2> QED
    BY <2>2, <2>3
<1>4. DOMAIN B = DOMAIN S \cup DOMAIN N
  BY DEF With
<1> HIDE DEF B
<1>5. IsScene(B, n) /\ Grown(W, B, S, n)
  BY <1>1, <1>3, RejoinedIs
<1>6. CollectSubtree(B, x) = DOMAIN N
  <2>1. \A id \in DOMAIN B \ {x} : id \in DOMAIN N <=> B[id].parent \in DOMAIN N
    BY <1>2, <1>5 DEF Grown, IsOf
  <2> QED
    BY <1>2, <1>4, <1>5, <2>1, SubtreeUnique
<1>7. IsTree(V, n) /\ IsOf(V, B) /\ V.root = x /\ DOMAIN V.nodes = DOMAIN N
  <2>1. x \in DOMAIN B
    BY <1>2, <1>4
  <2> QED
    BY <1>5, <1>6, <2>1, CaptureIs
<1> HIDE DEF V
<1>8. RemoveSubtree(B, V) = Cut(B, V) /\ RemoveSubtree(B, W) = Cut(B, W)
  <2>1. IsOf(W, B)
    BY <1>5 DEF Grown
  <2> QED
    BY <1>5, <1>7, <2>1, RemovedIs
<1>9. Cut(B, V) = Cut(B, W)
  BY <1>7 DEF Cut
<1>10. RemoveSubtree(B, W) = S
  BY <1>1, <1>3, RemovedAgain
<1> QED
  BY <1>4, <1>5, <1>6, <1>8, <1>9, <1>10 DEF B, V

\* Moved, it leaves the others as they are.
LEMMA MovedTree ==
  ASSUME NEW n \in Nat, NEW T, IsScene(T, n), NEW x \in DOMAIN T, NEW p \in DOMAIN T,
         p \notin CollectSubtree(T, x), NEW i \in Nat
  PROVE  LET B == Placed(T, x, p, i) IN
         /\ IsScene(B, n) /\ x \in DOMAIN B
         /\ CollectSubtree(B, x) = CollectSubtree(T, x)
         /\ RemoveSubtree(B, CaptureSubtree(B, x)) = RemoveSubtree(T, CaptureSubtree(T, x))
<1> DEFINE B == Placed(T, x, p, i)
           C == CollectSubtree(T, x)
           V == CaptureSubtree(B, x)
           W == CaptureSubtree(T, x)
<1>1. IsScene(B, n)
  BY AboveBelow, PlacedIs
<1>2. /\ DOMAIN B = DOMAIN T
      /\ \A id \in DOMAIN T :
           /\ B[id].parent = IF id = x THEN p ELSE T[id].parent
           /\ B[id].children = Listed(T[id].children, x, id, p, i)
           /\ B[id].value = T[id].value
  BY DEF Placed
<1> HIDE DEF B
<1>3. CollectSubtree(B, x) = C
  <2>1. /\ x \in C /\ C \subseteq DOMAIN T /\ \A id \in DOMAIN T \ {x} : id \in C <=> T[id].parent \in C
    BY SubtreeIs
  <2> HIDE DEF C
  <2>2. \A id \in DOMAIN B \ {x} : id \in C <=> B[id].parent \in C
    BY <1>2, <2>1
  <2> QED
    BY <1>1, <1>2, <2>1, <2>2, SubtreeUnique
<1>4. IsTree(V, n) /\ IsOf(V, B) /\ V.root = x /\ DOMAIN V.nodes = C
  BY <1>1, <1>2, <1>3, CaptureIs
<1>5. IsTree(W, n) /\ IsOf(W, T) /\ W.root = x /\ DOMAIN W.nodes = C
  BY CaptureIs
<1> HIDE DEF V, W
<1>6. RemoveSubtree(B, V) = Cut(B, V) /\ RemoveSubtree(T, W) = Cut(T, W)
  BY <1>1, <1>4, <1>5, RemovedIs
<1>7. ASSUME NEW id \in DOMAIN T \ C
      PROVE  /\ B[id].parent = T[id].parent /\ B[id].value = T[id].value
             /\ Without(B[id].children, x) = Without(T[id].children, x)
  <2>1. x \in C
    BY SubtreeIs
  <2>2. Without(Listed(T[id].children, x, id, p, i), x) = Without(T[id].children, x)
    <3>1. IsList(T[id].children) /\ x \in Nat
      BY DEF IsScene, IsNodes, Linked
    <3> QED
      BY <3>1, ListedIs
  <2> QED
    BY <1>2, <2>1, <2>2
<1> HIDE DEF C
<1>8. Cut(B, V) = Cut(T, W)
  BY <1>2, <1>4, <1>5, <1>7 DEF Cut
<1> QED
  BY <1>1, <1>2, <1>3, <1>6, <1>8 DEF B, V, W, C

\* One entity.
LEMMA OneEntity ==
  ASSUME NEW n \in Nat, NEW x \in 1..n, NEW v \in Component
  PROVE  LET W == [root |-> x, index |-> 0, nodes |-> NewEntity(x, v)] IN
         IsTree(W, n) /\ DOMAIN W.nodes = {x} /\ W.nodes[x].parent = 0
<1> DEFINE N == NewEntity(x, v)
           W == [root |-> x, index |-> 0, nodes |-> N]
<1>1. /\ DOMAIN N = {x} /\ N = [id \in {x} |-> N[id]]
      /\ N[x] = [parent |-> 0, children |-> <<>>, value |-> v]
      /\ N[x].parent = 0 /\ N[x].children = <<>>
  BY DEF NewEntity
<1>2. W.root = x /\ W.index = 0 /\ W.nodes = N
  OBVIOUS
<1> HIDE DEF N, W
<1>3. N[x] \in Node
  <2>1. <<>> \in Seq(Nat)
    OBVIOUS
  <2>2. [parent |-> 0, children |-> <<>>, value |-> v] \in Node
    BY <2>1 DEF Node
  <2> QED
    BY <1>1, <2>2
<1>4. Linked(N)
  <2>1. IsList(<<>>) /\ ToSet(<<>>) = {}
    BY DEF IsList, ToSet
  <2>2. {c \in DOMAIN N : N[c].parent = x} = {}
    BY <1>1
  <2> QED
    BY <1>1, <2>1, <2>2 DEF Linked
<1>5. Ends(N)
  BY <1>1 DEF Ends
<1>6. N \in [DOMAIN N -> Node] /\ DOMAIN N \subseteq 1..n
  BY <1>1, <1>3
<1>7. IsTree(W, n)
  BY <1>1, <1>2, <1>4, <1>5, <1>6 DEF IsTree, IsNodes
<1> QED
  BY <1>1, <1>2, <1>7 DEF W, N

LEMMA CreateRecorded ==
  ASSUME NEW n \in Nat, NEW S, IsScene(S, n)
  PROVE  LET B == With(S, NewEntity(n + 1, None))
             W == CaptureSubtree(B, n + 1)
         IN  Recorded(<<Add(W)>>, S, B, n + 1) /\ DOMAIN W.nodes = {n + 1}
<1> DEFINE m == n + 1
           x == n + 1
           N == NewEntity(x, None)
           B == With(S, N)
           V == [root |-> x, index |-> 0, nodes |-> N]
<1>1. m \in Nat /\ n <= m /\ x \in 1..m /\ x \notin 1..n
  OBVIOUS
<1> HIDE DEF m, x
<1>2. IsScene(S, m)
  BY <1>1, MoreIds
<1>3. IsTree(V, m) /\ DOMAIN V.nodes = {x} /\ V.nodes[x].parent = 0
  <2>1. None \in Component
    BY DEF Component
  <2> QED
    BY <1>1, <2>1, OneEntity
<1>4. x \notin DOMAIN S
  BY <1>1 DEF IsScene, IsNodes
<1>5. V.root = x /\ V.nodes = N
  OBVIOUS
<1> HIDE DEF V, N
<1>6. /\ IsScene(B, m) /\ DOMAIN B = DOMAIN S \cup {x} /\ CollectSubtree(B, x) = {x}
      /\ RemoveSubtree(B, CaptureSubtree(B, x)) = S
  BY <1>1, <1>2, <1>3, <1>4, <1>5, NewTree
<1> HIDE DEF B
<1>7. Recorded(<<Add(CaptureSubtree(B, x))>>, S, B, m)
  BY <1>1, <1>6, AddEntitiesRecorded
<1>8. DOMAIN CaptureSubtree(B, x).nodes = {x}
  BY <1>1, <1>6, CaptureIs
<1> QED
  BY <1>7, <1>8 DEF B, N, m, x

LEMMA RevertRecorded ==
  ASSUME NEW n \in Nat, NEW S, IsScene(S, n), NEW x \in DOMAIN S, NEW v \in Value
  PROVE  LET W == CaptureSubtree(S, x)
             T == With(RemoveSubtree(S, W), NewEntity(x, v))
             p == S[x].parent
             B == IF p = 0 THEN T ELSE SetParentAtIndex(T, x, p, SiblingIndexOf(S, x))
         IN  Recorded(<<Delete(W), Add(CaptureSubtree(B, x))>>, S, B, n)
<1> DEFINE W == CaptureSubtree(S, x)
           M == RemoveSubtree(S, W)
           N == NewEntity(x, v)
           T == With(M, N)
           p == S[x].parent
           i == SiblingIndexOf(S, x)
           B == IF p = 0 THEN T ELSE SetParentAtIndex(T, x, p, i)
           V == [root |-> x, index |-> 0, nodes |-> N]
           c == Delete(W)
           d == Add(CaptureSubtree(B, x))
<1>1. /\ IsTree(W, n) /\ IsOf(W, S) /\ W.root = x /\ DOMAIN W.nodes = CollectSubtree(S, x)
      /\ W.index = i /\ i \in Nat
  BY CaptureIs DEF IsExact, IsTree
<1>2. /\ IsScene(M, n) /\ Leads(c, S, M, n) /\ UndoOne(M, c) = S /\ RedoOne(S, c) = M
  BY DeleteRecorded DEF Recorded
<1>3. DOMAIN M = DOMAIN S \ CollectSubtree(S, x)
  <2> HIDE DEF W
  <2>1. M = Cut(S, W)
    BY <1>1, RemovedIs
  <2> QED
    BY <1>1, <2>1 DEF Cut
<1>4. x \in CollectSubtree(S, x) /\ p \notin CollectSubtree(S, x) /\ p \in DOMAIN S \cup {0}
  BY SubtreeIs DEF IsScene
<1>5. IsTree(V, n) /\ DOMAIN V.nodes = {x} /\ V.nodes[x].parent = 0
  <2>1. x \in 1..n /\ v \in Component
    BY DEF IsScene, IsNodes, Component
  <2> QED
    BY <2>1, OneEntity
<1>6. V.root = x /\ V.nodes = N
  OBVIOUS
<1> HIDE DEF W, M, N, V, c, i
<1>7. /\ IsScene(T, n) /\ DOMAIN T = DOMAIN M \cup {x} /\ CollectSubtree(T, x) = {x}
      /\ RemoveSubtree(T, CaptureSubtree(T, x)) = M
  <2>1. DOMAIN V.nodes \cap DOMAIN M = {}
    BY <1>3, <1>4, <1>5
  <2> QED
    BY <1>2, <1>5, <1>6, <2>1, NewTree
<1> HIDE DEF T
<1>8. IsScene(B, n) /\ x \in DOMAIN B /\ RemoveSubtree(B, CaptureSubtree(B, x)) = M
  <2>1. CASE p = 0
    BY <1>7, <2>1
  <2>2. CASE p # 0
    <3>1. p \in DOMAIN T /\ p \notin CollectSubtree(T, x) /\ x \in DOMAIN T
      BY <1>3, <1>4, <1>7, <2>2
    <3>0. i \in Nat
      BY <1>1
    <3> DEFINE P == Placed(T, x, p, i)
    <3>2. /\ IsScene(P, n) /\ x \in DOMAIN P
          /\ RemoveSubtree(P, CaptureSubtree(P, x)) = M
      <4>1. LET P1 == Placed(T, x, p, i) IN
            /\ IsScene(P1, n) /\ x \in DOMAIN P1
            /\ CollectSubtree(P1, x) = CollectSubtree(T, x)
            /\ RemoveSubtree(P1, CaptureSubtree(P1, x)) = RemoveSubtree(T, CaptureSubtree(T, x))
        <5> HIDE DEF p
        <5> QED
          BY ONLY <3>0, <1>7, <3>1, MovedTree, n \in Nat
      <4> QED
        BY <1>7, <4>1
    <3>3. SetParentAtIndex(T, x, p, i) = P
      <4>1. x \notin Above(T, p)
        BY <1>7, <3>1, AboveBelow
      <4> QED
        BY <1>1, <1>7, <3>1, <4>1, SetParentAtIndexIs
    <3> HIDE DEF P
    <3> QED
      BY <2>2, <3>2, <3>3
  <2> QED
    BY <2>1, <2>2
<1> HIDE DEF B
<1>9. Leads(d, M, B, n) /\ UndoOne(B, d) = M /\ RedoOne(M, d) = B
  <2>1. LET e == Add(CaptureSubtree(B, x)) IN
        /\ Recorded(<<e>>, M, B, n)
        /\ Leads(e, M, B, n) /\ UndoOne(B, e) = M /\ RedoOne(M, e) = B
    BY ONLY <1>8, AddEntitiesRecorded, n \in Nat
  <2> QED
    BY <2>1
<1> HIDE DEF d
<1>10. Len(<<c, d>>) = 2 /\ <<c, d>>[1] = c /\ <<c, d>>[2] = d
  OBVIOUS
<1>11. EntryLeads(<<c, d>>, S, B, n)
  BY <1>2, <1>9, <1>10 DEF EntryLeads
<1>12. Exactly(<<c, d>>, S, B)
  BY <1>2, <1>9, <1>10 DEF Exactly, UndoAll, RedoAll
<1> QED
  BY <1>8, <1>11, <1>12 DEF Recorded, c, d, B, T, N, M, W, i

\* The copies of a subtree.
Copies(S, source, copy) ==
  [new \in {copy[id] : id \in DOMAIN copy} |->
     LET old == CHOOSE id \in DOMAIN copy : copy[id] = new
     IN  [S[old] EXCEPT !.parent   = IF old = source THEN 0 ELSE copy[@],
                        !.children = [i \in DOMAIN @ |-> copy[@[i]]]]]

\* What n + 1, n + 2, ... are minted for.
NewIds(n, k) == n + 1..n + k

CopyTree(S, source, copy) == [root |-> copy[source], index |-> 0, nodes |-> Copies(S, source, copy)]

LEMMA CopiesAre ==
  ASSUME NEW n \in Nat, NEW k \in Nat, NEW S, IsScene(S, n), NEW s \in DOMAIN S,
         NEW copy \in Bijection(CollectSubtree(S, s), NewIds(n, k))
  PROVE  LET W == CopyTree(S, s, copy) IN
         /\ IsTree(W, n + k)
         /\ DOMAIN W.nodes = NewIds(n, k)
         /\ W.root \in DOMAIN W.nodes /\ W.nodes[W.root].parent = 0
<1> DEFINE C == CollectSubtree(S, s)
           D == NewIds(n, k)
           N == Copies(S, s, copy)
           W == CopyTree(S, s, copy)
<1>1. /\ S \in [DOMAIN S -> Node] /\ DOMAIN S \subseteq 1..n /\ Linked(S) /\ Ends(S)
  BY DEF IsScene, IsNodes
<1>2. /\ s \in C /\ C \subseteq DOMAIN S /\ S[s].parent \notin C
      /\ \A id \in DOMAIN S \ {s} : id \in C <=> S[id].parent \in C
  BY SubtreeIs
<1>3. /\ copy \in [C -> D] /\ DOMAIN copy = C
      /\ \A a, b \in C : copy[a] = copy[b] => a = b
      /\ \A d \in D : \E id \in C : copy[id] = d
  <2>1. copy \in Bijection(C, D)
    OBVIOUS
  <2> HIDE DEF C, D
  <2> QED
    BY <2>1, Fun_BijectionProperties
<1>4. D \subseteq Nat /\ 0 \notin D /\ D \subseteq 1..n + k
  BY DEF NewIds
<1> HIDE DEF C, D
<1>5. {copy[id] : id \in DOMAIN copy} = D
  BY <1>3
<1>6. ASSUME NEW id \in C
      PROVE  /\ copy[id] \in D
             /\ N[copy[id]].parent = IF id = s THEN 0 ELSE copy[S[id].parent]
             /\ N[copy[id]].children = [i \in DOMAIN S[id].children |-> copy[S[id].children[i]]]
             /\ N[copy[id]] = [parent |-> N[copy[id]].parent, children |-> N[copy[id]].children,
                               value |-> S[id].value]
  <2>1. copy[id] \in D
    BY <1>3
  <2>2. (CHOOSE old \in DOMAIN copy : copy[old] = copy[id]) = id
    BY <1>3
  <2>3. N[copy[id]] =
          [S[id] EXCEPT !.parent   = IF id = s THEN 0 ELSE copy[@],
                        !.children = [i \in DOMAIN @ |-> copy[@[i]]]]
    BY <1>5, <2>1, <2>2 DEF Copies
  <2>4. S[id] \in Node
    BY <1>1, <1>2
  <2>5. S[id] = [parent |-> S[id].parent, children |-> S[id].children, value |-> S[id].value]
    BY <2>4 DEF Node
  <2> DEFINE p == IF id = s THEN 0 ELSE copy[S[id].parent]
             l == [i \in DOMAIN S[id].children |-> copy[S[id].children[i]]]
  <2>6. N[copy[id]] = [S[id] EXCEPT !.parent = p, !.children = l]
    BY <2>3
  <2> HIDE DEF N, p, l
  <2>7. N[copy[id]] = [parent |-> p, children |-> l, value |-> S[id].value]
    BY <2>5, <2>6
  <2>8. N[copy[id]].parent = p /\ N[copy[id]].children = l
    BY <2>7
  <2> QED
    BY <2>1, <2>7, <2>8 DEF p, l
<1>7. DOMAIN N = D /\ N = [new \in D |-> N[new]]
  BY <1>5 DEF Copies
<1> HIDE DEF N
<1>8. ASSUME NEW id \in C
      PROVE  /\ N[copy[id]].parent = 0 <=> id = s
             /\ N[copy[id]].parent \in D <=> id # s
             /\ id # s => S[id].parent \in C /\ N[copy[id]].parent = copy[S[id].parent]
             /\ N[copy[id]].parent \in Nat
  <2>1. CASE id = s
    <3>1. N[copy[id]].parent = 0
      BY <1>6, <2>1
    <3> QED
      BY <1>4, <2>1, <3>1
  <2>2. CASE id # s
    <3>1. S[id].parent \in C
      BY <1>2, <2>2
    <3>2. copy[S[id].parent] \in D
      BY <1>3, <3>1
    <3>3. N[copy[id]].parent = copy[S[id].parent]
      BY <1>6, <2>2
    <3>4. N[copy[id]].parent \in D /\ N[copy[id]].parent # 0 /\ N[copy[id]].parent \in Nat
      BY <1>4, <3>2, <3>3
    <3> QED
      BY <2>2, <3>1, <3>3, <3>4
  <2> QED
    BY <2>1, <2>2
<1>9. ASSUME NEW id \in C
      PROVE  /\ N[copy[id]] \in Node /\ IsList(N[copy[id]].children)
             /\ ToSet(N[copy[id]].children) = {d \in DOMAIN N : N[d].parent = copy[id]}
  <2> DEFINE l == S[id].children
             m == N[copy[id]].children
  <2>1. IsList(l) /\ ToSet(l) = {d \in DOMAIN S : S[d].parent = id}
    BY <1>1, <1>2 DEF Linked
  <2>2. l \in Seq(Nat) /\ DOMAIN l = 1..Len(l) /\ Len(l) \in Nat
    BY <2>1 DEF IsList
  <2>3. \A i \in DOMAIN l : l[i] \in C
    <3>1. \A i \in DOMAIN l : l[i] \in DOMAIN S /\ S[l[i]].parent = id
      BY <2>1 DEF ToSet
    <3> QED
      BY <1>2, <3>1
  <2>4. m = [i \in 1..Len(l) |-> copy[l[i]]]
    BY <1>6, <2>2
  <2> HIDE DEF l, m
  <2>5. \A i \in 1..Len(l) : m[i] = copy[l[i]] /\ copy[l[i]] \in D
    BY <1>3, <2>2, <2>3, <2>4
  <2>6. m \in Seq(Nat) /\ DOMAIN m = 1..Len(l)
    <3>1. m \in [1..Len(l) -> Nat]
      BY <1>4, <2>4, <2>5
    <3> QED
      BY <2>2, <3>1
  <2>7. IsList(m)
    BY <1>3, <2>1, <2>2, <2>3, <2>5, <2>6 DEF IsList
  <2>8. ASSUME NEW d \in D
        PROVE  d \in ToSet(m) <=> N[d].parent = copy[id]
    <3>1. PICK x \in C : copy[x] = d
      BY <1>3
    <3>2. d \in ToSet(m) <=> \E i \in 1..Len(l) : copy[l[i]] = copy[x]
      BY <2>5, <2>6, <3>1 DEF ToSet
    <3>3. (\E i \in 1..Len(l) : copy[l[i]] = copy[x]) <=> x \in ToSet(l)
      BY <1>3, <2>2, <2>3 DEF ToSet
    <3>4. x \in ToSet(l) <=> S[x].parent = id
      BY <1>2, <2>1
    <3>5. S[x].parent = id <=> N[copy[x]].parent = copy[id]
      <4>1. CASE x = s
        <5>1. N[copy[x]].parent = 0
          BY <1>8, <4>1
        <5>2. copy[id] # 0 /\ S[x].parent # id
          BY <1>2, <1>3, <1>4, <4>1
        <5> QED
          BY <5>1, <5>2
      <4>2. CASE x # s
        <5>1. S[x].parent \in C /\ N[copy[x]].parent = copy[S[x].parent]
          BY <1>8, <4>2
        <5> QED
          BY <1>3, <5>1
      <4> QED
        BY <4>1, <4>2
    <3> QED
      BY <3>1, <3>2, <3>3, <3>4, <3>5
  <2>9. ToSet(m) \subseteq D
    BY <2>5, <2>6 DEF ToSet
  <2>10. ToSet(m) = {d \in DOMAIN N : N[d].parent = copy[id]}
    BY <1>7, <2>8, <2>9
  <2>11. N[copy[id]] \in Node
    <3>1. S[id].value \in Component /\ N[copy[id]].parent \in Nat
      BY <1>1, <1>2, <1>8 DEF Node
    <3>2. m \in Seq(Nat)
      BY <2>6
    <3>3. N[copy[id]] = [parent |-> N[copy[id]].parent, children |-> m, value |-> S[id].value]
      BY <1>6 DEF m
    <3> QED
      BY <3>1, <3>2, <3>3 DEF Node
  <2> QED
    BY <2>7, <2>10, <2>11 DEF m
<1>10. ASSUME NEW d \in D PROVE \E id \in C : copy[id] = d
  BY <1>3
<1>11. N \in [DOMAIN N -> Node] /\ DOMAIN N \subseteq 1..n + k
  BY <1>4, <1>7, <1>9, <1>10
<1>12. Linked(N)
  BY <1>7, <1>9, <1>10 DEF Linked
<1>13. Ends(N)
  <2> SUFFICES ASSUME NEW X \in (SUBSET DOMAIN N) \ {{}} PROVE \E x \in X : N[x].parent \notin X
    BY DEF Ends
  <2> DEFINE Y == {id \in C : copy[id] \in X}
  <2>1. Y \in (SUBSET DOMAIN S) \ {{}}
    BY <1>2, <1>7, <1>10
  <2>2. PICK y \in Y : S[y].parent \notin Y
    BY <1>1, <2>1 DEF Ends
  <2>3. N[copy[y]].parent \notin X
    <3>1. CASE y = s
      BY <1>4, <1>7, <1>8, <2>2, <3>1
    <3>2. CASE y # s
      BY <1>8, <2>2, <3>2
    <3> QED
      BY <3>1, <3>2
  <2> QED
    BY <2>2, <2>3
<1>14. \A d \in D : N[d].parent \in D <=> d # copy[s]
  BY <1>2, <1>3, <1>8, <1>10
<1>15. W.root = copy[s] /\ W.index = 0 /\ W.nodes = N
  BY DEF CopyTree, N
<1>16. copy[s] \in D /\ N[copy[s]].parent = 0
  BY <1>2, <1>3, <1>8
<1> HIDE DEF W
<1>17. IsTree(W, n + k)
  BY <1>7, <1>11, <1>12, <1>13, <1>14, <1>15, <1>16 DEF IsTree, IsNodes
<1> QED
  BY <1>7, <1>15, <1>16, <1>17 DEF W, N, D

LEMMA DuplicateRecorded ==
  ASSUME NEW n \in Nat, NEW k \in Nat, NEW S, IsScene(S, n), NEW s \in DOMAIN S,
         NEW copy \in Bijection(CollectSubtree(S, s), NewIds(n, k)),
         NEW x, x = copy[s], NEW B, B = DuplicateEntity(S, s, copy)
  PROVE  Recorded(<<Add(CaptureSubtree(B, x))>>, S, B, n + k) /\ x \in DOMAIN B
         /\ CollectSubtree(B, x) = NewIds(n, k)
<1> DEFINE D == NewIds(n, k)
           m == n + k
           N == Copies(S, s, copy)
           V == CopyTree(S, s, copy)
           T == With(S, N)
           p == S[s].parent
<1>1. B = IF p = 0 THEN T ELSE SetParent(T, x, p)
  BY DEF DuplicateEntity, Copies
<1>2. m \in Nat /\ n <= m /\ D \cap 1..n = {}
  BY DEF NewIds
<1>3. IsTree(V, m) /\ DOMAIN V.nodes = D /\ V.root \in DOMAIN V.nodes /\ V.nodes[V.root].parent = 0
  BY CopiesAre
<1>4. V.root = x /\ V.nodes = N
  BY DEF CopyTree
<1> HIDE DEF V, N, m, D
<1>5. IsScene(S, m)
  BY <1>2, MoreIds
<1>6. DOMAIN S \subseteq 1..n /\ p \in DOMAIN S \cup {0}
  BY DEF IsScene, IsNodes
<1>7. /\ IsScene(T, m) /\ DOMAIN T = DOMAIN S \cup D /\ CollectSubtree(T, x) = D
      /\ RemoveSubtree(T, CaptureSubtree(T, x)) = S
  <2>1. DOMAIN V.nodes \cap DOMAIN S = {}
    BY <1>2, <1>3, <1>6
  <2>2. LET F == With(S, V.nodes) IN
        /\ IsScene(F, m) /\ DOMAIN F = DOMAIN S \cup DOMAIN V.nodes
        /\ CollectSubtree(F, V.root) = DOMAIN V.nodes
        /\ RemoveSubtree(F, CaptureSubtree(F, V.root)) = S
    BY ONLY <1>2, <1>3, <1>5, <2>1, NewTree
  <2>3. T = With(S, V.nodes)
    BY <1>4
  <2> HIDE DEF T
  <2> QED
    BY <1>3, <1>4, <2>2, <2>3
<1> HIDE DEF T, p
<1>8. /\ IsScene(B, m) /\ x \in DOMAIN B /\ CollectSubtree(B, x) = D
      /\ RemoveSubtree(B, CaptureSubtree(B, x)) = S
  <2>1. CASE p = 0
    BY <1>1, <1>3, <1>4, <1>7, <2>1
  <2>2. CASE p # 0
    <3>1. p \in DOMAIN T /\ p \notin CollectSubtree(T, x) /\ x \in DOMAIN T
      BY <1>2, <1>3, <1>4, <1>6, <1>7, <2>2
    <3>2. x \notin Above(T, p)
      BY <1>2, <1>7, <3>1, AboveBelow
    <3>3. PICK i \in Nat : SetParent(T, x, p) = Placed(T, x, p, i)
      BY <1>2, <1>7, <3>1, <3>2, SetParentIs
    <3>4. LET P == Placed(T, x, p, i) IN
          /\ IsScene(P, m) /\ x \in DOMAIN P
          /\ CollectSubtree(P, x) = CollectSubtree(T, x)
          /\ RemoveSubtree(P, CaptureSubtree(P, x)) = RemoveSubtree(T, CaptureSubtree(T, x))
      BY ONLY <1>2, <1>7, <3>1, MovedTree, i \in Nat
    <3>5. B = Placed(T, x, p, i)
      BY <1>1, <2>2, <3>3
    <3> QED
      BY <1>7, <3>4, <3>5
  <2> QED
    BY <2>1, <2>2
<1>9. Recorded(<<Add(CaptureSubtree(B, x))>>, S, B, m)
  BY <1>2, <1>8, AddEntitiesRecorded
<1> QED
  BY <1>8, <1>9 DEF m, D

-----------------------------------------------------------------------------
(* The two stacks as one row of entries *)

IsSeq(s) == s \in Seq(ToSet(s))

LEMMA SeqIs ==
  ASSUME NEW s, IsSeq(s)
  PROVE  /\ Len(s) \in Nat /\ DOMAIN s = 1..Len(s)
         /\ Len(s) = 0 <=> s = <<>>
BY DEF IsSeq

LEMMA SomeSeq ==
  ASSUME NEW T, NEW s \in Seq(T)
  PROVE  IsSeq(s)
<1>1. Len(s) \in Nat /\ DOMAIN s = 1..Len(s) /\ s = [i \in 1..Len(s) |-> s[i]]
  OBVIOUS
<1>2. \A i \in 1..Len(s) : s[i] \in ToSet(s)
  BY <1>1 DEF ToSet
<1>3. s \in [1..Len(s) -> ToSet(s)]
  BY <1>1, <1>2
<1> HIDE DEF ToSet
<1> QED
  BY <1>1, <1>3 DEF IsSeq

LEMMA AppendIs ==
  ASSUME NEW s, IsSeq(s), NEW e
  PROVE  LET t == Append(s, e) IN
         /\ IsSeq(t) /\ Len(t) = Len(s) + 1
         /\ \A i \in 1..Len(s) : t[i] = s[i]
         /\ t[Len(s) + 1] = e
<1> DEFINE T == ToSet(s) \cup {e}
<1>1. s \in Seq(ToSet(s))
  BY DEF IsSeq
<1> HIDE DEF T
<1>2. s \in Seq(T) /\ e \in T
  <2>1. ToSet(s) \subseteq T /\ e \in T
    BY DEF T
  <2> QED
    BY <1>1, <2>1
<1>3. /\ Append(s, e) \in Seq(T) /\ Len(Append(s, e)) = Len(s) + 1
      /\ \A i \in 1..Len(s) : Append(s, e)[i] = s[i]
      /\ Append(s, e)[Len(s) + 1] = e
  BY <1>2, AppendProperties
<1> QED
  BY <1>3, SomeSeq

LEMMA SubSeqOf ==
  ASSUME NEW s, IsSeq(s), NEW a \in 1..Len(s) + 1, NEW b \in a - 1..Len(s)
  PROVE  LET t == SubSeq(s, a, b) IN
         /\ IsSeq(t) /\ Len(t) = b - a + 1
         /\ \A i \in 1..b - a + 1 : t[i] = s[a + i - 1]
<1>1. s \in Seq(ToSet(s)) /\ Len(s) \in Nat
  BY DEF IsSeq
<1>2. /\ SubSeq(s, a, b) \in Seq(ToSet(s))
      /\ Len(SubSeq(s, a, b)) = b - a + 1
      /\ \A i \in 1..b - a + 1 : SubSeq(s, a, b)[i] = s[a + i - 1]
  <2>1. /\ a \in Int /\ b \in Int /\ (~(a <= b) => b - a + 1 = 0)
        /\ \A i \in a..b : i \in 1..Len(s)
    BY <1>1
  <2>2. \A i \in a..b : s[i] \in ToSet(s)
    BY <1>1, <2>1
  <2>3. /\ SubSeq(s, a, b) \in Seq(ToSet(s))
        /\ Len(SubSeq(s, a, b)) = IF a <= b THEN b - a + 1 ELSE 0
        /\ \A i \in 1..b - a + 1 : SubSeq(s, a, b)[i] = s[a + i - 1]
    BY ONLY <2>1, <2>2, SubSeqProperties
  <2> QED
    BY <2>1, <2>3
<1> QED
  BY <1>2, SomeSeq

LEMMA FrontOf ==
  ASSUME NEW s, IsSeq(s), s # <<>>
  PROVE  /\ IsSeq(Front(s)) /\ Len(Front(s)) = Len(s) - 1 /\ Len(s) > 0
         /\ \A i \in 1..Len(s) - 1 : Front(s)[i] = s[i]
         /\ Last(s) = s[Len(s)]
<1>1. Len(s) \in Nat /\ Len(s) > 0
  BY SeqIs
<1> DEFINE m == Len(s) - 1
<1>2. m \in 1 - 1..Len(s) /\ 1 \in 1..Len(s) + 1
  BY <1>1
<1> HIDE DEF m
<1>3. LET t == SubSeq(s, 1, m) IN
      /\ IsSeq(t) /\ Len(t) = m - 1 + 1
      /\ \A i \in 1..m - 1 + 1 : t[i] = s[1 + i - 1]
  BY <1>2, SubSeqOf
<1> QED
  BY <1>1, <1>3 DEF Front, Last, m

LEMMA TailOf ==
  ASSUME NEW s, IsSeq(s), s # <<>>
  PROVE  /\ IsSeq(Tail(s)) /\ Len(Tail(s)) = Len(s) - 1
         /\ \A i \in 1..Len(s) - 1 : Tail(s)[i] = s[i + 1]
<1>1. Len(s) \in Nat /\ Len(s) > 0 /\ s \in Seq(ToSet(s))
  BY SeqIs DEF IsSeq
<1>2. /\ Tail(s) \in Seq(ToSet(s)) /\ Len(Tail(s)) = Len(s) - 1
      /\ \A i \in 1..Len(s) - 1 : Tail(s)[i] = s[i + 1]
  BY <1>1, HeadTailProperties
<1> QED
  BY <1>2, SomeSeq

Depths == Len(undo) + Len(redo)

\* The command between the scenes at the depths i - 1 and i.
EntryAt(i) == IF i <= Len(undo) THEN undo[i] ELSE redo[Depths + 1 - i]

Here == Len(undo) + 1

Shape ==
  /\ IsSeq(undo) /\ IsSeq(redo) /\ IsSeq(shots)
  /\ Len(shots) = Depths + 1 /\ Depths <= MaxDepth

LEMMA UndoKeepsRow ==
  ASSUME Shape, undo # <<>>, undo' = Front(undo), redo' = Append(redo, Last(undo)), shots' = shots
  PROVE  /\ Shape' /\ Depths' = Depths /\ Len(undo') = Len(undo) - 1 /\ Len(undo) \in 1..Depths
         /\ Last(undo) = EntryAt(Len(undo))
         /\ \A i \in 1..Depths : EntryAt(i)' = EntryAt(i)
<1>1. /\ Len(undo) \in Nat /\ Len(redo) \in Nat /\ Len(undo) > 0
      /\ IsSeq(undo') /\ Len(undo') = Len(undo) - 1
      /\ \A i \in 1..Len(undo) - 1 : undo'[i] = undo[i]
      /\ Last(undo) = undo[Len(undo)]
  BY SeqIs, FrontOf DEF Shape
<1>2. /\ IsSeq(redo') /\ Len(redo') = Len(redo) + 1
      /\ \A i \in 1..Len(redo) : redo'[i] = redo[i]
      /\ redo'[Len(redo) + 1] = Last(undo)
  BY AppendIs DEF Shape
<1>3. Depths' = Depths
  BY <1>1, <1>2 DEF Depths
<1>4. ASSUME NEW i \in 1..Depths PROVE EntryAt(i)' = EntryAt(i)
  <2>1. i \in Nat /\ i >= 1 /\ i <= Len(undo) + Len(redo)
    BY <1>1 DEF Depths
  <2>2. CASE i <= Len(undo) - 1
    BY <1>1, <2>1, <2>2 DEF EntryAt
  <2>3. CASE i = Len(undo)
    BY <1>1, <1>2, <1>3, <2>1, <2>3 DEF EntryAt, Depths
  <2>4. CASE i > Len(undo)
    <3>1. Depths + 1 - i \in 1..Len(redo)
      BY <1>1, <2>1, <2>4 DEF Depths
    <3> QED
      BY <1>1, <1>2, <1>3, <2>1, <2>4, <3>1 DEF EntryAt
  <2> QED
    BY <1>1, <2>1, <2>2, <2>3, <2>4
<1>5. Len(undo) \in 1..Depths /\ Last(undo) = EntryAt(Len(undo))
  BY <1>1 DEF Depths, EntryAt
<1>6. Shape'
  BY <1>1, <1>2, <1>3 DEF Shape
<1> QED
  BY <1>1, <1>3, <1>4, <1>5, <1>6

LEMMA RedoKeepsRow ==
  ASSUME Shape, redo # <<>>, redo' = Front(redo), undo' = Append(undo, Last(redo)), shots' = shots
  PROVE  /\ Shape' /\ Depths' = Depths /\ Len(undo') = Len(undo) + 1 /\ Here \in 1..Depths
         /\ Last(redo) = EntryAt(Here)
         /\ \A i \in 1..Depths : EntryAt(i)' = EntryAt(i)
<1>1. /\ Len(undo) \in Nat /\ Len(redo) \in Nat /\ Len(redo) > 0
      /\ IsSeq(redo') /\ Len(redo') = Len(redo) - 1
      /\ \A i \in 1..Len(redo) - 1 : redo'[i] = redo[i]
      /\ Last(redo) = redo[Len(redo)]
  BY SeqIs, FrontOf DEF Shape
<1>2. /\ IsSeq(undo') /\ Len(undo') = Len(undo) + 1
      /\ \A i \in 1..Len(undo) : undo'[i] = undo[i]
      /\ undo'[Len(undo) + 1] = Last(redo)
  BY AppendIs DEF Shape
<1>3. Depths' = Depths
  BY <1>1, <1>2 DEF Depths
<1>4. ASSUME NEW i \in 1..Depths PROVE EntryAt(i)' = EntryAt(i)
  <2>1. i \in Nat /\ i >= 1 /\ i <= Len(undo) + Len(redo)
    BY <1>1 DEF Depths
  <2>2. CASE i <= Len(undo)
    BY <1>1, <1>2, <2>1, <2>2 DEF EntryAt
  <2>3. CASE i = Len(undo) + 1
    BY <1>1, <1>2, <1>3, <2>1, <2>3 DEF EntryAt, Depths
  <2>4. CASE i > Len(undo) + 1
    <3>1. Depths + 1 - i \in 1..Len(redo) - 1
      BY <1>1, <2>1, <2>4 DEF Depths
    <3>2. ~(i <= Len(undo)) /\ ~(i <= Len(undo'))
      BY <1>1, <1>2, <2>1, <2>4
    <3>3. EntryAt(i)' = redo'[Depths + 1 - i] /\ EntryAt(i) = redo[Depths + 1 - i]
      BY <1>3, <3>2 DEF EntryAt
    <3> QED
      BY <1>1, <3>1, <3>3
  <2> QED
    BY <1>1, <2>1, <2>2, <2>3, <2>4
<1>5. Here \in 1..Depths /\ Last(redo) = EntryAt(Here)
  BY <1>1 DEF Depths, EntryAt, Here
<1>6. Shape'
  BY <1>1, <1>2, <1>3 DEF Shape
<1> QED
  BY <1>1, <1>2, <1>3, <1>4, <1>5, <1>6

\* What is pushed is the last, and what was before it the same, but for what fell off.
LEMMA PushIs ==
  ASSUME Shape, NEW entry, NEW shot, Push(entry, shot)
  PROVE  /\ Shape' /\ redo' = <<>> /\ Depths' = Len(undo') /\ shots'[Here'] = shot
         /\ Len(shots') = Here' /\ Here \in 1..Depths + 1
         /\ \E d \in {0, 1} :
              /\ Len(undo') = Len(undo) + 1 - d
              /\ \A i \in 1..Len(undo') :
                   EntryAt(i)' = IF i + d <= Len(undo) THEN EntryAt(i + d) ELSE entry
              /\ \A i \in 1..Len(undo') + 1 :
                   shots'[i] = IF i + d <= Here THEN shots[i + d] ELSE shot
<1> DEFINE grown == Append(undo, entry)
           old   == SubSeq(shots, 1, Len(undo) + 1)
           seen  == Append(old, shot)
<1>1. /\ Len(undo) \in Nat /\ Len(redo) \in Nat /\ Len(shots) = Len(undo) + Len(redo) + 1
      /\ Len(undo) <= MaxDepth /\ MaxDepth \in Nat \ {0}
  BY SeqIs, EditorUndoAssumption DEF Shape, Depths
<1>2. /\ IsSeq(grown) /\ Len(grown) = Len(undo) + 1
      /\ \A i \in 1..Len(undo) : grown[i] = undo[i]
      /\ grown[Len(undo) + 1] = entry
  BY AppendIs DEF Shape
<1>3. /\ IsSeq(old) /\ Len(old) = Len(undo) + 1
      /\ \A i \in 1..Len(undo) + 1 : old[i] = shots[i]
  <2>1. LET t == SubSeq(shots, 1, Len(undo) + 1) IN
        /\ IsSeq(t) /\ Len(t) = Len(undo) + 1 - 1 + 1
        /\ \A i \in 1..Len(undo) + 1 - 1 + 1 : t[i] = shots[1 + i - 1]
    BY <1>1, SubSeqOf DEF Shape
  <2> QED
    BY <1>1, <2>1
<1> HIDE DEF old
<1>4. /\ IsSeq(seen) /\ Len(seen) = Len(undo) + 2
      /\ \A i \in 1..Len(undo) + 1 : seen[i] = shots[i]
      /\ seen[Len(undo) + 2] = shot
  <2>1. /\ IsSeq(seen) /\ Len(seen) = Len(old) + 1
        /\ \A i \in 1..Len(old) : seen[i] = old[i]
        /\ seen[Len(old) + 1] = shot
    BY <1>3, AppendIs
  <2> QED
    BY <1>1, <1>3, <2>1
<1> HIDE DEF grown, seen
<1>5. /\ redo' = <<>>
      /\ undo' = IF Len(grown) > MaxDepth THEN Tail(grown) ELSE grown
      /\ shots' = IF Len(grown) > MaxDepth THEN Tail(seen) ELSE seen
  BY DEF Push, grown, seen, old
<1> DEFINE d == IF Len(grown) > MaxDepth THEN 1 ELSE 0
<1>6. /\ IsSeq(undo') /\ Len(undo') = Len(undo) + 1 - d /\ \A i \in 1..Len(undo') : undo'[i] = grown[i + d]
      /\ IsSeq(shots') /\ Len(shots') = Len(undo) + 2 - d
      /\ \A i \in 1..Len(shots') : shots'[i] = seen[i + d]
      /\ Len(undo') <= MaxDepth
  <2>1. CASE Len(grown) > MaxDepth
    <3>1. grown # <<>> /\ seen # <<>>
      BY <1>1, <1>2, <1>4, SeqIs
    <3>2. /\ IsSeq(undo') /\ Len(undo') = Len(grown) - 1 /\ \A i \in 1..Len(grown) - 1 : undo'[i] = grown[i + 1]
          /\ IsSeq(shots') /\ Len(shots') = Len(seen) - 1 /\ \A i \in 1..Len(seen) - 1 : shots'[i] = seen[i + 1]
      BY <1>2, <1>4, <1>5, <2>1, <3>1, TailOf
    <3> QED
      BY <1>1, <1>2, <1>4, <2>1, <3>2
  <2>2. CASE ~(Len(grown) > MaxDepth)
    <3>1. undo' = grown /\ shots' = seen /\ d = 0
      BY <1>5, <2>2
    <3> QED
      BY <1>1, <1>2, <1>4, <2>2, <3>1
  <2> QED
    BY <2>1, <2>2
<1>7. d \in {0, 1}
  OBVIOUS
<1> HIDE DEF d
<1>8. IsSeq(redo') /\ Len(redo') = 0
  <2>1. <<>> \in Seq({})
    OBVIOUS
  <2> QED
    BY <1>5, <2>1, SomeSeq
<1>9. Depths' = Len(undo') /\ Here' = Len(undo') + 1
  BY <1>1, <1>6, <1>7, <1>8 DEF Depths, Here
<1>10. Shape' /\ Len(shots') = Here'
  BY <1>1, <1>6, <1>7, <1>8, <1>9 DEF Shape
<1>11. Here = Len(undo) + 1 /\ Here \in 1..Depths + 1
  BY <1>1 DEF Here, Depths
<1>12. ASSUME NEW i \in 1..Len(undo')
       PROVE  EntryAt(i)' = IF i + d <= Len(undo) THEN EntryAt(i + d) ELSE entry
  <2>1. EntryAt(i)' = grown[i + d]
    BY <1>6 DEF EntryAt
  <2>2. CASE i + d <= Len(undo)
    <3>1. i + d \in 1..Len(undo)
      BY <1>1, <1>6, <1>7, <2>2
    <3> QED
      BY <1>2, <2>1, <2>2, <3>1 DEF EntryAt
  <2>3. CASE ~(i + d <= Len(undo))
    <3>1. i + d = Len(undo) + 1
      BY <1>1, <1>6, <1>7, <2>3
    <3> QED
      BY <1>2, <2>1, <2>3, <3>1
  <2> QED
    BY <2>2, <2>3
<1>13. ASSUME NEW i \in 1..Len(undo') + 1
       PROVE  shots'[i] = IF i + d <= Here THEN shots[i + d] ELSE shot
  <2>1. i \in 1..Len(shots')
    BY <1>1, <1>6, <1>7
  <2>2. shots'[i] = seen[i + d]
    BY <1>6, <2>1
  <2>3. CASE i + d <= Here
    <3>1. i + d \in 1..Len(undo) + 1
      BY <1>1, <1>7, <1>11, <2>1, <2>3
    <3> QED
      BY <1>4, <2>2, <2>3, <3>1
  <2>4. CASE ~(i + d <= Here)
    <3>1. i + d = Len(undo) + 2
      BY <1>1, <1>6, <1>7, <1>11, <2>4
    <3> QED
      BY <1>4, <2>2, <2>4, <3>1
  <2> QED
    BY <2>3, <2>4
<1>14. shots'[Here'] = shot
  <2>1. Here' \in 1..Len(undo') + 1 /\ Here' + d = Len(undo) + 2
    BY <1>1, <1>6, <1>7, <1>9
  <2> QED
    BY <1>1, <1>11, <1>13, <2>1
<1> QED
  BY <1>5, <1>6, <1>7, <1>9, <1>10, <1>11, <1>12, <1>13, <1>14

-----------------------------------------------------------------------------
(* The inductive invariant *)

ScenesOK ==
  /\ minted \in Nat /\ IsScene(scene, minted) /\ IsScene(saved, minted)
  /\ \A i \in 1..Depths + 1 : IsScene(shots[i], minted)

\* Every entry leads from the scene at one depth to the scene at the next.
EntriesOK == \A i \in 1..Depths : EntryLeads(EntryAt(i), shots[i], shots[i + 1], minted)

\* The scene is in any case like the one at its depth, and the entries lead to the last
\* value and sibling while nothing was changed beside the stack.
StrayedOK ==
  /\ Alike(scene, shots[Here])
  /\ ~strayed =>
       /\ \A i \in 1..Depths : Exactly(EntryAt(i), shots[i], shots[i + 1])
       /\ Settle(scene, pending.before) = shots[Here]

\* What a held widget began with.
PendingOK ==
  /\ pending.edited \in BOOLEAN
  /\ pending.before \in [DOMAIN pending.before -> Value] /\ DOMAIN pending.before \subseteq 1..minted
  /\ Idle => pending = NoEdit
  /\ ~strayed => \A id \in DOMAIN pending.before \cap DOMAIN scene : Has(scene, id)
  /\ ~strayed /\ ~pending.edited => Settle(scene, pending.before) = scene

IInv == Shape /\ ScenesOK /\ EntriesOK /\ StrayedOK /\ PendingOK

LEMMA SettledIs ==
  /\ \A S : Settled(S) = Settle(S, pending.before)
  /\ Settled(scene)' = Settle(scene', pending'.before)
BY DEF Settled, Settle

LEMMA NothingHeld ==
  ASSUME NEW n \in Nat, NEW S, IsScene(S, n)
  PROVE  Settle(S, NoEdit.before) = S
<1>1. DOMAIN NoEdit.before = {} /\ NoEdit.before \in [DOMAIN NoEdit.before -> Component]
  BY DEF NoEdit
<1> HIDE DEF NoEdit
<1>2. IsScene(Settle(S, NoEdit.before), n) /\ IsSettled(Settle(S, NoEdit.before), S, NoEdit.before)
  BY <1>1, SettleIs
<1> QED
  BY <1>1, <1>2, SameScene DEF IsSettled, Said

LEMMA AlikeLeads ==
  ASSUME NEW n, NEW c, NEW A, NEW B, Leads(c, A, B, n), NEW A1, Alike(A1, A), NEW B1, Alike(B1, B)
  PROVE  Leads(c, A1, B1, n)
<1>1. CASE /\ c.kind = "edit" /\ Alike(A, B)
           /\ c.before \in [DOMAIN c.before -> Component] /\ c.after \in [DOMAIN c.before -> Component]
  <2>1. Alike(A1, B1)
    BY <1>1 DEF Alike
  <2> QED
    BY <1>1, <2>1 DEF Leads
<1>2. CASE c.kind \in {"add component", "remove component"} /\ Alike(A, B) /\ c.value \in Component
  <2>1. Alike(A1, B1)
    BY <1>2 DEF Alike
  <2> QED
    BY <1>2, <2>1 DEF Leads
<1>3. CASE /\ c.kind = "reparent" /\ Replaces(c.id, A, B) /\ c.oldIndex \in Nat /\ c.newIndex \in Nat
           /\ c.oldParent = A[c.id].parent /\ c.newParent = B[c.id].parent
  <2>1. Replaces(c.id, A1, B1)
    BY <1>3 DEF Alike, Replaces
  <2>2. c.oldParent = A1[c.id].parent /\ c.newParent = B1[c.id].parent
    BY <1>3 DEF Alike, Replaces
  <2> QED
    BY <1>3, <2>1, <2>2 DEF Leads
<1>4. \A W, S, S1, T, T1 : Grown(W, S, T, n) /\ Alike(S1, S) /\ Alike(T1, T) => Grown(W, S1, T1, n)
  BY DEF Grown, IsOf, IsFreeOf, Alike
<1>5. CASE c.kind = "delete entities" /\ Grown(c.snapshot, A, B, n)
  BY <1>4, <1>5 DEF Leads
<1>6. CASE c.kind = "add entities" /\ Grown(c.snapshot, B, A, n)
  BY <1>4, <1>6 DEF Leads
<1> QED
  BY <1>1, <1>2, <1>3, <1>5, <1>6 DEF Leads

LEMMA AlikeItself == \A S : Alike(S, S)
BY DEF Alike

LEMMA AlikeEntryLeads ==
  ASSUME NEW n, NEW e, NEW A, NEW B, EntryLeads(e, A, B, n), NEW A1, Alike(A1, A), NEW B1, Alike(B1, B)
  PROVE  EntryLeads(e, A1, B1, n)
<1>1. CASE Len(e) = 1 /\ Leads(e[1], A, B, n)
  <2>1. Leads(e[1], A1, B1, n)
    BY <1>1, AlikeLeads
  <2> QED
    BY <1>1, <2>1 DEF EntryLeads
<1>2. ASSUME Len(e) = 2, NEW M, IsScene(M, n), Leads(e[1], A, M, n), Leads(e[2], M, B, n)
      PROVE  EntryLeads(e, A1, B1, n)
  <2>1. Leads(e[1], A1, M, n) /\ Leads(e[2], M, B1, n)
    BY <1>2, AlikeLeads, AlikeItself
  <2> QED
    BY <1>2, <2>1 DEF EntryLeads
<1> QED
  BY <1>1, <1>2 DEF EntryLeads

LEMMA Indices ==
  ASSUME Shape
  PROVE  /\ Len(undo) \in Nat /\ Len(redo) \in Nat /\ Depths \in Nat
         /\ Here = Len(undo) + 1 /\ Here \in 1..Depths + 1
         /\ DOMAIN shots = 1..Depths + 1
BY SeqIs DEF Shape, Depths, Here

\* Here is what recording an entry asks for, and what it leaves.
LEMMA PushKeeps ==
  ASSUME IInv, NEW entry, NEW shot, Push(entry, shot),
         minted' \in Nat, minted <= minted', saved' = saved,
         IsScene(shot, minted'), EntryLeads(entry, shots[Here], shot, minted'),
         IsScene(scene', minted'), Alike(scene', shot),
         ~strayed' => /\ ~strayed /\ Exactly(entry, shots[Here], shot)
                      /\ Settle(scene', pending'.before) = shot,
         PendingOK'
  PROVE  IInv'
<1>1. minted \in Nat /\ Shape
  BY DEF IInv, ScenesOK
<1>2. /\ Shape' /\ Depths' = Len(undo') /\ shots'[Here'] = shot /\ Here \in 1..Depths + 1
      /\ Here = Len(undo) + 1 /\ Len(undo) \in Nat /\ Len(undo') \in Nat /\ Depths \in Nat
  BY <1>1, PushIs, Indices
<1>3. PICK d \in {0, 1} :
        /\ Len(undo') = Len(undo) + 1 - d
        /\ \A i \in 1..Len(undo') :
             EntryAt(i)' = IF i + d <= Len(undo) THEN EntryAt(i + d) ELSE entry
        /\ \A i \in 1..Len(undo') + 1 :
             shots'[i] = IF i + d <= Here THEN shots[i + d] ELSE shot
  BY <1>1, PushIs
<1>4. ASSUME NEW i \in 1..Depths' + 1 PROVE IsScene(shots'[i], minted')
  <2>1. CASE i + d <= Here
    <3>1. i + d \in 1..Depths + 1
      BY <1>2, <1>3, <2>1
    <3>2. IsScene(shots[i + d], minted)
      BY <3>1 DEF IInv, ScenesOK
    <3> QED
      BY <1>1, <1>2, <1>3, <2>1, <3>2, MoreIds
  <2>2. CASE ~(i + d <= Here)
    BY <1>2, <1>3, <2>2
  <2> QED
    BY <2>1, <2>2
<1>5. ASSUME NEW i \in 1..Depths'
      PROVE  /\ EntryLeads(EntryAt(i)', shots'[i], shots'[i + 1], minted')
             /\ ~strayed' => Exactly(EntryAt(i)', shots'[i], shots'[i + 1])
  <2>1. i \in 1..Len(undo') + 1 /\ i + 1 \in 1..Len(undo') + 1
    BY <1>2
  <2>2. CASE i + d <= Len(undo)
    <3>1. i + d \in 1..Depths /\ (i + 1) + d = (i + d) + 1 /\ (i + 1) + d <= Here /\ i + d <= Here
      BY <1>2, <1>3, <2>2
    <3>2. EntryAt(i)' = EntryAt(i + d) /\ shots'[i] = shots[i + d] /\ shots'[i + 1] = shots[(i + d) + 1]
      BY <1>2, <1>3, <2>1, <2>2, <3>1
    <3>3. EntryLeads(EntryAt(i + d), shots[i + d], shots[(i + d) + 1], minted)
      BY <3>1 DEF IInv, EntriesOK
    <3>4. ~strayed => Exactly(EntryAt(i + d), shots[i + d], shots[(i + d) + 1])
      BY <3>1 DEF IInv, StrayedOK
    <3>5. EntryLeads(EntryAt(i + d), shots[i + d], shots[(i + d) + 1], minted')
      BY <1>1, <3>3, MoreIds
    <3> QED
      BY <3>2, <3>4, <3>5
  <2>3. CASE ~(i + d <= Len(undo))
    <3>1. i + d = Here /\ ~((i + 1) + d <= Here)
      BY <1>2, <1>3, <2>3
    <3>2. EntryAt(i)' = entry /\ shots'[i] = shots[Here] /\ shots'[i + 1] = shot
      BY <1>2, <1>3, <2>1, <2>3, <3>1
    <3> QED
      BY <3>2
  <2> QED
    BY <2>2, <2>3
<1>6. ScenesOK'
  <2>1. IsScene(saved', minted')
    BY <1>1, MoreIds DEF IInv, ScenesOK
  <2> QED
    BY <1>4, <2>1 DEF ScenesOK
<1>7. EntriesOK'
  BY <1>5 DEF EntriesOK
<1>8. StrayedOK'
  BY <1>2, <1>5 DEF StrayedOK
<1> QED
  BY <1>2, <1>6, <1>7, <1>8 DEF IInv

\* The same for what is recorded while no widget is held.
LEMMA RecordKeeps ==
  ASSUME IInv, Idle, NEW entry, NEW after, NEW new \in Nat, RecordChange(entry, after, new),
         pending' = pending, saved' = saved,
         IsScene(after, minted + new), EntryLeads(entry, scene, after, minted + new),
         ~strayed' => ~strayed /\ Exactly(entry, scene, after)
  PROVE  IInv' /\ Push(entry, after)
<1>1. minted \in Nat /\ Shape /\ IsScene(scene, minted)
  BY DEF IInv, ScenesOK
<1>2. minted' = minted + new /\ scene' = after /\ minted' \in Nat /\ minted <= minted'
  BY <1>1 DEF RecordChange
<1>3. pending = NoEdit
  BY DEF IInv, PendingOK
<1>4. Settle(after, NoEdit.before) = after /\ Settle(scene, NoEdit.before) = scene
  BY <1>1, <1>2, NothingHeld
<1>5. Push(entry, after)
  BY <1>3, <1>4, SettledIs DEF RecordChange
<1>6. Alike(scene, shots[Here]) /\ (~strayed => shots[Here] = scene)
  BY <1>3, <1>4 DEF IInv, StrayedOK
<1>7. EntryLeads(entry, shots[Here], after, minted')
  BY <1>2, <1>6, AlikeEntryLeads, AlikeItself, AlikeTwice
<1>8. PendingOK'
  <2>1. DOMAIN NoEdit.before = {} /\ NoEdit.before \in [DOMAIN NoEdit.before -> Value]
        /\ NoEdit.edited \in BOOLEAN
    BY DEF NoEdit
  <2> QED
    BY <1>2, <1>3, <1>4, <2>1 DEF PendingOK
<1>9. ~strayed' => /\ ~strayed /\ Exactly(entry, shots[Here], after)
                   /\ Settle(scene', pending'.before) = after
  BY <1>2, <1>3, <1>4, <1>6
<1>10. IInv'
  BY <1>2, <1>5, <1>7, <1>8, <1>9, AlikeItself, PushKeeps
<1> QED
  BY <1>5, <1>10

-----------------------------------------------------------------------------
(* Every action keeps it *)

LEMMA InitOK ==
  ASSUME UndoInit
  PROVE  IInv /\ Settled(scene) = scene
<1>1. /\ undo = <<>> /\ redo = <<>> /\ pending = NoEdit /\ saved = scene /\ minted = 3
      /\ shots = <<scene>> /\ strayed = FALSE
  BY DEF UndoInit
<1>2. PICK v \in [1..3 -> Value \cup {None}] :
        scene = [id \in 1..3 |-> [parent |-> IF id = 1 THEN 0 ELSE 1,
                                  children |-> IF id = 1 THEN <<2, 3>> ELSE <<>>, value |-> v[id]]]
  BY DEF UndoInit
<1>3. /\ DOMAIN scene = 1..3
      /\ \A id \in 1..3 : scene[id] = [parent |-> IF id = 1 THEN 0 ELSE 1,
                                  children |-> IF id = 1 THEN <<2, 3>> ELSE <<>>, value |-> v[id]]
  BY <1>2
<1>4. /\ scene[1].parent = 0 /\ scene[2].parent = 1 /\ scene[3].parent = 1
      /\ scene[1].children = <<2, 3>> /\ scene[2].children = <<>> /\ scene[3].children = <<>>
  BY <1>3
<1>5. <<2, 3>> \in Seq(Nat) /\ <<>> \in Seq(Nat)
  OBVIOUS
<1>6. scene \in [DOMAIN scene -> Node]
  <2>1. ASSUME NEW id \in 1..3 PROVE scene[id] \in Node
    <3> DEFINE p == IF id = 1 THEN 0 ELSE 1
               l == IF id = 1 THEN <<2, 3>> ELSE <<>>
    <3>1. p \in Nat /\ l \in Seq(Nat) /\ v[id] \in Component
      BY <1>5 DEF Component
    <3>2. scene[id] = [parent |-> p, children |-> l, value |-> v[id]]
      BY <1>3
    <3> HIDE DEF p, l
    <3> QED
      BY <3>1, <3>2 DEF Node
  <2> QED
    BY <1>2, <1>3, <2>1
<1>7. Linked(scene)
  <2> SUFFICES ASSUME NEW id \in 1..3
               PROVE  /\ IsList(scene[id].children)
                      /\ ToSet(scene[id].children) = {c \in 1..3 : scene[c].parent = id}
    BY <1>3 DEF Linked
  <2>1. CASE id = 1
    <3>1. IsList(<<2, 3>>) /\ ToSet(<<2, 3>>) = {2, 3}
      BY <1>5 DEF IsList, ToSet
    <3>2. {c \in 1..3 : scene[c].parent = 1} = {2, 3}
      BY <1>4
    <3> QED
      BY <1>4, <2>1, <3>1, <3>2
  <2>2. CASE id \in {2, 3}
    <3>1. IsList(<<>>) /\ ToSet(<<>>) = {}
      BY <1>5 DEF IsList, ToSet
    <3>2. {c \in 1..3 : scene[c].parent = id} = {}
      BY <1>4, <2>2
    <3> QED
      BY <1>4, <2>2, <3>1, <3>2
  <2> QED
    BY <2>1, <2>2
<1>8. Ends(scene)
  <2> SUFFICES ASSUME NEW X \in (SUBSET DOMAIN scene) \ {{}} PROVE \E x \in X : scene[x].parent \notin X
    BY DEF Ends
  <2>1. 1 \in X => scene[1].parent \notin X
    BY <1>3, <1>4
  <2> QED
    BY <1>3, <1>4, <2>1
<1>9. IsScene(scene, 3)
  BY <1>3, <1>4, <1>6, <1>7, <1>8 DEF IsScene, IsNodes
<1>10. Settle(scene, pending.before) = scene
  BY <1>1, <1>9, NothingHeld
<1>11. /\ IsSeq(undo) /\ IsSeq(redo) /\ IsSeq(shots)
       /\ Len(undo) = 0 /\ Len(redo) = 0 /\ Len(shots) = 1 /\ shots[1] = scene
  <2>1. <<>> \in Seq({}) /\ <<scene>> \in Seq({scene})
    OBVIOUS
  <2>2. IsSeq(<<>>) /\ IsSeq(<<scene>>)
    BY <2>1, SomeSeq
  <2> QED
    BY <1>1, <2>2
<1>12. Depths = 0 /\ Here = 1
  BY <1>11 DEF Depths, Here
<1>13. Shape
  BY <1>11, <1>12, EditorUndoAssumption DEF Shape
<1>14. ScenesOK
  BY <1>1, <1>9, <1>11, <1>12 DEF ScenesOK
<1>15. EntriesOK /\ StrayedOK
  BY <1>10, <1>11, <1>12, AlikeItself DEF EntriesOK, StrayedOK
<1>16. PendingOK
  <2>1. DOMAIN NoEdit.before = {} /\ NoEdit.before \in [DOMAIN NoEdit.before -> Value]
        /\ NoEdit.edited \in BOOLEAN
    BY DEF NoEdit
  <2> QED
    BY <1>1, <1>10, <2>1 DEF PendingOK
<1>17. Settled(scene) = Settle(scene, pending.before)
  BY SettledIs
<1> QED
  BY <1>10, <1>13, <1>14, <1>15, <1>16, <1>17 DEF IInv

\* What an action that leaves the two stacks alone has to show.
LEMMA StackKeeps ==
  ASSUME IInv, UNCHANGED <<undo, redo, shots, minted>>,
         IsScene(scene', minted), saved' \in {saved, scene},
         Alike(scene', scene),
         ~strayed' => ~strayed /\ Settle(scene', pending'.before) = Settle(scene, pending.before),
         PendingOK'
  PROVE  IInv'
<1>1. Depths' = Depths /\ Here' = Here /\ \A i : EntryAt(i)' = EntryAt(i)
  BY DEF Depths, Here, EntryAt
<1>2. Shape'
  BY <1>1 DEF IInv, Shape
<1>3. ScenesOK'
  BY <1>1 DEF IInv, ScenesOK
<1>4. EntriesOK'
  BY <1>1 DEF IInv, EntriesOK
<1>5. StrayedOK'
  <2>1. Alike(scene', shots[Here])
    BY AlikeTwice DEF IInv, StrayedOK
  <2> QED
    BY <1>1, <2>1 DEF IInv, StrayedOK
<1> QED
  BY <1>2, <1>3, <1>4, <1>5 DEF IInv

LEMMA Facts ==
  ASSUME IInv
  PROVE  /\ minted \in Nat /\ IsScene(scene, minted) /\ IsScene(saved, minted)
         /\ Alike(scene, shots[Here]) /\ (~strayed => Settle(scene, pending.before) = shots[Here])
         /\ DOMAIN scene \subseteq 1..minted
         /\ \A id \in DOMAIN scene : scene[id].value \in Component
         /\ \A id : Has(scene, id) => id \in DOMAIN scene /\ scene[id].value \in Value
         /\ pending.before \in [DOMAIN pending.before -> Value]
         /\ pending.before \in [DOMAIN pending.before -> Component]
         /\ DOMAIN pending.before \subseteq 1..minted
         /\ IsScene(Settle(scene, pending.before), minted)
         /\ Alike(Settle(scene, pending.before), scene)
         /\ IsSettled(Settle(scene, pending.before), scene, pending.before)
<1>1. minted \in Nat /\ IsScene(scene, minted) /\ IsScene(saved, minted)
  BY DEF IInv, ScenesOK
<1>2. DOMAIN scene \subseteq 1..minted /\ scene \in [DOMAIN scene -> Node]
  BY <1>1 DEF IsScene, IsNodes
<1>3. \A id \in DOMAIN scene : scene[id].value \in Component
  BY <1>2 DEF Node
<1>4. \A id : Has(scene, id) => id \in DOMAIN scene /\ scene[id].value \in Value
  BY <1>3 DEF Has, Component
<1>5. pending.before \in [DOMAIN pending.before -> Value] /\ DOMAIN pending.before \subseteq 1..minted
  BY DEF IInv, PendingOK
<1>6. pending.before \in [DOMAIN pending.before -> Component]
  BY <1>5 DEF Component
<1>7. /\ IsScene(Settle(scene, pending.before), minted)
      /\ Alike(Settle(scene, pending.before), scene)
      /\ IsSettled(Settle(scene, pending.before), scene, pending.before)
  BY <1>1, <1>6, SettleIs
<1>8. Alike(scene, shots[Here]) /\ (~strayed => Settle(scene, pending.before) = shots[Here])
  BY DEF IInv, StrayedOK
<1> QED
  BY <1>1, <1>2, <1>3, <1>4, <1>5, <1>6, <1>7, <1>8

LEMMA SaveOK == ASSUME IInv, Save PROVE IInv'
<1>1. PendingOK'
  BY DEF Save, IInv, PendingOK, Idle
<1> QED
  BY <1>1, Facts, StackKeeps, AlikeItself DEF Save

LEMMA OpenOK == ASSUME IInv, Open PROVE IInv' /\ Settled(scene)' = saved
<1>1. /\ scene' = saved /\ undo' = <<>> /\ redo' = <<>> /\ pending' = NoEdit
      /\ shots' = <<saved>> /\ strayed' = FALSE /\ saved' = saved /\ minted' = minted
  BY DEF Open
<1>2. minted \in Nat /\ IsScene(saved, minted)
  BY Facts
<1>3. Settle(saved, NoEdit.before) = saved
  BY <1>2, NothingHeld
<1>4. /\ IsSeq(undo') /\ IsSeq(redo') /\ IsSeq(shots')
      /\ Len(undo') = 0 /\ Len(redo') = 0 /\ Len(shots') = 1 /\ shots'[1] = saved
  <2>1. <<>> \in Seq({}) /\ <<saved>> \in Seq({saved})
    OBVIOUS
  <2>2. IsSeq(<<>>) /\ IsSeq(<<saved>>)
    BY <2>1, SomeSeq
  <2> QED
    BY <1>1, <2>2
<1>5. Depths' = 0 /\ Here' = 1
  BY <1>4 DEF Depths, Here
<1>6. Shape'
  BY <1>4, <1>5, EditorUndoAssumption DEF Shape
<1>7. ScenesOK'
  BY <1>1, <1>2, <1>4, <1>5 DEF ScenesOK
<1>8. EntriesOK'
  BY <1>5 DEF EntriesOK
<1>9. StrayedOK'
  BY <1>1, <1>3, <1>4, <1>5, AlikeItself DEF StrayedOK
<1>10. PendingOK'
  <2>1. DOMAIN NoEdit.before = {} /\ NoEdit.before \in [DOMAIN NoEdit.before -> Value]
        /\ NoEdit.edited \in BOOLEAN
    BY DEF NoEdit
  <2> QED
    BY <1>1, <1>3, <2>1 DEF PendingOK
<1> QED
  BY <1>1, <1>3, <1>6, <1>7, <1>8, <1>9, <1>10, SettledIs DEF IInv

LEMMA GrabOK ==
  ASSUME IInv, NEW primary \in DOMAIN scene, NEW others \in SUBSET (DOMAIN scene \ {primary}),
         Grab(primary, others)
  PROVE  IInv' /\ Settled(scene)' = Settled(scene)
<1> DEFINE D == {primary} \cup others
           f == [id \in D |-> scene[id].value]
<1>1. Idle /\ (\A id \in D : Has(scene, id)) /\ pending' = [primary |-> primary, edited |-> FALSE, before |-> f]
  BY DEF Grab
<1>2. pending = NoEdit
  BY <1>1 DEF IInv, PendingOK
<1>3. minted \in Nat /\ IsScene(scene, minted) /\ D \subseteq DOMAIN scene /\ DOMAIN scene \subseteq 1..minted
  BY Facts
<1>4. f \in [D -> Value] /\ \A id \in D : f[id] = scene[id].value
  BY <1>1, Facts
<1>5. DOMAIN f = D /\ f \in [DOMAIN f -> Component]
  BY <1>4 DEF Component
<1> HIDE DEF D, f
<1>6. pending'.before = f /\ pending'.edited = FALSE /\ pending'.primary = primary
  BY <1>1
<1>7. Settle(scene, f) = scene
  <2>1. IsScene(Settle(scene, f), minted) /\ IsSettled(Settle(scene, f), scene, f)
    BY <1>3, <1>5, SettleIs
  <2> QED
    BY <1>3, <1>4, <1>5, <2>1, SameScene DEF IsSettled, Said
<1>8. Settle(scene, pending.before) = scene
  BY <1>2, <1>3, NothingHeld
<1>9. UNCHANGED <<scene, undo, redo, saved, minted, shots, strayed>>
  BY DEF Grab
<1>10. PendingOK'
  <2>1. primary # 0
    BY <1>3
  <2>2. ~Idle'
    BY <1>6, <2>1 DEF Idle
  <2>3. \A id \in D : Has(scene', id)
    BY <1>1, <1>9
  <2> QED
    BY <1>3, <1>4, <1>5, <1>6, <1>7, <1>9, <2>2, <2>3 DEF PendingOK
<1>11. IInv'
  BY <1>3, <1>6, <1>7, <1>8, <1>9, <1>10, StackKeeps, AlikeItself
<1> QED
  BY <1>6, <1>7, <1>8, <1>9, <1>11, SettledIs

LEMMA DragOK ==
  ASSUME IInv, NEW value \in Value, Drag(value)
  PROVE  IInv' /\ Settled(scene)' = Settled(scene)
<1> DEFINE f == pending.before
           g == [id \in DOMAIN f |-> value]
<1>1. /\ minted \in Nat /\ IsScene(scene, minted) /\ DOMAIN scene \subseteq 1..minted
      /\ f \in [DOMAIN f -> Component] /\ f \in [DOMAIN f -> Value] /\ DOMAIN f \subseteq 1..minted
  BY Facts
<1>2. /\ Has(scene, pending.primary) /\ scene' = Replaced(scene, g)
      /\ UNCHANGED <<undo, redo, saved, minted, shots, strayed>>
  BY DEF Drag, Replaced
<1>3. pending' = [pending EXCEPT !.edited = TRUE]
  BY DEF Drag
<1>4. DOMAIN g = DOMAIN f /\ g \in [DOMAIN g -> Component] /\ \A id \in DOMAIN g : g[id] = value /\ g[id] # None
  BY EditorUndoAssumption DEF Component
<1> HIDE DEF g
<1>5. pending'.before = f /\ pending'.edited = TRUE /\ pending'.primary = pending.primary
  BY <1>3 DEF f
<1>6. IsScene(scene', minted) /\ Alike(scene', scene)
  BY <1>1, <1>2, <1>4, ReplacedIs
<1>7. /\ DOMAIN scene' = DOMAIN scene
      /\ \A id \in DOMAIN scene :
           /\ scene'[id].parent = scene[id].parent /\ scene'[id].children = scene[id].children
           /\ scene'[id].value = IF id \in DOMAIN g /\ scene[id].value # None THEN g[id] ELSE scene[id].value
  BY <1>1, <1>2, ReplacedFields
<1> HIDE DEF f
<1>8. Settle(scene', f) = Settle(scene, f)
  <2>1. IsScene(Settle(scene, f), minted) /\ IsSettled(Settle(scene, f), scene, f)
    BY <1>1, SettleIs
  <2>2. IsScene(Settle(scene', f), minted) /\ IsSettled(Settle(scene', f), scene', f)
    BY <1>1, <1>6, SettleIs
  <2> QED
    BY <1>1, <1>4, <1>7, <2>1, <2>2, SameScene DEF IsSettled, Said
<1>9. PendingOK'
  <2>1. pending.primary # 0
    BY <1>1, <1>2 DEF Has
  <2>2. ~Idle'
    BY <1>5, <2>1 DEF Idle
  <2>3. ASSUME ~strayed, NEW id \in DOMAIN f, id \in DOMAIN scene PROVE Has(scene', id)
    <3>1. Has(scene, id)
      BY <2>3 DEF IInv, PendingOK, f
    <3> QED
      BY <1>4, <1>7, <2>3, <3>1 DEF Has
  <2> QED
    BY <1>1, <1>2, <1>5, <1>7, <2>2, <2>3 DEF PendingOK
<1>10. Settle(scene', pending'.before) = Settle(scene, pending.before)
  BY <1>5, <1>8 DEF f
<1>11. IInv'
  BY <1>2, <1>6, <1>9, <1>10, StackKeeps
<1> QED
  BY <1>10, <1>11, SettledIs

\* An entity that an entry does not touch is there before and after, with its value.
LEMMA Untouched ==
  ASSUME NEW n \in Nat, NEW e, NEW A, NEW B, EntryLeads(e, A, B, n), NEW id,
         \A i \in 1..Len(e) : id \notin Touched(e[i])
  PROVE  id \in DOMAIN A <=> id \in DOMAIN B
<1>1. ASSUME NEW c, NEW S, NEW T, Leads(c, S, T, n), id \notin Touched(c)
      PROVE  id \in DOMAIN S <=> id \in DOMAIN T
  <2>1. CASE Alike(S, T)
    BY <2>1 DEF Alike
  <2>2. CASE Replaces(c.id, S, T)
    BY <2>2 DEF Replaces
  <2>3. CASE c.kind = "delete entities" /\ Grown(c.snapshot, S, T, n)
    BY <1>1, <2>3 DEF Grown, Touched
  <2>4. CASE c.kind = "add entities" /\ Grown(c.snapshot, T, S, n)
    BY <1>1, <2>4 DEF Grown, Touched
  <2> QED
    BY <1>1, <2>1, <2>2, <2>3, <2>4 DEF Leads
<1>2. CASE Len(e) = 1 /\ Leads(e[1], A, B, n)
  BY <1>1, <1>2
<1>3. ASSUME Len(e) = 2, NEW M, Leads(e[1], A, M, n), Leads(e[2], M, B, n)
      PROVE  id \in DOMAIN A <=> id \in DOMAIN B
  <2>1. id \notin Touched(e[1]) /\ id \notin Touched(e[2])
    BY <1>3
  <2> QED
    BY <1>1, <1>3, <2>1
<1> QED
  BY <1>2, <1>3 DEF EntryLeads

LEMMA UndoKeepsValue ==
  ASSUME NEW n \in Nat, NEW A, IsScene(A, n), NEW B, IsScene(B, n), NEW e, EntryLeads(e, A, B, n),
         NEW S, IsScene(S, n), Alike(S, B), NEW id,
         \A i \in 1..Len(e) : id \notin Touched(e[i]), id \in DOMAIN UndoAll(S, e)
  PROVE  id \in DOMAIN S /\ UndoAll(S, e)[id].value = S[id].value
<1> DEFINE f == [x \in {id} |-> S[id].value]
<1>1. IsScene(UndoAll(S, e), n) /\ Alike(UndoAll(S, e), A)
  BY UndoAllLeads
<1>2. id \in DOMAIN S
  BY <1>1, Untouched DEF Alike
<1>3. S \in [DOMAIN S -> Node]
  BY DEF IsScene, IsNodes
<1>4. S[id].value \in Component
  BY <1>2, <1>3 DEF Node
<1>5. f \in [DOMAIN f -> Component] /\ DOMAIN f = {id} /\ f[id] = S[id].value
  BY <1>4
<1> HIDE DEF f
<1>6. UndoAll(Settle(S, f), e) = Settle(UndoAll(S, e), f)
  BY <1>5, UndoAllSettled
<1>7. Settle(S, f) = S
  <2>1. IsScene(Settle(S, f), n) /\ IsSettled(Settle(S, f), S, f)
    BY <1>5, SettleIs
  <2> QED
    BY <1>5, <2>1, SameScene DEF IsSettled, Said
<1>8. IsSettled(Settle(UndoAll(S, e), f), UndoAll(S, e), f)
  BY <1>1, <1>5, SettleIs
<1> QED
  BY <1>2, <1>5, <1>6, <1>7, <1>8 DEF IsSettled, Said

LEMMA RedoKeepsValue ==
  ASSUME NEW n \in Nat, NEW A, IsScene(A, n), NEW B, IsScene(B, n), NEW e, EntryLeads(e, A, B, n),
         NEW S, IsScene(S, n), Alike(S, A), NEW id,
         \A i \in 1..Len(e) : id \notin Touched(e[i]), id \in DOMAIN RedoAll(S, e)
  PROVE  id \in DOMAIN S /\ RedoAll(S, e)[id].value = S[id].value
<1> DEFINE f == [x \in {id} |-> S[id].value]
<1>1. IsScene(RedoAll(S, e), n) /\ Alike(RedoAll(S, e), B)
  BY RedoAllLeads
<1>2. id \in DOMAIN S
  BY <1>1, Untouched DEF Alike
<1>3. S \in [DOMAIN S -> Node]
  BY DEF IsScene, IsNodes
<1>4. S[id].value \in Component
  BY <1>2, <1>3 DEF Node
<1>5. f \in [DOMAIN f -> Component] /\ DOMAIN f = {id} /\ f[id] = S[id].value
  BY <1>4
<1> HIDE DEF f
<1>6. RedoAll(Settle(S, f), e) = Settle(RedoAll(S, e), f)
  BY <1>5, RedoAllSettled
<1>7. Settle(S, f) = S
  <2>1. IsScene(Settle(S, f), n) /\ IsSettled(Settle(S, f), S, f)
    BY <1>5, SettleIs
  <2> QED
    BY <1>5, <2>1, SameScene DEF IsSettled, Said
<1>8. IsSettled(Settle(RedoAll(S, e), f), RedoAll(S, e), f)
  BY <1>1, <1>5, SettleIs
<1> QED
  BY <1>2, <1>5, <1>6, <1>7, <1>8 DEF IsSettled, Said

\* What undoing or redoing an entry has to show.
LEMMA StepKeeps ==
  ASSUME IInv, UNCHANGED <<pending, shots, saved, minted>>,
         Shape', Depths' = Depths, \A i \in 1..Depths : EntryAt(i)' = EntryAt(i),
         IsScene(scene', minted), Alike(scene', shots[Here']),
         ~strayed' =>
           /\ ~strayed /\ Settle(scene', pending.before) = shots[Here']
           /\ \A id \in DOMAIN pending.before \cap DOMAIN scene' : Has(scene', id)
           /\ ~pending.edited => Settle(scene', pending.before) = scene'
  PROVE  IInv'
<1>1. ScenesOK'
  BY DEF IInv, ScenesOK
<1>2. EntriesOK'
  BY DEF IInv, EntriesOK
<1>3. StrayedOK'
  BY DEF IInv, StrayedOK
<1>4. PendingOK'
  BY DEF IInv, PendingOK, Idle
<1> QED
  BY <1>1, <1>2, <1>3, <1>4 DEF IInv

LEMMA UndoOK == ASSUME IInv, Undo PROVE IInv'
<1> DEFINE e == Last(undo)
           f == pending.before
           A == shots[Len(undo)]
           B == shots[Here]
<1>1. /\ undo # <<>> /\ scene' = UndoAll(scene, e) /\ undo' = Front(undo) /\ redo' = Append(redo, e)
      /\ strayed' = (strayed \/ Disturbs(e))
      /\ UNCHANGED <<pending, saved, minted, shots>>
  BY DEF Undo
<1>2. /\ Shape' /\ Depths' = Depths /\ Len(undo') = Len(undo) - 1 /\ Len(undo) \in 1..Depths
      /\ e = EntryAt(Len(undo))
      /\ \A i \in 1..Depths : EntryAt(i)' = EntryAt(i)
  BY <1>1, UndoKeepsRow DEF IInv
<1>3. Len(undo) \in Nat /\ Here = Len(undo) + 1 /\ Here \in 1..Depths + 1 /\ Depths \in Nat
  BY Indices DEF IInv
<1>4. Here' = Len(undo)
  BY <1>2, <1>3 DEF Here
<1>5. /\ minted \in Nat /\ IsScene(scene, minted) /\ Alike(scene, B)
      /\ (~strayed => Settle(scene, f) = B) /\ f \in [DOMAIN f -> Component]
  BY Facts
<1>6. IsScene(A, minted) /\ IsScene(B, minted)
  BY <1>2, <1>3 DEF IInv, ScenesOK
<1>7. EntryLeads(e, A, B, minted)
  BY <1>2, <1>3 DEF IInv, EntriesOK
<1>8. ~strayed => Exactly(e, A, B)
  BY <1>2, <1>3 DEF IInv, StrayedOK
<1> HIDE DEF e, f, A, B
<1>9. IsScene(scene', minted) /\ Alike(scene', A)
  BY <1>1, <1>5, <1>6, <1>7, UndoAllLeads
<1>10. ASSUME ~strayed'
       PROVE  /\ ~strayed /\ Settle(scene', f) = A
              /\ \A id \in DOMAIN f \cap DOMAIN scene' : Has(scene', id)
              /\ ~pending.edited => Settle(scene', f) = scene'
  <2>1. ~strayed /\ ~Disturbs(e)
    BY <1>1, <1>10
  <2>2. \A i \in 1..Len(e) : DOMAIN f \cap Touched(e[i]) = {}
    BY <2>1 DEF Disturbs, f
  <2>3. UndoAll(Settle(scene, f), e) = Settle(scene', f)
    BY <1>1, <1>5, <1>6, <1>7, <2>2, UndoAllSettled
  <2>4. Settle(scene', f) = A
    BY <1>5, <1>8, <2>1, <2>3 DEF Exactly
  <2>5. ASSUME NEW id \in DOMAIN f \cap DOMAIN scene' PROVE Has(scene', id)
    <3>1. \A i \in 1..Len(e) : id \notin Touched(e[i])
      BY <2>2
    <3>2. id \in DOMAIN scene /\ scene'[id].value = scene[id].value
      BY <1>1, <1>5, <1>6, <1>7, <3>1, UndoKeepsValue
    <3>3. Has(scene, id)
      BY <2>1, <3>2 DEF IInv, PendingOK, f
    <3> QED
      BY <3>2, <3>3 DEF Has
  <2>6. ~pending.edited => Settle(scene, f) = scene
    BY <2>1 DEF IInv, PendingOK, f
  <2> QED
    BY <1>1, <2>1, <2>3, <2>4, <2>5, <2>6
<1>11. shots[Here'] = A
  BY <1>4 DEF A
<1> QED
  BY <1>1, <1>2, <1>9, <1>10, <1>11, StepKeeps DEF f

LEMMA RedoOK == ASSUME IInv, Redo PROVE IInv'
<1> DEFINE e == Last(redo)
           f == pending.before
           A == shots[Here]
           B == shots[Here + 1]
<1>1. /\ redo # <<>> /\ scene' = RedoAll(scene, e) /\ redo' = Front(redo) /\ undo' = Append(undo, e)
      /\ strayed' = (strayed \/ Disturbs(e))
      /\ UNCHANGED <<pending, saved, minted, shots>>
  BY DEF Redo
<1>2. /\ Shape' /\ Depths' = Depths /\ Len(undo') = Len(undo) + 1 /\ Here \in 1..Depths
      /\ e = EntryAt(Here)
      /\ \A i \in 1..Depths : EntryAt(i)' = EntryAt(i)
  BY <1>1, RedoKeepsRow DEF IInv
<1>3. Len(undo) \in Nat /\ Here = Len(undo) + 1 /\ Depths \in Nat
  BY Indices DEF IInv
<1>4. Here' = Here + 1
  BY <1>2, <1>3 DEF Here
<1>5. /\ minted \in Nat /\ IsScene(scene, minted) /\ Alike(scene, A)
      /\ (~strayed => Settle(scene, f) = A) /\ f \in [DOMAIN f -> Component]
  BY Facts
<1>6. IsScene(A, minted) /\ IsScene(B, minted)
  BY <1>2, <1>3 DEF IInv, ScenesOK
<1>7. EntryLeads(e, A, B, minted)
  BY <1>2, <1>3 DEF IInv, EntriesOK
<1>8. ~strayed => Exactly(e, A, B)
  BY <1>2, <1>3 DEF IInv, StrayedOK
<1> HIDE DEF e, f, A, B
<1>9. IsScene(scene', minted) /\ Alike(scene', B)
  BY <1>1, <1>5, <1>6, <1>7, RedoAllLeads
<1>10. ASSUME ~strayed'
       PROVE  /\ ~strayed /\ Settle(scene', f) = B
              /\ \A id \in DOMAIN f \cap DOMAIN scene' : Has(scene', id)
              /\ ~pending.edited => Settle(scene', f) = scene'
  <2>1. ~strayed /\ ~Disturbs(e)
    BY <1>1, <1>10
  <2>2. \A i \in 1..Len(e) : DOMAIN f \cap Touched(e[i]) = {}
    BY <2>1 DEF Disturbs, f
  <2>3. RedoAll(Settle(scene, f), e) = Settle(scene', f)
    BY <1>1, <1>5, <1>6, <1>7, <2>2, RedoAllSettled
  <2>4. Settle(scene', f) = B
    BY <1>5, <1>8, <2>1, <2>3 DEF Exactly
  <2>5. ASSUME NEW id \in DOMAIN f \cap DOMAIN scene' PROVE Has(scene', id)
    <3>1. \A i \in 1..Len(e) : id \notin Touched(e[i])
      BY <2>2
    <3>2. id \in DOMAIN scene /\ scene'[id].value = scene[id].value
      BY <1>1, <1>5, <1>6, <1>7, <3>1, RedoKeepsValue
    <3>3. Has(scene, id)
      BY <2>1, <3>2 DEF IInv, PendingOK, f
    <3> QED
      BY <3>2, <3>3 DEF Has
  <2>6. ~pending.edited => Settle(scene, f) = scene
    BY <2>1 DEF IInv, PendingOK, f
  <2> QED
    BY <1>1, <2>1, <2>3, <2>4, <2>5, <2>6
<1>11. shots[Here'] = B
  BY <1>4 DEF B
<1> QED
  BY <1>1, <1>2, <1>9, <1>10, <1>11, StepKeeps DEF f

-----------------------------------------------------------------------------
(* The actions that record a change *)

\* What the abstract stack's PushEntry asks for.
Pushed == (\E entry, shot : Push(entry, shot)) /\ saved' = saved /\ (strayed => strayed')

LEMMA CommitOK ==
  ASSUME IInv, CommitPendingEdit
  PROVE  IInv' /\ (Pushed \/ UNCHANGED <<undo, redo, savedDepth, shots, lost>>)
<1> DEFINE f == pending.before
           g == [id \in DOMAIN f |-> IF Has(scene, id) THEN scene[id].value ELSE f[id]]
           e == <<Edits(f, g)>>
           B == shots[Here]
<1>1. pending' = NoEdit /\ UNCHANGED <<scene, saved, minted, strayed>>
  BY DEF CommitPendingEdit
<1>2. /\ minted \in Nat /\ IsScene(scene, minted) /\ Alike(scene, B)
      /\ (~strayed => Settle(scene, f) = B)
      /\ f \in [DOMAIN f -> Value] /\ f \in [DOMAIN f -> Component]
      /\ IsScene(Settle(scene, f), minted) /\ IsSettled(Settle(scene, f), scene, f)
      /\ \A id : Has(scene, id) => id \in DOMAIN scene /\ scene[id].value \in Value
  BY Facts
<1>3. Settle(scene, NoEdit.before) = scene
  BY <1>2, NothingHeld
<1>4. PendingOK'
  <2>1. DOMAIN NoEdit.before = {} /\ NoEdit.before \in [DOMAIN NoEdit.before -> Value]
        /\ NoEdit.edited \in BOOLEAN
    BY DEF NoEdit
  <2> QED
    BY <1>1, <1>3, <2>1 DEF PendingOK
<1>5. CASE ~pending.edited /\ UNCHANGED <<undo, redo, savedDepth, pushes, shots, lost>>
  <2>1. ~strayed => Settle(scene, f) = scene
    BY <1>5 DEF IInv, PendingOK
  <2>2. IInv'
    BY <1>1, <1>2, <1>3, <1>4, <1>5, <2>1, StackKeeps, AlikeItself
  <2> QED
    BY <1>5, <2>2
<1>6. CASE Push(e, scene)
  <2>1. DOMAIN g = DOMAIN f /\ g \in [DOMAIN g -> Component]
    BY <1>2 DEF Component
  <2>2. \A id \in DOMAIN f : g[id] = IF Has(scene, id) THEN scene[id].value ELSE f[id]
    OBVIOUS
  <2>3. Len(e) = 1 /\ e[1] = Edits(f, g)
    OBVIOUS
  <2>4. Edits(f, g).kind = "edit" /\ Edits(f, g).before = f /\ Edits(f, g).after = g
    BY DEF Edits
  <2> HIDE DEF e, g, f, B
  <2>5. Alike(B, scene)
    BY <1>2 DEF Alike
  <2>6. EntryLeads(e, B, scene, minted)
    <3>1. Leads(Edits(f, g), B, scene, minted)
      BY <1>2, <2>1, <2>4, <2>5 DEF Leads
    <3> QED
      BY <2>3, <3>1 DEF EntryLeads
  <2>7. ASSUME ~strayed PROVE Exactly(e, B, scene)
    <3>1. \A id \in DOMAIN f \cap DOMAIN scene : Has(scene, id)
      BY <2>7 DEF IInv, PendingOK, f
    <3>2. B = Settle(scene, f)
      BY <1>2, <2>7
    <3>3. UndoAll(scene, e) = Replaced(scene, f) /\ RedoAll(B, e) = Replaced(B, g)
      <4>1. UndoAll(scene, e) = UndoOne(scene, Edits(f, g)) /\ RedoAll(B, e) = RedoOne(B, Edits(f, g))
        BY <2>3 DEF UndoAll, RedoAll
      <4> QED
        BY <2>4, <4>1 DEF UndoOne, RedoOne
    <3>4. Replaced(scene, f) = B
      <4>1. IsScene(Replaced(scene, f), minted)
        BY <1>2, ReplacedIs
      <4>2. /\ DOMAIN Replaced(scene, f) = DOMAIN scene
            /\ \A id \in DOMAIN scene :
                 /\ Replaced(scene, f)[id].parent = scene[id].parent
                 /\ Replaced(scene, f)[id].children = scene[id].children
                 /\ Replaced(scene, f)[id].value =
                      IF id \in DOMAIN f /\ scene[id].value # None THEN f[id] ELSE scene[id].value
        BY <1>2, ReplacedFields
      <4> QED
        BY <1>2, <3>1, <3>2, <4>1, <4>2, SameScene DEF IsSettled, Said, Has
    <3>5. Replaced(B, g) = scene
      <4>1. IsScene(B, minted) /\ IsSettled(B, scene, f)
        BY <1>2, <3>2
      <4>2. IsScene(Replaced(B, g), minted)
        BY <1>2, <2>1, <4>1, ReplacedIs
      <4>3. /\ DOMAIN Replaced(B, g) = DOMAIN B
            /\ \A id \in DOMAIN B :
                 /\ Replaced(B, g)[id].parent = B[id].parent
                 /\ Replaced(B, g)[id].children = B[id].children
                 /\ Replaced(B, g)[id].value =
                      IF id \in DOMAIN g /\ B[id].value # None THEN g[id] ELSE B[id].value
        BY <1>2, <4>1, ReplacedFields
      <4>4. \A id \in DOMAIN f : f[id] # None
        BY <1>2, EditorUndoAssumption
      <4>5. ASSUME NEW id \in DOMAIN scene PROVE Replaced(B, g)[id].value = scene[id].value
        <5>1. CASE id \in DOMAIN f
          <6>1. B[id].value = f[id] /\ g[id] = scene[id].value
            BY <2>2, <3>1, <4>1, <5>1 DEF IsSettled, Said
          <6> QED
            BY <2>1, <4>1, <4>3, <4>4, <5>1, <6>1 DEF IsSettled
        <5>2. CASE id \notin DOMAIN f
          BY <2>1, <4>1, <4>3, <5>2 DEF IsSettled, Said
        <5> QED
          BY <5>1, <5>2
      <4> QED
        BY <1>2, <4>1, <4>2, <4>3, <4>5, SameScene DEF IsSettled
    <3> QED
      BY <3>3, <3>4, <3>5 DEF Exactly
  <2>8. IInv'
    <3>1. minted' \in Nat /\ minted <= minted' /\ IsScene(scene, minted') /\ IsScene(scene', minted')
          /\ Alike(scene', scene) /\ EntryLeads(e, shots[Here], scene, minted')
      BY <1>1, <1>2, <2>6, AlikeItself DEF B
    <3>2. ~strayed' => /\ ~strayed /\ Exactly(e, shots[Here], scene)
                       /\ Settle(scene', pending'.before) = scene
      BY <1>1, <1>3, <2>7 DEF B
    <3> QED
      BY <1>1, <1>4, <1>6, <3>1, <3>2, PushKeeps
  <2> QED
    BY <1>1, <1>6, <2>8 DEF Pushed
<1> QED
  BY <1>5, <1>6 DEF CommitPendingEdit

LEMMA ToggleOK ==
  ASSUME IInv, NEW id \in DOMAIN scene, NEW others \in SUBSET (DOMAIN scene \ {id}), NEW value \in Value,
         Toggle({id} \cup others, value)
  PROVE  IInv' /\ Pushed
<1> DEFINE D == {id} \cup others
           f == [x \in D |-> value]
           e == <<Edits([x \in D |-> scene[x].value], f)>>
           B == Replaced(scene, f)
<1>1. /\ Idle /\ (\A x \in D : Has(scene, x)) /\ RecordChange(e, B, 0)
      /\ UNCHANGED <<pending, saved, strayed>>
  BY DEF Toggle
<1>2. minted \in Nat /\ IsScene(scene, minted) /\ minted + 0 = minted /\ D \in SUBSET DOMAIN scene
  BY Facts
<1>3. f \in [D -> Value]
  OBVIOUS
<1>4. Recorded(e, scene, B, minted)
  <2> HIDE DEF D, f
  <2> QED
    BY <1>1, <1>2, <1>3, EditRecorded
<1> HIDE DEF e, B
<1> QED
  BY <1>1, <1>2, <1>4, RecordKeeps DEF Recorded, Pushed

LEMMA AddComponentOK ==
  ASSUME IInv, NEW id \in DOMAIN scene, NEW value \in Value, AddComponent(id, value)
  PROVE  IInv' /\ Pushed
<1> DEFINE e == <<[kind |-> "add component", id |-> id, value |-> value]>>
           B == Added(scene, id, value)
<1>1. Idle /\ ~Has(scene, id) /\ RecordChange(e, B, 0) /\ UNCHANGED <<pending, saved, strayed>>
  BY DEF AddComponent
<1>2. minted \in Nat /\ IsScene(scene, minted) /\ minted + 0 = minted
  BY Facts
<1>3. Recorded(e, scene, B, minted)
  BY <1>1, <1>2, AddRecorded
<1> HIDE DEF e, B
<1> QED
  BY <1>1, <1>2, <1>3, RecordKeeps DEF Recorded, Pushed

LEMMA RemoveComponentOK ==
  ASSUME IInv, NEW id \in DOMAIN scene, RemoveComponent(id)
  PROVE  IInv' /\ Pushed
<1> DEFINE e == <<[kind |-> "remove component", id |-> id, value |-> scene[id].value]>>
           B == Taken(scene, id)
<1>1. Idle /\ Has(scene, id) /\ RecordChange(e, B, 0) /\ UNCHANGED <<pending, saved, strayed>>
  BY DEF RemoveComponent
<1>2. minted \in Nat /\ IsScene(scene, minted) /\ minted + 0 = minted
  BY Facts
<1>3. Recorded(e, scene, B, minted)
  BY <1>1, <1>2, TakeRecorded
<1> HIDE DEF e, B
<1> QED
  BY <1>1, <1>2, <1>3, RecordKeeps DEF Recorded, Pushed

LEMMA LinkPrefabOK ==
  ASSUME IInv, NEW id \in DOMAIN scene, NEW value \in Value, LinkPrefab(id, value)
  PROVE  IInv' /\ Pushed
<1> DEFINE e == <<[kind |-> "add component", id |-> id, value |-> value]>>
           B == [scene EXCEPT ![id].value = value]
<1>1. /\ Idle /\ RecordChange(e, B, 0) /\ strayed' = (strayed \/ Has(scene, id))
      /\ UNCHANGED <<pending, saved>>
  BY DEF LinkPrefab
<1>2. minted \in Nat /\ IsScene(scene, minted) /\ minted + 0 = minted
  BY Facts
<1>3. /\ IsScene(B, minted) /\ EntryLeads(e, scene, B, minted)
      /\ ~Has(scene, id) => Recorded(e, scene, B, minted)
  BY <1>2, LinkLeads
<1> HIDE DEF e, B
<1> QED
  BY <1>1, <1>2, <1>3, RecordKeeps DEF Recorded, Pushed

LEMMA CreateEntityOK ==
  ASSUME IInv, CreateEntity
  PROVE  IInv' /\ Pushed
<1> DEFINE B == With(scene, NewEntity(minted + 1, None))
           e == <<Add(CaptureSubtree(B, minted + 1))>>
<1>1. Idle /\ RecordChange(e, B, 1) /\ UNCHANGED <<pending, saved, strayed>>
  BY DEF CreateEntity
<1>2. minted \in Nat /\ IsScene(scene, minted)
  BY Facts
<1>3. Recorded(e, scene, B, minted + 1)
  BY <1>2, CreateRecorded
<1> HIDE DEF e, B
<1> QED
  BY <1>1, <1>2, <1>3, RecordKeeps DEF Recorded, Pushed

LEMMA RevertInstanceOK ==
  ASSUME IInv, NEW id \in DOMAIN scene, NEW value \in Value, RevertInstance(id, value)
  PROVE  IInv' /\ Pushed
<1> DEFINE W == CaptureSubtree(scene, id)
           T == With(RemoveSubtree(scene, W), NewEntity(id, value))
           p == scene[id].parent
           B == IF p = 0 THEN T ELSE SetParentAtIndex(T, id, p, SiblingIndexOf(scene, id))
           e == <<Delete(W), Add(CaptureSubtree(B, id))>>
<1>1. Idle /\ RecordChange(e, B, 0) /\ UNCHANGED <<pending, saved, strayed>>
  BY DEF RevertInstance
<1>2. minted \in Nat /\ IsScene(scene, minted) /\ minted + 0 = minted
  BY Facts
<1>3. Recorded(e, scene, B, minted)
  BY <1>2, RevertRecorded
<1> HIDE DEF e, B
<1> QED
  BY <1>1, <1>2, <1>3, RecordKeeps DEF Recorded, Pushed

LEMMA ReparentOK ==
  ASSUME IInv, NEW child \in DOMAIN scene, NEW parent \in DOMAIN scene \cup {0}, Reparent(child, parent)
  PROVE  IInv' /\ (Pushed \/ (strayed' /\ UNCHANGED <<undo, redo, savedDepth, saved, shots, lost>>))
<1> DEFINE B == SetParent(scene, child, parent)
           c == [kind |-> "reparent", id |-> child,
                 oldParent |-> scene[child].parent, oldIndex |-> SiblingIndexOf(scene, child),
                 newParent |-> B[child].parent, newIndex |-> SiblingIndexOf(B, child)]
           e == <<c>>
<1>1. Idle /\ UNCHANGED <<pending, saved>>
  BY DEF Reparent
<1>2. /\ minted \in Nat /\ IsScene(scene, minted) /\ minted + 0 = minted
      /\ 0 \notin DOMAIN scene
  BY Facts
<1>3. CASE B[child].parent # scene[child].parent /\ RecordChange(e, B, 0) /\ UNCHANGED strayed
  <2>1. Recorded(e, scene, B, minted)
    BY <1>2, <1>3, MoveRecorded
  <2> HIDE DEF e, B
  <2> QED
    BY <1>1, <1>2, <1>3, <2>1, RecordKeeps DEF Recorded, Pushed
<1>4. CASE /\ B[child].parent = scene[child].parent /\ B # scene
           /\ scene' = B /\ strayed' = TRUE
           /\ UNCHANGED <<undo, redo, savedDepth, minted, shots, lost>>
  <2>1. parent \in DOMAIN scene => child \notin Above(scene, parent)
    BY <1>2, <1>4 DEF SetParent
  <2>2. PICK k \in Nat : B = Placed(scene, child, parent, k)
    BY <1>2, <2>1, SetParentIs
  <2>3. IsScene(B, minted)
    BY <1>2, <2>1, <2>2, PlacedIs
  <2> HIDE DEF B
  <2>4. Alike(B, scene)
    BY <1>4, <2>2 DEF Alike, Placed
  <2>5. PendingOK'
    BY <1>1, <1>4 DEF IInv, PendingOK, Idle
  <2>6. IInv'
    BY <1>1, <1>4, <2>3, <2>4, <2>5, StackKeeps
  <2> QED
    BY <1>1, <1>4, <2>6
<1> QED
  BY <1>3, <1>4 DEF Reparent

LEMMA DeleteEntityOK ==
  ASSUME IInv, NEW id \in DOMAIN scene, DeleteEntity(id)
  PROVE  IInv' /\ Pushed
<1> DEFINE W == CaptureSubtree(scene, id)
           e == <<Delete(W)>>
           A == shots[Here]
           B == RemoveSubtree(scene, W)
           f == pending.before
<1>1. /\ RecordChange(e, B, 0)
      /\ pending' = IF pending.primary \in DOMAIN W.nodes THEN NoEdit ELSE pending
      /\ strayed' = (strayed \/ pending.edited) /\ saved' = saved
  BY DEF DeleteEntity
<1>2. /\ minted \in Nat /\ IsScene(scene, minted) /\ Alike(scene, A)
      /\ (~strayed => Settle(scene, f) = A) /\ f \in [DOMAIN f -> Component]
  BY Facts
<1>3. Recorded(e, scene, B, minted)
  BY <1>2, DeleteRecorded
<1>4. IsTree(W, minted) /\ IsOf(W, scene) /\ DOMAIN W.nodes \subseteq DOMAIN scene
  BY <1>2, CaptureIs DEF IsOf
<1> HIDE DEF e, A
<1>5. IsScene(B, minted) /\ EntryLeads(e, scene, B, minted) /\ Exactly(e, scene, B)
  BY <1>3 DEF Recorded
<1>6. scene' = B /\ minted' = minted /\ Push(e, Settled(B))
  BY <1>1, <1>2 DEF RecordChange
<1>7. Settled(B) = Settle(B, f)
  BY SettledIs
<1>8. IsScene(Settle(B, f), minted) /\ Alike(Settle(B, f), B)
  BY <1>2, <1>5, SettleIs
<1>9. EntryLeads(e, A, Settle(B, f), minted)
  <2>1. Alike(A, scene)
    BY <1>2 DEF Alike
  <2> QED
    BY <1>5, <1>8, <2>1, AlikeEntryLeads
\* A scene that was not changed beside the stack is left as it is by what is held.
<1>10. ASSUME ~strayed'
       PROVE  ~strayed /\ ~pending.edited /\ A = scene /\ Settle(B, f) = B
  <2>1. ~strayed /\ ~pending.edited
    BY <1>1, <1>10 DEF IInv, PendingOK
  <2>2. Settle(scene, f) = scene
    BY <2>1 DEF IInv, PendingOK, f
  <2>3. RemoveSubtree(Settle(scene, f), W) = Settle(RemoveSubtree(scene, W), f)
    BY <1>2, <1>4, SettleCut
  <2> QED
    BY <1>2, <2>1, <2>2, <2>3
<1>11. Settle(B, NoEdit.before) = B
  BY <1>2, <1>5, NothingHeld
<1>12. B = Cut(scene, W)
  BY <1>2, <1>4, RemovedIs
<1> HIDE DEF B, W
<1>13. PendingOK' /\ (~strayed' => Settle(scene', pending'.before) = B)
  <2>1. CASE pending' = NoEdit
    <3>1. DOMAIN NoEdit.before = {} /\ NoEdit.before \in [DOMAIN NoEdit.before -> Value]
          /\ NoEdit.edited \in BOOLEAN
      BY DEF NoEdit
    <3> QED
      BY <1>6, <1>11, <2>1, <3>1 DEF PendingOK
  <2>2. CASE pending' = pending
    <3>1. ASSUME ~strayed', NEW x \in DOMAIN f \cap DOMAIN B PROVE Has(B, x)
      <4>1. x \in DOMAIN scene /\ B[x].value = scene[x].value
        BY <1>12, <3>1 DEF Cut
      <4>2. Has(scene, x)
        BY <1>10, <3>1, <4>1 DEF IInv, PendingOK, f
      <4> QED
        BY <3>1, <4>1, <4>2 DEF Has
    <3>2. ~strayed' => Settle(scene', pending'.before) = B
      BY <1>6, <1>10, <2>2 DEF f
    <3>3. /\ pending.edited \in BOOLEAN
          /\ f \in [DOMAIN f -> Value] /\ DOMAIN f \subseteq 1..minted /\ (Idle => pending = NoEdit)
      BY DEF IInv, PendingOK, f
    <3>4. Idle' => pending' = NoEdit
      BY <2>2, <3>3 DEF Idle
    <3> QED
      BY <1>6, <2>2, <3>1, <3>2, <3>3, <3>4 DEF PendingOK, f
  <2> QED
    BY <1>1, <2>1, <2>2
<1>14. IInv'
  <2>1. /\ minted' \in Nat /\ minted <= minted' /\ Push(e, Settle(B, f))
        /\ IsScene(Settle(B, f), minted') /\ EntryLeads(e, shots[Here], Settle(B, f), minted')
        /\ IsScene(scene', minted') /\ Alike(scene', Settle(B, f))
    <3>1. Alike(B, Settle(B, f))
      BY <1>8 DEF Alike
    <3> QED
      BY <1>2, <1>5, <1>6, <1>7, <1>8, <1>9, <3>1 DEF A
  <2>2. ~strayed' => /\ ~strayed /\ Exactly(e, shots[Here], Settle(B, f))
                     /\ Settle(scene', pending'.before) = Settle(B, f)
    BY <1>5, <1>10, <1>13 DEF A
  <2> QED
    BY <1>1, <1>13, <2>1, <2>2, PushKeeps
<1> QED
  BY <1>1, <1>6, <1>14 DEF Pushed

LEMMA SubtreeSize ==
  ASSUME NEW n \in Nat, NEW S, IsScene(S, n), NEW r \in DOMAIN S
  PROVE  Cardinality(CollectSubtree(S, r)) \in Nat
<1>1. CollectSubtree(S, r) \subseteq 1..n
  <2>1. CollectSubtree(S, r) \subseteq DOMAIN S
    BY SubtreeIs
  <2> QED
    BY <2>1 DEF IsScene, IsNodes
<1>2. IsFiniteSet(1..n)
  BY FS_Interval
<1> QED
  BY <1>1, <1>2, FS_Subset, FS_CardinalityType

LEMMA DuplicateOK ==
  ASSUME IInv, NEW id \in DOMAIN scene, DuplicateSelectedEntity(id)
  PROVE  IInv' /\ Pushed
<1> DEFINE k == Cardinality(CollectSubtree(scene, id))
           A == shots[Here]
           f == pending.before
<1>1. PICK copy \in Bijection(CollectSubtree(scene, id), minted + 1..minted + k) :
        LET after == DuplicateEntity(scene, id, copy)
        IN  RecordChange(<<Add(CaptureSubtree(after, copy[id]))>>, after, k)
  BY DEF DuplicateSelectedEntity
<1> DEFINE B == DuplicateEntity(scene, id, copy)
           W == CaptureSubtree(B, copy[id])
           c == Add(W)
           e == <<c>>
           m == minted + k
<1>2. UNCHANGED <<pending, saved, strayed>>
  BY DEF DuplicateSelectedEntity
<1>3. /\ minted \in Nat /\ IsScene(scene, minted) /\ Alike(scene, A)
      /\ (~strayed => Settle(scene, f) = A) /\ f \in [DOMAIN f -> Component]
      /\ DOMAIN f \subseteq 1..minted /\ DOMAIN scene \subseteq 1..minted
  BY Facts
<1>4. k \in Nat
  BY <1>3, SubtreeSize
<1>5. Recorded(e, scene, B, m) /\ DOMAIN W.nodes = minted + 1..m
  <2> HIDE DEF k
  <2>1. NewIds(minted, k) = minted + 1..minted + k
    BY DEF NewIds
  <2>2. copy \in Bijection(CollectSubtree(scene, id), NewIds(minted, k))
    BY <2>1
  <2> DEFINE x == copy[id]
  <2>3. x = copy[id] /\ B = DuplicateEntity(scene, id, copy)
    BY DEF B
  <2>4. /\ W = CaptureSubtree(B, x) /\ e = <<Add(CaptureSubtree(B, x))>> /\ m = minted + k
        /\ m \in Nat
    BY <1>3, <1>4
  <2> HIDE DEF k, B, W, c, e, m, x
  <2>5. Recorded(<<Add(CaptureSubtree(B, x))>>, scene, B, minted + k) /\ x \in DOMAIN B
        /\ CollectSubtree(B, x) = NewIds(minted, k)
    BY <1>3, <1>4, <2>2, <2>3, DuplicateRecorded
  <2>6. IsScene(B, m)
    BY <2>4, <2>5 DEF Recorded
  <2>7. DOMAIN CaptureSubtree(B, x).nodes = CollectSubtree(B, x)
    BY <2>4, <2>5, <2>6, CaptureIs
  <2> QED
    BY <2>1, <2>4, <2>5, <2>7
<1>6. scene' = B /\ minted' = m /\ Push(e, Settled(B))
  BY <1>1 DEF RecordChange
<1>7. Len(e) = 1 /\ e[1] = c /\ Touched(c) = DOMAIN W.nodes
  BY DEF Touched, Add
<1>8. m \in Nat /\ minted <= m /\ (minted + 1..m) \cap 1..minted = {}
  BY <1>3, <1>4
<1> HIDE DEF k, A, B, W, c, e, m, f
<1>9. IsScene(B, m) /\ EntryLeads(e, scene, B, m) /\ Exactly(e, scene, B)
  BY <1>5 DEF Recorded
<1>10. Settled(B) = Settle(B, f)
  BY SettledIs DEF f
<1>11. IsScene(scene, m)
  BY <1>3, <1>8, MoreIds
<1>12. /\ IsScene(Settle(B, f), m) /\ Alike(Settle(B, f), B)
       /\ IsSettled(Settle(B, f), B, f)
  BY <1>3, <1>8, <1>9, SettleIs
\* What is held is not among the copies.
<1>13. \A i \in 1..Len(e) : DOMAIN f \cap Touched(e[i]) = {}
  BY <1>3, <1>5, <1>7, <1>8
<1>14. /\ UndoAll(Settle(B, f), e) = Settle(scene, f)
       /\ RedoAll(Settle(scene, f), e) = Settle(B, f)
  <2>1. UndoAll(Settle(B, f), e) = Settle(UndoAll(B, e), f)
    BY <1>3, <1>8, <1>9, <1>11, <1>13, UndoAllSettled, AlikeItself
  <2>2. RedoAll(Settle(scene, f), e) = Settle(RedoAll(scene, e), f)
    BY <1>3, <1>8, <1>9, <1>11, <1>13, RedoAllSettled, AlikeItself
  <2> QED
    BY <1>9, <2>1, <2>2 DEF Exactly
<1>15. EntryLeads(e, A, Settle(B, f), m)
  <2>1. Alike(A, scene)
    BY <1>3 DEF Alike
  <2> QED
    BY <1>9, <1>12, <2>1, AlikeEntryLeads
<1>16. PendingOK'
  <2>1. /\ pending.edited \in BOOLEAN
        /\ f \in [DOMAIN f -> Value] /\ DOMAIN f \subseteq 1..minted /\ (Idle => pending = NoEdit)
    BY DEF IInv, PendingOK, f
  <2>2. DOMAIN f \subseteq 1..m
    BY <1>3, <1>8
  <2>3. ASSUME ~strayed, NEW x \in DOMAIN f \cap DOMAIN B PROVE Has(B, x)
    <3>1. \A i \in 1..Len(e) : x \notin Touched(e[i])
      BY <1>13, <2>3
    <3>2. RedoAll(scene, e) = B
      BY <1>9 DEF Exactly
    <3>3. x \in DOMAIN scene /\ B[x].value = scene[x].value
      BY <1>8, <1>9, <1>11, <2>3, <3>1, <3>2, RedoKeepsValue, AlikeItself
    <3>4. Has(scene, x)
      BY <2>3, <3>3 DEF IInv, PendingOK, f
    <3> QED
      BY <2>3, <3>3, <3>4 DEF Has
  <2>4. ASSUME ~strayed, ~pending.edited PROVE Settle(B, f) = B
    <3>1. Settle(scene, f) = scene
      BY <2>4 DEF IInv, PendingOK, f
    <3> QED
      BY <1>9, <1>14, <3>1 DEF Exactly
  <2>5. Idle' => pending' = NoEdit
    BY <1>2, <2>1 DEF Idle
  <2> QED
    BY <1>2, <1>6, <2>1, <2>2, <2>3, <2>4, <2>5 DEF PendingOK, f
<1>17. IInv'
  <2>1. /\ minted' \in Nat /\ minted <= minted' /\ Push(e, Settle(B, f))
        /\ IsScene(Settle(B, f), minted') /\ EntryLeads(e, shots[Here], Settle(B, f), minted')
        /\ IsScene(scene', minted') /\ Alike(scene', Settle(B, f))
    <3>1. Alike(B, Settle(B, f))
      BY <1>12 DEF Alike
    <3> QED
      BY <1>6, <1>8, <1>9, <1>10, <1>12, <1>15, <3>1 DEF A
  <2>2. ~strayed' => /\ ~strayed /\ Exactly(e, shots[Here], Settle(B, f))
                     /\ Settle(scene', pending'.before) = Settle(B, f)
    BY <1>2, <1>3, <1>6, <1>14 DEF A, f, Exactly
  <2> QED
    BY <1>2, <1>16, <2>1, <2>2, PushKeeps
<1> QED
  BY <1>2, <1>6, <1>17 DEF Pushed

-----------------------------------------------------------------------------
(* The theorems *)

\* What one step of the editor is to the abstract stack.
LEMMA Step ==
  ASSUME IInv, [UndoNext]_undoVars
  PROVE  /\ IInv'
         /\ \/ Pushed \/ Undo \/ Redo \/ Save
            \/ Open /\ Settled(scene)' = saved
            \/ /\ UNCHANGED <<undo, redo, savedDepth, saved, shots, lost, strayed>>
               /\ Settled(scene)' = Settled(scene) \/ strayed
            \/ strayed' /\ UNCHANGED <<undo, redo, savedDepth, saved, shots, lost>>
<1>1. CASE Undo
  BY <1>1, UndoOK
<1>2. CASE Redo
  BY <1>2, RedoOK
<1>3. CASE Save
  BY <1>3, SaveOK
<1>4. CASE Open
  BY <1>4, OpenOK
<1>5. CASE CommitPendingEdit
  <2>1. IInv' /\ (Pushed \/ UNCHANGED <<undo, redo, savedDepth, shots, lost>>)
    BY <1>5, CommitOK
  <2>2. UNCHANGED <<scene, saved, strayed>> /\ pending' = NoEdit
    BY <1>5 DEF CommitPendingEdit
  <2>3. CASE UNCHANGED <<undo, redo, savedDepth, shots, lost>>
    <3>1. Here' = Here
      BY <2>3 DEF Here
    <3>2. ~strayed => Settled(scene)' = shots[Here] /\ Settled(scene) = shots[Here]
      BY <2>1, <2>2, <2>3, <3>1, SettledIs DEF IInv, StrayedOK
    <3> QED
      BY <2>1, <2>2, <2>3, <3>2
  <2> QED
    BY <2>1, <2>3
<1>6. CASE CreateEntity
  BY <1>6, CreateEntityOK
<1>7. CASE \E v \in Value : Drag(v)
  <2>1. PICK v \in Value : Drag(v)
    BY <1>7
  <2>2. IInv' /\ Settled(scene)' = Settled(scene)
    BY <2>1, DragOK
  <2>3. UNCHANGED <<undo, redo, savedDepth, saved, shots, lost, strayed>>
    BY <2>1 DEF Drag
  <2> QED
    BY <2>2, <2>3
<1>8. ASSUME NEW id \in DOMAIN scene,
             RemoveComponent(id) \/ DuplicateSelectedEntity(id) \/ DeleteEntity(id)
      PROVE  IInv' /\ Pushed
  BY <1>8, RemoveComponentOK, DuplicateOK, DeleteEntityOK
<1>9. ASSUME NEW id \in DOMAIN scene, NEW others \in SUBSET (DOMAIN scene \ {id}), Grab(id, others)
      PROVE  /\ IInv' /\ Settled(scene)' = Settled(scene)
             /\ UNCHANGED <<undo, redo, savedDepth, saved, shots, lost, strayed>>
  <2>1. UNCHANGED <<undo, redo, savedDepth, saved, shots, lost, strayed>>
    BY <1>9 DEF Grab
  <2> QED
    BY <1>9, <2>1, GrabOK
<1>10. ASSUME NEW id \in DOMAIN scene, NEW others \in SUBSET (DOMAIN scene \ {id}), NEW v \in Value,
              Toggle({id} \cup others, v)
       PROVE  IInv' /\ Pushed
  BY <1>10, ToggleOK
<1>11. ASSUME NEW id \in DOMAIN scene, NEW v \in Value,
              AddComponent(id, v) \/ LinkPrefab(id, v) \/ RevertInstance(id, v)
       PROVE  IInv' /\ Pushed
  BY <1>11, AddComponentOK, LinkPrefabOK, RevertInstanceOK
<1>12. ASSUME NEW id \in DOMAIN scene, NEW parent \in DOMAIN scene \cup {0}, Reparent(id, parent)
       PROVE  IInv' /\ (Pushed \/ (strayed' /\ UNCHANGED <<undo, redo, savedDepth, saved, shots, lost>>))
  BY <1>12, ReparentOK
<1>13. CASE UNCHANGED undoVars
  <2>1. /\ UNCHANGED <<scene, undo, redo, savedDepth, pending, saved, minted, shots, strayed, lost>>
    BY <1>13 DEF undoVars
  <2>2. IInv'
    BY <2>1 DEF IInv, Shape, ScenesOK, EntriesOK, StrayedOK, PendingOK, Depths, EntryAt, Here, Idle
  <2>3. Settled(scene)' = Settled(scene)
    BY <2>1, SettledIs
  <2> QED
    BY <2>1, <2>2, <2>3
<1> QED
  BY <1>1, <1>2, <1>3, <1>4, <1>5, <1>6, <1>7, <1>8, <1>9, <1>10, <1>11, <1>12, <1>13 DEF UndoNext

\* IInv is an invariant: each operation keeps it.
THEOREM Inductive == UndoSpec => []IInv
<1>1. UndoInit => IInv
  BY InitOK
<1>2. IInv /\ [UndoNext]_undoVars => IInv'
  BY Step
<1> QED
  BY <1>1, <1>2, PTL DEF UndoSpec

\* The scene is a forest whatever is undone, redone, deleted and restored in which order,
\* though restoring and removing subtrees write the links directly: of any size and depth,
\* and also after changes beside the stack.
THEOREM AlwaysAForest == UndoSpec => []Forest
<1>1. IInv => Forest
  BY SceneIsForest DEF IInv, ScenesOK, Forest
<1> QED
  BY <1>1, Inductive, PTL

LEMMA PushRefines ==
  ASSUME IInv, IInv', Pushed
  PROVE  Stack!PushEntry
<1>1. PICK entry, shot : Push(entry, shot)
  BY DEF Pushed
<1>2. Shape /\ Len(undo) \in Nat /\ Depths \in Nat /\ Len(redo) \in Nat /\ Len(undo) <= MaxDepth
      /\ MaxDepth \in Nat
  BY Indices, EditorUndoAssumption DEF IInv, Shape, Depths
<1>3. shots'[Here'] = shot /\ Len(shots') = Here' /\ Here' = Len(undo') + 1
  BY <1>1, <1>2, PushIs DEF Here
<1> DEFINE grown == Append(undo, entry)
           seen  == Append(SubSeq(shots, 1, Len(undo) + 1), shot)
<1>4. /\ undo' = (IF Len(grown) > MaxDepth THEN Tail(grown) ELSE grown)
      /\ savedDepth' = (IF ~(Len(grown) > MaxDepth) THEN savedDepth
                        ELSE IF savedDepth > 0 THEN savedDepth - 1 ELSE -1)
      /\ shots' = (IF Len(grown) > MaxDepth THEN Tail(seen) ELSE seen)
      /\ lost' = (lost \/ savedDepth > Len(undo))
  BY <1>1 DEF Push
<1>5. Len(grown) = Len(undo) + 1 /\ IsSeq(grown)
  BY <1>2, AppendIs DEF Shape
<1> HIDE DEF grown
<1>6. Len(grown) > MaxDepth <=> Len(undo) = MaxDepth
  BY <1>2, <1>5
<1>7. Len(undo') = IF Len(undo) = MaxDepth THEN Len(undo) ELSE Len(undo) + 1
  <2>1. CASE Len(undo) = MaxDepth
    <3>1. undo' = Tail(grown) /\ grown # <<>>
      BY <1>2, <1>4, <1>5, <1>6, <2>1, SeqIs
    <3>2. Len(undo') = Len(grown) - 1
      BY <1>5, <3>1, TailOf
    <3> QED
      BY <1>2, <1>5, <2>1, <3>2
  <2>2. CASE Len(undo) # MaxDepth
    BY <1>4, <1>5, <1>6, <2>2
  <2> QED
    BY <2>1, <2>2
<1>8. seen = Append(SubSeq(shots, 1, Len(undo) + 1), shots'[Len(shots')])
  BY <1>3
<1> HIDE DEF seen
<1>9. ~strayed' => Settled(scene)' = shots'[Len(undo') + 1]
  BY <1>3, SettledIs DEF IInv, StrayedOK
<1>10. saved' = saved /\ (strayed => strayed')
  BY DEF Pushed
<1> QED
  BY <1>4, <1>6, <1>7, <1>8, <1>9, <1>10 DEF Stack!PushEntry

LEMMA Refines ==
  ASSUME IInv, [UndoNext]_undoVars
  PROVE  [Stack!StackNext]_Stack!stackVars
<1>1. IInv' /\ Shape' /\ Shape
  BY Step DEF IInv
<1>2. ~strayed' => Settled(scene)' = shots'[Len(undo') + 1]
  BY <1>1, SettledIs DEF IInv, StrayedOK, Here
<1>3. /\ Len(undo) \in Nat /\ Len(redo) \in Nat /\ Depths = Len(undo) + Len(redo)
      /\ DOMAIN shots = 1..Depths + 1
  BY <1>1, Indices DEF Depths
<1>4. CASE Pushed
  BY <1>1, <1>4, PushRefines DEF Stack!StackNext
<1>5. CASE Undo
  <2>1. /\ undo # <<>> /\ undo' = Front(undo) /\ redo' = Append(redo, Last(undo)) /\ shots' = shots
        /\ UNCHANGED <<savedDepth, saved, lost>> /\ (strayed => strayed')
    BY <1>5 DEF Undo
  <2>2. Len(undo') = Len(undo) - 1 /\ Len(undo) \in 1..Depths
    BY <1>1, <2>1, UndoKeepsRow
  <2>3. Len(undo) > 0 /\ (Len(undo) - 1) + 1 \in DOMAIN shots
    BY <1>3, <2>2
  <2>4. Stack!UndoEntry
    BY <1>2, <2>1, <2>2, <2>3 DEF Stack!UndoEntry, Stack!StepTo
  <2> QED
    BY <2>4 DEF Stack!StackNext
<1>6. CASE Redo
  <2>1. /\ redo # <<>> /\ redo' = Front(redo) /\ undo' = Append(undo, Last(redo)) /\ shots' = shots
        /\ UNCHANGED <<savedDepth, saved, lost>> /\ (strayed => strayed')
    BY <1>6 DEF Redo
  <2>2. Len(undo') = Len(undo) + 1 /\ Here \in 1..Depths
    BY <1>1, <2>1, RedoKeepsRow
  <2>3. (Len(undo) + 1) + 1 \in DOMAIN shots
    BY <1>3, <2>2 DEF Here
  <2>4. Stack!RedoEntry
    BY <1>2, <2>1, <2>2, <2>3 DEF Stack!RedoEntry, Stack!StepTo
  <2> QED
    BY <2>4 DEF Stack!StackNext
<1>7. CASE Save
  <2>1. /\ saved' = scene /\ savedDepth' = Len(undo) /\ lost' = pending.edited
        /\ UNCHANGED <<scene, undo, pending, shots, strayed>>
    BY <1>7 DEF Save
  <2>2. lost' \in BOOLEAN /\ (~strayed /\ ~lost' => saved' = Settled(scene))
    BY <2>1, SettledIs DEF IInv, PendingOK
  <2>3. Settled(scene)' = Settled(scene)
    BY <2>1, SettledIs
  <2>4. Stack!MarkSaved
    BY <2>1, <2>2, <2>3 DEF Stack!MarkSaved
  <2> QED
    BY <2>4 DEF Stack!StackNext
<1>8. CASE Open /\ Settled(scene)' = saved
  <2>1. /\ undo' = <<>> /\ shots' = <<saved>> /\ savedDepth' = 0 /\ ~strayed' /\ ~lost' /\ saved' = saved
    BY <1>8 DEF Open
  <2>2. Len(undo') = 0
    BY <2>1
  <2>3. Stack!Clear
    BY <1>8, <2>1, <2>2 DEF Stack!Clear
  <2> QED
    BY <2>3 DEF Stack!StackNext
<1>9. ASSUME strayed', UNCHANGED <<undo, redo, savedDepth, saved, shots, lost>>
      PROVE  Stack!StackNext
  BY <1>9 DEF Stack!Stray, Stack!StackNext
<1>10. CASE /\ UNCHANGED <<undo, redo, savedDepth, saved, shots, lost, strayed>>
            /\ Settled(scene)' = Settled(scene) \/ strayed
  <2>1. CASE Settled(scene)' = Settled(scene)
    BY <1>10, <2>1 DEF Stack!stackVars
  <2>2. CASE strayed
    BY <1>9, <1>10, <2>2
  <2> QED
    BY <1>10, <2>1, <2>2
<1> QED
  BY <1>4, <1>5, <1>6, <1>7, <1>8, <1>9, <1>10, Step

\* The commands and the panels implement the abstract stack, for scenes of any size, any
\* cap and any order of gestures, commands, undos, redos, saves and reloads: every entry
\* leads from the one recorded scene to the other and back, and a save marks what it saves.
THEOREM ImplementsTheStack == UndoSpec => IsUndoStack
<1>1. UndoInit => Stack!StackInit
  <2> SUFFICES ASSUME UndoInit PROVE Stack!StackInit
    OBVIOUS
  <2>1. Settled(scene) = scene
    BY InitOK
  <2>2. Len(undo) = 0
    BY DEF UndoInit
  <2> QED
    BY <2>1, <2>2 DEF UndoInit, Stack!StackInit
<1>2. IInv /\ [UndoNext]_undoVars => [Stack!StackNext]_Stack!stackVars
  BY Refines
<1> QED
  BY <1>1, <1>2, Inductive, PTL DEF UndoSpec, IsUndoStack, Stack!StackSpec

-----------------------------------------------------------------------------
(* The abstract stack's promises *)

\* The shots are a sequence that reaches past the depth, and the saved scene is among them
\* where it is said to be; a shot fell off the bottom only with a saved depth of -1.
StackInv ==
  /\ \E S : shots \in Seq(S)
  /\ Len(undo) \in Nat /\ Len(undo) < Len(shots)
  /\ savedDepth \in Nat \cup {-1}
  /\ ~lost => savedDepth < Len(shots)
  /\ Stack!RoundTrip
  /\ ~strayed /\ ~lost /\ savedDepth # -1 => shots[savedDepth + 1] = saved

LEMMA PushedKeeps ==
  ASSUME StackInv, Stack!PushEntry
  PROVE  StackInv'
<1> DEFINE shot == shots'[Len(shots')]
           kept == SubSeq(shots, 1, Len(undo) + 1)
           seen == Append(kept, shot)
<1>1. PICK S : shots \in Seq(S)
  BY DEF StackInv
<1>2. Len(undo) \in Nat /\ Len(undo) < Len(shots) /\ savedDepth \in Nat \cup {-1} /\ Len(shots) \in Nat
  BY <1>1 DEF StackInv
<1>3. /\ kept \in Seq(S) /\ Len(kept) = Len(undo) + 1
      /\ \A i \in 1..(Len(undo) + 1) : kept[i] = shots[i]
  BY <1>1, <1>2
<1>4. /\ shots' = (IF Len(undo) = MaxDepth THEN Tail(seen) ELSE seen)
      /\ Len(undo)' = (IF Len(undo) = MaxDepth THEN Len(undo) ELSE Len(undo) + 1)
      /\ savedDepth' = (IF Len(undo) # MaxDepth THEN savedDepth
                        ELSE IF savedDepth > 0 THEN savedDepth - 1 ELSE -1)
      /\ lost' = (lost \/ savedDepth > Len(undo)) /\ saved' = saved
      /\ strayed => strayed'
      /\ ~strayed' => Settled(scene)' = shots'[Len(undo)' + 1]
  BY DEF Stack!PushEntry
<1> HIDE DEF kept, shot
<1>5. /\ seen \in Seq(S \cup {shot}) /\ Len(seen) = Len(undo) + 2
      /\ \A i \in 1..(Len(undo) + 1) : seen[i] = shots[i]
  <2>1. kept \in Seq(S \cup {shot})
    BY <1>3
  <2> QED
    BY <1>2, <1>3, <2>1
<1> HIDE DEF seen
<1>6. /\ Tail(seen) \in Seq(S \cup {shot}) /\ Len(Tail(seen)) = Len(undo) + 1
      /\ \A i \in 1..(Len(undo) + 1) : Tail(seen)[i] = seen[i + 1]
  BY <1>2, <1>5
<1>7. (\E R : shots' \in Seq(R)) /\ Len(undo)' \in Nat /\ Len(shots') = Len(undo)' + 1
  <2>1. shots' \in Seq(S \cup {shot}) /\ Len(undo)' \in Nat /\ Len(shots') = Len(undo)' + 1
    BY <1>2, <1>4, <1>5, <1>6
  <2> QED
    BY <2>1
<1>8. ~lost' => ~lost /\ ~(savedDepth > Len(undo))
  BY <1>4, Zenon
<1>9. savedDepth' \in Nat \cup {-1} /\ (~lost' => savedDepth' < Len(shots'))
  <2>1. savedDepth' = (IF Len(undo) # MaxDepth THEN savedDepth
                       ELSE IF savedDepth > 0 THEN savedDepth - 1 ELSE -1)
    BY <1>4
  <2>2. savedDepth' \in Nat \cup {-1}
    BY <1>2, <2>1
  <2>3. ~(savedDepth > Len(undo)) => savedDepth' < Len(undo)' + 1
    BY <1>2, <1>4, <2>1
  <2> QED
    BY <1>7, <1>8, <2>2, <2>3, Zenon
<1>10. ASSUME ~strayed', ~lost', savedDepth' # -1
      PROVE  shots'[savedDepth' + 1] = saved'
  <2>1. ~strayed /\ ~lost /\ savedDepth \in 0..Len(undo)
    <3>1. ~strayed
      BY <1>4, <1>10
    <3>2. ~lost /\ ~(savedDepth > Len(undo))
      BY <1>8, <1>10
    <3>3. savedDepth # -1
      BY <1>2, <1>4, <1>10
    <3> QED
      BY <1>2, <3>1, <3>2, <3>3
  <2>2. shots[savedDepth + 1] = saved
    BY <2>1 DEF StackInv
  <2>3. CASE Len(undo) # MaxDepth
    BY <1>2, <1>4, <1>5, <2>1, <2>2, <2>3
  <2>4. CASE Len(undo) = MaxDepth
    <3>1. savedDepth' = savedDepth - 1 /\ savedDepth > 0
      BY <1>2, <1>4, <1>10, <2>1, <2>4
    <3>2. savedDepth \in 1..(Len(undo) + 1) /\ savedDepth + 1 \in 1..(Len(undo) + 1)
      BY <1>2, <2>1, <3>1
    <3>3. Tail(seen)[savedDepth] = shots[savedDepth + 1]
      BY <1>5, <1>6, <3>2
    <3>4. savedDepth' + 1 = savedDepth
      BY <1>2, <3>1
    <3> QED
      BY <1>4, <2>2, <2>4, <3>3, <3>4
  <2> QED
    BY <2>3, <2>4
<1>11. Stack!RoundTrip' /\ Len(undo)' < Len(shots')
  BY <1>4, <1>7 DEF Stack!RoundTrip
<1> QED
  BY <1>7, <1>9, <1>10, <1>11 DEF StackInv

LEMMA StackStep ==
  ASSUME StackInv, [Stack!StackNext]_Stack!stackVars
  PROVE  StackInv'
<1>1. CASE Stack!PushEntry
  BY <1>1, PushedKeeps
<1>2. ASSUME NEW d, d \in {Len(undo) - 1, Len(undo) + 1}, d >= 0, Stack!StepTo(d)
      PROVE  StackInv'
  <2>1. PICK S : shots \in Seq(S)
    BY DEF StackInv
  <2>2. d \in Nat /\ d < Len(shots)
    <3>1. Len(undo) \in Nat /\ DOMAIN shots = 1..Len(shots) /\ Len(shots) \in Nat
      BY <2>1 DEF StackInv
    <3>2. d \in Int /\ d + 1 \in 1..Len(shots)
      BY <1>2, <3>1 DEF Stack!StepTo
    <3> QED
      BY <1>2, <3>1, <3>2
  <2>3. /\ Len(undo)' = d /\ UNCHANGED <<shots, savedDepth, saved, lost>>
        /\ (strayed => strayed') /\ (~strayed' => Settled(scene)' = shots[d + 1])
    BY <1>2 DEF Stack!StepTo
  <2> QED
    BY <2>2, <2>3 DEF StackInv, Stack!RoundTrip
<1>3. CASE Stack!MarkSaved
  <2>1. /\ savedDepth' = Len(undo) /\ UNCHANGED <<Settled(scene), shots, Len(undo), strayed>>
        /\ ~strayed /\ ~lost' => saved' = Settled(scene)
    BY <1>3 DEF Stack!MarkSaved
  <2> QED
    BY <2>1 DEF StackInv, Stack!RoundTrip
<1>4. CASE Stack!Clear
  <2>1. /\ shots' = <<saved>> /\ Settled(scene)' = saved /\ saved' = saved /\ Len(undo)' = 0 /\ savedDepth' = 0
    BY <1>4 DEF Stack!Clear
  <2>2. shots' \in Seq({saved}) /\ Len(shots') = 1 /\ shots'[1] = saved
    BY <2>1
  <2>3. \E S : shots' \in Seq(S)
    BY <2>2
  <2> QED
    BY <2>1, <2>2, <2>3 DEF StackInv, Stack!RoundTrip
<1>5. CASE Stack!Stray
  BY <1>5 DEF Stack!Stray, StackInv, Stack!RoundTrip
<1>6. CASE UNCHANGED Stack!stackVars
  BY <1>6 DEF Stack!stackVars, StackInv, Stack!RoundTrip
<1>7. CASE Stack!UndoEntry
  <2>1. Len(undo) - 1 >= 0 /\ Stack!StepTo(Len(undo) - 1)
    BY <1>7 DEF Stack!UndoEntry, StackInv
  <2> QED
    BY <1>2, <2>1
<1>8. CASE Stack!RedoEntry
  <2>1. Len(undo) + 1 >= 0 /\ Stack!StepTo(Len(undo) + 1)
    BY <1>8 DEF Stack!RedoEntry, StackInv
  <2> QED
    BY <1>2, <2>1
<1> QED
  BY <1>1, <1>3, <1>4, <1>5, <1>6, <1>7, <1>8 DEF Stack!StackNext

\* The invariant of the abstract stack.
THEOREM StackIsSound == Stack!StackSpec => []StackInv
<1>1. Stack!StackInit => StackInv
  <2> SUFFICES ASSUME Stack!StackInit PROVE StackInv
    OBVIOUS
  <2>1. shots = <<Settled(scene)>> /\ saved = Settled(scene) /\ Len(undo) = 0 /\ savedDepth = 0
    BY DEF Stack!StackInit
  <2>2. shots \in Seq({Settled(scene)}) /\ Len(shots) = 1 /\ shots[1] = Settled(scene)
    BY <2>1
  <2>3. \E S : shots \in Seq(S)
    BY <2>2
  <2> QED
    BY <2>1, <2>2, <2>3 DEF StackInv, Stack!RoundTrip
<1>2. StackInv /\ [Stack!StackNext]_Stack!stackVars => StackInv'
  BY StackStep
<1> QED
  BY <1>1, <1>2, PTL DEF Stack!StackSpec

\* Undone and redone to any depth the scene is the one there was, and a scene that is
\* shown as saved is the file, whatever the commands, the panels and the cap did: but for
\* what a held widget is changing, and for changes made beside the stack.
THEOREM SavedIsTheFile == UndoSpec => [](Stack!RoundTrip /\ Stack!CleanIsSaved)
<1>1. StackInv => Stack!RoundTrip /\ Stack!CleanIsSaved
  BY DEF StackInv, Stack!RoundTrip, Stack!CleanIsSaved
<1> QED
  BY <1>1, StackIsSound, ImplementsTheStack, PTL DEF IsUndoStack
=============================================================================
