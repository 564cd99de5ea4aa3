---------------------------- MODULE MatchProofs -----------------------------
(***************************************************************************)
(* A match on a server: the views of its scene, the scene itself, and the  *)
(* life of the process.  No change is lost to a view that reads in every   *)
(* frame: the buffer holds the end of the log, from where the frame before *)
(* this one began, and no cursor is before that.  Hence the cached world   *)
(* transforms: one that is not right has above it something that is still  *)
(* to be read.  And the reactive views keep Lua's instances and the        *)
(* scripts of the scene in step: what one has and the other has not, an    *)
(* event says.  The lifecycle is safe for every set of tokens, players and *)
(* addresses, every leeway and every number of attempts.                   *)
(***************************************************************************)
EXTENDS ServerLifecycle, ChangeViews, SceneFrame, FiniteSetTheorems, TLAPS

Buffer == [previous : Seq(Entity), current : Seq(Entity), prevStart : Nat \ {0}, currStart : Nat \ {0}]

ViewsTypeOK ==
  /\ buffer \in Buffer /\ cursor \in [View -> Nat]
  /\ due \subseteq View /\ logged \in Seq(Entity)

\* The buffer is the end of the log.
IsTheEnd(B, log) ==
  /\ B.currStart = B.prevStart + Len(B.previous)
  /\ HeadOf(B) = Len(log) + 1
  /\ \A i \in B.prevStart..Len(log) : At(B, i) = log[i]

\* A cursor is where the buffer still reaches, and a view that has read in this frame will
\* find all of the frame in it after the next turn.
InTime ==
  \A v \in View :
    cursor[v] # 0 =>
      /\ cursor[v] \in buffer.prevStart..HeadOf(buffer)
      /\ v \notin due => cursor[v] >= buffer.currStart

ViewsInv == ViewsTypeOK /\ IsTheEnd(buffer, logged) /\ InTime

-----------------------------------------------------------------------------
(* The operations of ECS/ChangeBuffer.h *)

\* Add logs one more entry at the end.
LEMMA AddIsTheEnd ==
  ASSUME NEW B \in Buffer, NEW log \in Seq(Entity), NEW entity \in Entity, IsTheEnd(B, log)
  PROVE  /\ Add(B, entity) \in Buffer /\ IsTheEnd(Add(B, entity), Append(log, entity))
         /\ HeadOf(Add(B, entity)) = HeadOf(B) + 1
<1> DEFINE C == Add(B, entity)
<1>1. /\ C.previous = B.previous /\ C.current = Append(B.current, entity)
      /\ C.prevStart = B.prevStart /\ C.currStart = B.currStart /\ C \in Buffer
  BY DEF Add, Buffer
<1>2. Len(C.current) = Len(B.current) + 1 /\ Len(B.current) \in Nat /\ B.currStart \in Nat
  BY <1>1 DEF Buffer
<1>3. HeadOf(C) = HeadOf(B) + 1
  BY <1>1, <1>2 DEF HeadOf
<1>4. HeadOf(C) = Len(Append(log, entity)) + 1 /\ Len(Append(log, entity)) = Len(log) + 1
  BY <1>3 DEF IsTheEnd
<1>5. ASSUME NEW i \in C.prevStart..Len(Append(log, entity))
      PROVE  At(C, i) = Append(log, entity)[i]
  <2>1. CASE i = Len(log) + 1
    <3>1. i = B.currStart + Len(B.current)
      BY <2>1 DEF IsTheEnd, HeadOf
    <3>2. ~(i < C.currStart) /\ i - C.currStart + 1 = Len(B.current) + 1
      BY <3>1, <1>1, <1>2
    <3>3. C.current[Len(B.current) + 1] = entity
      BY <1>1 DEF Buffer
    <3> QED BY <2>1, <3>2, <3>3 DEF At
  <2>2. CASE i # Len(log) + 1
    <3>1. i \in B.prevStart..Len(log)
      BY <2>2, <1>1, <1>4 DEF Buffer
    <3>2. At(B, i) = log[i] /\ Append(log, entity)[i] = log[i]
      BY <3>1 DEF IsTheEnd, Buffer
    <3>3. i < B.currStart + Len(B.current)
      BY <3>1, <1>2 DEF IsTheEnd, HeadOf, Buffer
    <3>4. ~(i < B.currStart) => C.current[i - B.currStart + 1] = B.current[i - B.currStart + 1]
      <4> SUFFICES ASSUME ~(i < B.currStart)
                   PROVE  C.current[i - B.currStart + 1] = B.current[i - B.currStart + 1]
        OBVIOUS
      <4>1. i - B.currStart + 1 \in 1..Len(B.current)
        BY <3>1, <3>3, <1>2 DEF Buffer
      <4> QED BY <4>1, <1>1 DEF Buffer
    <3>5. At(C, i) = At(B, i)
      BY <3>4, <1>1 DEF At
    <3> QED BY <3>2, <3>5
  <2> QED BY <2>1, <2>2
<1>6. C.currStart = C.prevStart + Len(C.previous)
  BY <1>1 DEF IsTheEnd
<1> QED BY <1>1, <1>3, <1>4, <1>5, <1>6 DEF IsTheEnd

\* NextFrame lets the frame before the last one go, and nothing else.
LEMMA NextFrameIsTheEnd ==
  ASSUME NEW B \in Buffer, NEW log \in Seq(Entity), IsTheEnd(B, log)
  PROVE  /\ NextFrame(B) \in Buffer /\ IsTheEnd(NextFrame(B), log)
         /\ HeadOf(NextFrame(B)) = HeadOf(B)
         /\ NextFrame(B).prevStart = B.currStart /\ NextFrame(B).currStart = HeadOf(B)
<1> DEFINE C == NextFrame(B)
<1>1. /\ C.previous = B.current /\ C.current = <<>>
      /\ C.prevStart = B.currStart /\ C.currStart = HeadOf(B)
  BY DEF NextFrame, HeadOf
<1>2. Len(B.current) \in Nat /\ Len(B.previous) \in Nat /\ B.currStart \in Nat \ {0} /\ B.prevStart \in Nat \ {0}
  BY DEF Buffer
<1>3. C \in Buffer
  <2>1. HeadOf(B) \in Nat \ {0}
    BY <1>2 DEF HeadOf
  <2>2. <<>> \in Seq(Entity)
    OBVIOUS
  <2> QED BY <2>1, <2>2, <1>2 DEF NextFrame, HeadOf, Buffer
<1>4. HeadOf(C) = HeadOf(B)
  BY <1>1, <1>2 DEF HeadOf
<1>5. ASSUME NEW i \in C.prevStart..Len(log)
      PROVE  At(C, i) = log[i]
  <2>1. i \in B.prevStart..Len(log) /\ ~(i < B.currStart)
    BY <1>1, <1>2 DEF IsTheEnd
  <2>2. i < C.currStart
    BY <2>1, <1>1, <1>2 DEF IsTheEnd, HeadOf
  <2>3. At(C, i) = At(B, i)
    BY <2>1, <2>2, <1>1 DEF At
  <2> QED BY <2>1, <2>3 DEF IsTheEnd
<1> QED BY <1>1, <1>3, <1>4, <1>5 DEF IsTheEnd, HeadOf

\* CollectSince, from where the buffer reaches, is the log from there on.
LEMMA CollectsTheEnd ==
  ASSUME NEW B \in Buffer, NEW log \in Seq(Entity), IsTheEnd(B, log),
         NEW from \in B.prevStart..HeadOf(B)
  PROVE  CollectSince(B, from) = SubSeq(log, from, Len(log))
<1>1. /\ from \in Nat \ {0} /\ Len(log) \in Nat /\ HeadOf(B) = Len(log) + 1
      /\ B.prevStart \in Nat \ {0}
  BY DEF IsTheEnd, Buffer
<1>2. CollectSince(B, from) = [k \in 1..HeadOf(B) - from |-> At(B, from + k - 1)]
  BY <1>1 DEF CollectSince
<1>3. SubSeq(log, from, Len(log)) = [k \in 1..Len(log) - from + 1 |-> log[from + k - 1]]
  BY <1>1
<1>4. \A k \in 1..HeadOf(B) - from : At(B, from + k - 1) = log[from + k - 1]
  <2> TAKE k \in 1..HeadOf(B) - from
  <2>1. from + k - 1 \in B.prevStart..Len(log)
    BY <1>1
  <2> QED BY <2>1 DEF IsTheEnd
<1>5. HeadOf(B) - from = Len(log) - from + 1
  BY <1>1
<1>6. CollectSince(B, from) = [k \in 1..HeadOf(B) - from |-> log[from + k - 1]]
  BY <1>2, <1>4, Zenon
<1> QED BY <1>3, <1>5, <1>6

-----------------------------------------------------------------------------
LEMMA ViewsInitHolds == ViewsInit => ViewsInv
<1> SUFFICES ASSUME ViewsInit PROVE ViewsInv
  OBVIOUS
<1>1. /\ buffer = NewBuffer /\ cursor = [v \in View |-> 0] /\ due = {} /\ logged = <<>>
  BY DEF ViewsInit
<1>2. <<>> \in Seq(Entity) /\ Len(<<>>) = 0
  OBVIOUS
<1>3. ViewsTypeOK
  BY <1>1, <1>2 DEF ViewsTypeOK, Buffer, NewBuffer
<1>4. IsTheEnd(buffer, logged)
  BY <1>1, <1>2 DEF IsTheEnd, HeadOf, NewBuffer
<1>5. InTime
  BY <1>1 DEF InTime
<1> QED BY <1>3, <1>4, <1>5 DEF ViewsInv

LEMMA ViewsInvHolds == ViewsInv /\ [ViewsNext]_viewVars => ViewsInv'
<1> SUFFICES ASSUME ViewsInv, [ViewsNext]_viewVars PROVE ViewsInv'
  OBVIOUS
<1>0. /\ buffer \in Buffer /\ cursor \in [View -> Nat] /\ due \subseteq View
      /\ logged \in Seq(Entity) /\ IsTheEnd(buffer, logged) /\ InTime
  BY DEF ViewsInv, ViewsTypeOK
<1>h. HeadOf(buffer) \in Nat \ {0} /\ buffer.currStart <= HeadOf(buffer)
      /\ buffer.prevStart <= buffer.currStart /\ buffer.currStart \in Nat /\ buffer.prevStart \in Nat
  BY <1>0 DEF HeadOf, Buffer, IsTheEnd
<1>1. CASE BeginFrame
  <2>1. /\ due = {} /\ due' = View /\ buffer' = NextFrame(buffer)
        /\ cursor' = cursor /\ logged' = logged
    BY <1>1 DEF BeginFrame
  <2>2. /\ buffer' \in Buffer /\ IsTheEnd(buffer', logged') /\ HeadOf(buffer') = HeadOf(buffer)
        /\ buffer'.prevStart = buffer.currStart
    BY <1>0, <2>1, NextFrameIsTheEnd
  <2>3. InTime'
    <3> SUFFICES ASSUME NEW v \in View, cursor[v] # 0
                 PROVE  cursor[v] \in buffer.currStart..HeadOf(buffer)
      BY <2>1, <2>2 DEF InTime, HeadOf
    <3> QED BY <1>0, <2>1 DEF InTime
  <2> QED BY <1>0, <2>1, <2>2, <2>3 DEF ViewsInv, ViewsTypeOK, IsTheEnd, HeadOf, At
<1>2. ASSUME NEW entity \in Entity, MarkChanged(entity) PROVE ViewsInv'
  <2>1. /\ buffer' = Add(buffer, entity) /\ logged' = Append(logged, entity)
        /\ cursor' = cursor /\ due' = due
    BY <1>2 DEF MarkChanged
  <2>2. /\ buffer' \in Buffer /\ IsTheEnd(buffer', logged')
        /\ HeadOf(buffer') = HeadOf(buffer) + 1
    BY <1>0, <2>1, AddIsTheEnd
  <2>3. buffer'.prevStart = buffer.prevStart /\ buffer'.currStart = buffer.currStart
    BY <1>0, <2>1 DEF Add, Buffer
  <2>4. InTime'
    <3> SUFFICES ASSUME NEW v \in View, cursor[v] # 0
                 PROVE  /\ cursor[v] \in buffer.prevStart..HeadOf(buffer) + 1
                        /\ v \notin due => cursor[v] >= buffer.currStart
      BY <2>1, <2>2, <2>3 DEF InTime, HeadOf
    <3> QED BY <1>0, <1>h DEF InTime
  <2>5. logged' \in Seq(Entity)
    BY <1>0, <2>1
  <2> QED BY <1>0, <2>1, <2>2, <2>4, <2>5 DEF ViewsInv, ViewsTypeOK, IsTheEnd, HeadOf, At
<1>3. ASSUME NEW v \in View, Select(v) PROVE ViewsInv'
  <2>1. /\ cursor' = [cursor EXCEPT ![v] = HeadOf(buffer)] /\ due' = due \ {v}
        /\ buffer' = buffer /\ logged' = logged
    BY <1>3 DEF Select
  <2>2. ViewsTypeOK'
    BY <1>0, <1>h, <2>1 DEF ViewsTypeOK
  <2>3. InTime'
    <3> SUFFICES ASSUME NEW w \in View, cursor'[w] # 0
                 PROVE  /\ cursor'[w] \in buffer.prevStart..HeadOf(buffer)
                        /\ w \notin due' => cursor'[w] >= buffer.currStart
      BY <2>1 DEF InTime, HeadOf
    <3>1. CASE w = v
      BY <1>0, <1>h, <2>1, <3>1
    <3>2. CASE w # v
      BY <1>0, <2>1, <3>2 DEF InTime
    <3> QED BY <3>1, <3>2
  <2>4. IsTheEnd(buffer, logged)'
    BY <1>0, <2>1 DEF IsTheEnd, HeadOf, At
  <2> QED BY <2>2, <2>3, <2>4 DEF ViewsInv
<1>4. CASE UNCHANGED viewVars
  BY <1>0, <1>4 DEF viewVars, ViewsInv, ViewsTypeOK, InTime, IsTheEnd, HeadOf, At
<1> QED BY <1>1, <1>2, <1>3, <1>4 DEF ViewsNext

LEMMA ViewsInvShows == ViewsInv => NothingIsLost
<1> SUFFICES ASSUME ViewsInv, NEW v \in View, cursor[v] # 0
             PROVE  CollectSince(buffer, cursor[v]) = SubSeq(logged, cursor[v], Len(logged))
  BY DEF NothingIsLost
<1>1. cursor[v] \in buffer.prevStart..HeadOf(buffer)
  BY DEF ViewsInv, InTime
<1> QED BY <1>1, CollectsTheEnd DEF ViewsInv, ViewsTypeOK

\* Whatever views there are, whenever in its frame each of them reads, and however many
\* changes are logged between: none of the changes is lost to any of them, or read twice.
THEOREM NoChangeIsLost == ViewsSpec => []NothingIsLost
<1>1. ViewsInit => ViewsInv
  BY ViewsInitHolds
<1>2. ViewsInv /\ [ViewsNext]_viewVars => ViewsInv'
  BY ViewsInvHolds
<1>3. ViewsInv => NothingIsLost
  BY ViewsInvShows
<1> QED BY <1>1, <1>2, <1>3, PTL DEF ViewsSpec

-----------------------------------------------------------------------------
(* What TransformSystem's view has not read yet *)

Unread(B, from) == ToSet(CollectSince(B, from))

HandleLog == [previous : Seq(Nat), current : Seq(Nat), prevStart : Nat \ {0}, currStart : Nat \ {0}]

\* A log of handles that is whole where `from` is.
Log(B, from) ==
  /\ B \in HandleLog
  /\ B.currStart = B.prevStart + Len(B.previous)
  /\ from \in B.prevStart..HeadOf(B)

LEMMA UnreadIsTheRest ==
  ASSUME NEW B, NEW from, Log(B, from)
  PROVE  Unread(B, from) = {At(B, i) : i \in from..HeadOf(B) - 1}
<1>1. from \in Nat /\ HeadOf(B) \in Nat /\ B.prevStart \in Nat /\ from >= B.prevStart /\ from <= HeadOf(B)
  BY DEF Log, HandleLog, HeadOf
<1>2. CollectSince(B, from) = [k \in 1..HeadOf(B) - from |-> At(B, from + k - 1)]
  BY <1>1 DEF CollectSince
<1>3. Unread(B, from) = {At(B, from + k - 1) : k \in 1..HeadOf(B) - from}
  BY <1>2 DEF Unread, ToSet
<1>4. \A i \in from..HeadOf(B) - 1 : i - from + 1 \in 1..HeadOf(B) - from /\ from + (i - from + 1) - 1 = i
  BY <1>1
<1>5. \A k \in 1..HeadOf(B) - from : from + k - 1 \in from..HeadOf(B) - 1
  BY <1>1
<1> QED
  BY <1>3, <1>4, <1>5

\* A set in some order has the set's elements.
LEMMA SeqOfSet ==
  ASSUME NEW S, IsFiniteSet(S)
  PROVE  SetToSeq(S) \in Seq(S) /\ ToSet(SetToSeq(S)) = S
<1> DEFINE n == Cardinality(S)
           g == SetToSeq(S)
<1>1. n \in Nat /\ ExistsBijection(1..n, S)
  BY FS_CardinalityType
<1>2. \E f \in [1..n -> S] : IsInjective(f)
  BY <1>1 DEF ExistsBijection, Bijection, Injection
<1>3. g \in [1..n -> S] /\ IsInjective(g)
  BY <1>2 DEF SetToSeq
<1>4. g \in Injection(1..n, S)
  BY <1>3 DEF Injection
<1>5. Cardinality(1..n) = n
  BY <1>1, FS_Interval
<1>6. g \in Surjection(1..n, S)
  BY <1>4, <1>5, FS_Injection
<1> HIDE DEF n, g
<1>7. g \in Seq(S)
  BY <1>1, <1>3
<1>8. {g[i] : i \in 1..n} = S
  BY <1>3, <1>6 DEF Surjection
<1>9. ToSet(g) = S
  BY <1>3, <1>8 DEF ToSet
<1> QED
  BY <1>7, <1>9 DEF g

\* What is logged is to be read, with what was already.
LEMMA AppendingAdds ==
  ASSUME NEW B, NEW from, Log(B, from), NEW s \in Seq(Nat), NEW C \in HandleLog,
         C.previous = B.previous, C.current = B.current \o s,
         C.prevStart = B.prevStart, C.currStart = B.currStart
  PROVE  Log(C, from) /\ Unread(C, from) = Unread(B, from) \cup ToSet(s)
<1>1. /\ B \in HandleLog /\ B.current \in Seq(Nat) /\ B.currStart = B.prevStart + Len(B.previous)
      /\ from \in B.prevStart..HeadOf(B) /\ B.prevStart \in Nat /\ B.currStart \in Nat
      /\ Len(B.previous) \in Nat
  BY DEF Log, HandleLog
<1>2. B.current \o s \in Seq(Nat) /\ Len(B.current \o s) = Len(B.current) + Len(s)
  BY <1>1
<1>3. /\ C.current = B.current \o s /\ C.prevStart = B.prevStart /\ C.currStart = B.currStart
  OBVIOUS
<1> DEFINE n == Len(B.current)
           m == Len(s)
           hb == HeadOf(B)
           hc == HeadOf(C)
<1>4. /\ B.prevStart \in Nat /\ B.currStart \in Nat /\ B.prevStart <= B.currStart
      /\ n \in Nat /\ m \in Nat /\ hb = B.currStart + n
      /\ from >= B.prevStart /\ from <= hb /\ from \in Nat /\ hb \in Nat
  BY ONLY <1>1, SMTT(30) DEF HeadOf
<1>5. hc = hb + m
  BY <1>2, <1>3, <1>4 DEF HeadOf
<1>6. /\ \A k \in 1..n : C.current[k] = B.current[k]
      /\ \A k \in 1..m : C.current[n + k] = s[k]
  <2>1. ASSUME NEW k \in 1..n PROVE C.current[k] = B.current[k]
    BY <1>1, <1>3
  <2>2. ASSUME NEW k \in 1..m PROVE C.current[n + k] = s[k]
    BY <1>1, <1>3
  <2> QED
    BY <2>1, <2>2
<1>7. ToSet(s) = {s[k] : k \in 1..m}
  BY DEF ToSet
<1>8. Log(C, from)
  <2>1. from \in C.prevStart..HeadOf(C)
    BY <1>3, <1>4, <1>5
  <2> QED
    BY <1>1, <2>1 DEF Log
<1>9. Unread(B, from) = {At(B, i) : i \in from..hb - 1}
  BY UnreadIsTheRest
<1>10. Unread(C, from) = {At(C, i) : i \in from..hc - 1}
  BY <1>8, UnreadIsTheRest
<1>a. n \in Nat /\ m \in Nat /\ hb \in Nat /\ from \in Nat /\ from <= hb /\ hc = hb + m
  BY <1>4, <1>5
<1> HIDE DEF n, m, hb, hc
<1>11. ASSUME NEW i \in from..hb - 1
       PROVE  At(C, i) = At(B, i)
  <2>1. CASE i < B.currStart
    BY <1>3, <2>1 DEF At
  <2>2. CASE ~(i < B.currStart)
    <3>1. i - B.currStart + 1 \in 1..n
      <4>1. i \in Int /\ i < B.currStart + n /\ i >= B.currStart /\ B.currStart \in Nat
        BY <1>4, <2>2
      <4>2. i - B.currStart + 1 >= 1 /\ i - B.currStart + 1 <= n
        BY ONLY <4>1, <1>a
      <4> QED
        BY <4>1, <4>2, <1>a
    <3>2. C.current[i - B.currStart + 1] = B.current[i - B.currStart + 1]
      BY <1>6, <3>1
    <3> QED
      BY <1>3, <2>2, <3>2 DEF At
  <2> QED
    BY <2>1, <2>2
<1>12. ASSUME NEW k \in 1..m
       PROVE  At(C, hb + k - 1) = s[k]
  <2> DEFINE i == hb + k - 1
  <2>1. ~(i < B.currStart) /\ i - B.currStart + 1 = n + k
    BY <1>4
  <2>2. C.current[n + k] = s[k]
    BY <1>6
  <2> HIDE DEF i
  <2>3. At(C, i) = s[k]
    BY <1>3, <2>1, <2>2 DEF At
  <2> QED
    BY <2>3 DEF i
<1>13. ASSUME NEW i \in from..hc - 1
       PROVE  i \in from..hb - 1 \/ \E k \in 1..m : i = hb + k - 1
  <2>1. CASE i < hb
    BY <1>4, <2>1
  <2>2. CASE ~(i < hb)
    <3> DEFINE k == i - hb + 1
    <3>1. i \in Int /\ i >= hb /\ i <= hb + m - 1
      BY <1>a, <2>2
    <3>2. k \in Int /\ k >= 1 /\ k <= m /\ i = hb + k - 1
      BY ONLY <3>1, <1>a
    <3>3. k \in 1..m
      BY <1>a, <3>2
    <3> QED
      BY <3>2, <3>3
  <2> QED
    BY <2>1, <2>2
<1>14. \A i \in from..hb - 1 : i \in from..hc - 1
  BY <1>4, <1>5
<1>15. \A k \in 1..m : hb + k - 1 \in from..hc - 1
  BY <1>a
<1>16. Unread(C, from) \subseteq Unread(B, from) \cup ToSet(s)
  <2> SUFFICES ASSUME NEW i \in from..hc - 1
               PROVE  At(C, i) \in Unread(B, from) \cup ToSet(s)
    BY <1>10
  <2>1. CASE i \in from..hb - 1
    BY <1>9, <1>11, <2>1
  <2>2. CASE \E k \in 1..m : i = hb + k - 1
    BY <1>7, <1>12, <2>2
  <2> QED
    BY <1>13, <2>1, <2>2
<1>17. Unread(B, from) \subseteq Unread(C, from)
  BY <1>9, <1>10, <1>11, <1>14
<1>18. ToSet(s) \subseteq Unread(C, from)
  BY <1>7, <1>10, <1>12, <1>15
<1> QED
  BY <1>3, <1>8, <1>16, <1>17, <1>18

\* A log to which handles are added.
Marking(B, D) == [B EXCEPT !.current = @ \o SetToSeq(D)]

\* What is marked is to be read, with what was already.
LEMMA MarkingAdds ==
  ASSUME NEW B, NEW from, Log(B, from), NEW D, D \subseteq Nat, IsFiniteSet(D)
  PROVE  /\ Log(Marking(B, D), from) /\ Unread(Marking(B, D), from) = Unread(B, from) \cup D
         /\ Marking(B, D).prevStart = B.prevStart /\ Marking(B, D).currStart = B.currStart
<1> DEFINE s == SetToSeq(D)
           C == Marking(B, D)
<1>1. s \in Seq(D) /\ ToSet(s) = D /\ C = [B EXCEPT !.current = @ \o s]
  BY SeqOfSet DEF Marking
<1> HIDE DEF s, C
<1>2. s \in Seq(Nat)
  BY <1>1
<1>3. /\ C.previous = B.previous /\ C.current = B.current \o s
      /\ C.prevStart = B.prevStart /\ C.currStart = B.currStart /\ C \in HandleLog
  <2>1. B \in HandleLog /\ B.current \o s \in Seq(Nat)
    BY <1>2 DEF Log, HandleLog
  <2> QED
    BY <1>1, <2>1 DEF HandleLog
<1>4. Log(B, from)
  OBVIOUS
<1>5. Log(C, from) /\ Unread(C, from) = Unread(B, from) \cup ToSet(s)
  BY ONLY <1>2, <1>3, <1>4, AppendingAdds
<1> QED
  BY <1>1, <1>3, <1>5 DEF C

\* The turn of the frame keeps what is to be read by one who has read in this frame.
LEMMA TurningKeeps ==
  ASSUME NEW B, NEW from, Log(B, from), from >= B.currStart
  PROVE  /\ Log(NextFrame(B), from) /\ Unread(NextFrame(B), from) = Unread(B, from)
         /\ HeadOf(NextFrame(B)) = HeadOf(B)
<1> DEFINE C == NextFrame(B)
<1>1. /\ C.previous = B.current /\ C.current = <<>>
      /\ C.prevStart = B.currStart /\ C.currStart = HeadOf(B)
  BY DEF NextFrame, HeadOf
<1>2. /\ B.current \in Seq(Nat) /\ Len(B.current) \in Nat /\ B.currStart \in Nat \ {0} /\ B.prevStart \in Nat \ {0}
      /\ HeadOf(B) = B.currStart + Len(B.current) /\ from \in B.prevStart..HeadOf(B) /\ HeadOf(B) \in Nat \ {0}
  BY DEF Log, HandleLog, HeadOf
<1>3. <<>> \in Seq(Nat) /\ Len(<<>>) = 0
  OBVIOUS
<1>4. C \in HandleLog
  BY <1>2, <1>3 DEF NextFrame, HeadOf, HandleLog
<1>5. HeadOf(C) = HeadOf(B)
  BY <1>1, <1>2, <1>3 DEF HeadOf
<1>6. Log(C, from)
  BY <1>1, <1>2, <1>4, <1>5 DEF Log
<1>7. \A i \in from..HeadOf(B) - 1 : At(C, i) = At(B, i)
  BY <1>1, <1>2 DEF At
<1>8. Unread(B, from) = {At(B, i) : i \in from..HeadOf(B) - 1}
  BY UnreadIsTheRest
<1>9. Unread(C, from) = {At(C, i) : i \in from..HeadOf(C) - 1}
  BY <1>6, UnreadIsTheRest
<1> HIDE DEF C
<1> QED
  BY <1>5, <1>6, <1>7, <1>8, <1>9 DEF C

-----------------------------------------------------------------------------
(* What is above an entity, and what is under it *)

UpClosed(L, X) == \A x \in X : FindEntityByUUID(L, L[x].parent) \subseteq X

DownClosed(L, X) == \A x \in X : \A c \in L[x].children : FindEntityByUUID(L, c) \subseteq X

\* Above has the entity, and with every entity its parent.
LEMMA AboveIsUpClosed ==
  ASSUME NEW L, NEW h \in DOMAIN L
  PROVE  h \in Above(L, h) /\ Above(L, h) \subseteq DOMAIN L /\ UpClosed(L, Above(L, h))
<1>1. h \in Above(L, h) /\ Above(L, h) \subseteq DOMAIN L
  BY DEF Above
<1>2. ASSUME NEW a \in Above(L, h), NEW p \in FindEntityByUUID(L, L[a].parent)
      PROVE  p \in Above(L, h)
  <2>1. p \in DOMAIN L
    BY DEF FindEntityByUUID
  <2>2. ASSUME NEW X \in SUBSET DOMAIN L,
               h \in X /\ (\A x \in X : FindEntityByUUID(L, L[x].parent) \subseteq X)
        PROVE  p \in X
    <3>1. a \in X
      BY <2>2 DEF Above
    <3> QED
      BY <2>2, <3>1
  <2> QED
    BY <2>1, <2>2 DEF Above
<1> QED
  BY <1>1, <1>2 DEF UpClosed

\* It is the least such set.
LEMMA AboveIsLeast ==
  ASSUME NEW L, NEW h \in DOMAIN L, NEW X \in SUBSET DOMAIN L, h \in X, UpClosed(L, X)
  PROVE  Above(L, h) \subseteq X
BY DEF Above, UpClosed

\* CollectSubtree has the roots, and with every entity its children.
LEMMA SubtreeIsDownClosed ==
  ASSUME NEW L, NEW roots \in SUBSET DOMAIN L
  PROVE  /\ roots \subseteq CollectSubtree(L, roots) /\ CollectSubtree(L, roots) \subseteq DOMAIN L
         /\ DownClosed(L, CollectSubtree(L, roots))
<1>1. roots \subseteq CollectSubtree(L, roots) /\ CollectSubtree(L, roots) \subseteq DOMAIN L
  BY DEF CollectSubtree
<1>2. ASSUME NEW d \in CollectSubtree(L, roots), NEW c \in L[d].children, NEW e \in FindEntityByUUID(L, c)
      PROVE  e \in CollectSubtree(L, roots)
  <2>1. e \in DOMAIN L
    BY DEF FindEntityByUUID
  <2>2. ASSUME NEW X \in SUBSET DOMAIN L,
               roots \subseteq X /\ (\A x \in X : \A k \in L[x].children : FindEntityByUUID(L, k) \subseteq X)
        PROVE  e \in X
    <3>1. d \in X
      BY <2>2 DEF CollectSubtree
    <3> QED
      BY <2>2, <3>1
  <2> QED
    BY <2>1, <2>2 DEF CollectSubtree
<1> QED
  BY <1>1, <1>2 DEF DownClosed

\* An entity is under what is above it.
LEMMA UnderWhatIsAbove ==
  ASSUME NEW L, Linked(L), \A g \in DOMAIN L : L[g].uuid # 0, NEW h \in DOMAIN L,
         NEW Y \in SUBSET DOMAIN L, DownClosed(L, Y), NEW a \in Above(L, h), a \in Y
  PROVE  h \in Y
<1> SUFFICES ASSUME h \notin Y PROVE FALSE
  OBVIOUS
<1> DEFINE X == DOMAIN L \ Y
<1>1. X \in SUBSET DOMAIN L /\ h \in X /\ a \notin X
  OBVIOUS
<1>2. ASSUME NEW x \in X, NEW p \in FindEntityByUUID(L, L[x].parent)
      PROVE  p \in X
  <2> SUFFICES ASSUME p \in Y PROVE FALSE
    BY DEF FindEntityByUUID
  <2>1. p \in DOMAIN L /\ L[p].uuid = L[x].parent /\ x \in DOMAIN L
    BY DEF FindEntityByUUID
  <2>2. L[x].uuid \in L[p].children
    BY <2>1 DEF Linked
  <2>3. x \in FindEntityByUUID(L, L[x].uuid)
    BY <2>1 DEF FindEntityByUUID
  <2> QED
    BY <2>2, <2>3 DEF DownClosed
<1>3. UpClosed(L, X)
  BY <1>2 DEF UpClosed
<1> HIDE DEF X
<1> QED
  BY <1>1, <1>3, AboveIsLeast

\* The world transform of an entity is the same where what is above it is.
LEMMA AboveAgrees ==
  ASSUME NEW L, NEW M, NEW h \in DOMAIN M,
         \A a \in Above(M, h) :
           /\ a \in DOMAIN L /\ M[a].parent = L[a].parent /\ M[a].local = L[a].local
           /\ FindEntityByUUID(M, M[a].parent) = FindEntityByUUID(L, L[a].parent)
  PROVE  Above(L, h) = Above(M, h) /\ WorldFromLocals(L, h) = WorldFromLocals(M, h)
<1>1. h \in Above(M, h) /\ Above(M, h) \subseteq DOMAIN M /\ UpClosed(M, Above(M, h))
  BY AboveIsUpClosed
<1>2. h \in DOMAIN L /\ Above(M, h) \subseteq DOMAIN L /\ UpClosed(L, Above(M, h))
  BY <1>1 DEF UpClosed
<1>3. Above(L, h) \subseteq Above(M, h)
  BY <1>1, <1>2, AboveIsLeast
<1>4. h \in Above(L, h) /\ UpClosed(L, Above(L, h))
  BY <1>2, AboveIsUpClosed
<1>5. Above(L, h) \subseteq DOMAIN M /\ UpClosed(M, Above(L, h))
  BY <1>1, <1>3, <1>4 DEF UpClosed
<1>6. Above(M, h) \subseteq Above(L, h)
  BY <1>4, <1>5, AboveIsLeast
<1>7. Above(L, h) = Above(M, h)
  BY <1>3, <1>6
<1> QED
  BY <1>7 DEF WorldFromLocals

\* An entity's cached world transform is right, or something above it is still to be read.
WorldsKnown(L, unread) ==
  \A h \in DOMAIN L : L[h].world = WorldFromLocals(L, h) \/ Above(L, h) \cap unread # {}

\* It stays so where everything that changed is marked.
LEMMA WorldsStayKnown ==
  ASSUME NEW L, NEW M, NEW unread, NEW marked, WorldsKnown(L, unread),
         \A h \in DOMAIN M \ marked :
           /\ h \in DOMAIN L /\ M[h].parent = L[h].parent /\ M[h].local = L[h].local
           /\ M[h].world = L[h].world
           /\ FindEntityByUUID(M, M[h].parent) = FindEntityByUUID(L, L[h].parent)
  PROVE  WorldsKnown(M, unread \cup marked)
<1> SUFFICES ASSUME NEW h \in DOMAIN M, Above(M, h) \cap (unread \cup marked) = {}
             PROVE  M[h].world = WorldFromLocals(M, h)
  BY DEF WorldsKnown
<1>1. h \in Above(M, h) /\ Above(M, h) \subseteq DOMAIN M \ marked
  BY AboveIsUpClosed
<1>2. \A a \in Above(M, h) :
        /\ a \in DOMAIN L /\ M[a].parent = L[a].parent /\ M[a].local = L[a].local
        /\ FindEntityByUUID(M, M[a].parent) = FindEntityByUUID(L, L[a].parent)
  BY <1>1
<1>3. Above(L, h) = Above(M, h) /\ WorldFromLocals(L, h) = WorldFromLocals(M, h)
  BY <1>2, AboveAgrees
<1>4. L[h].world = WorldFromLocals(L, h)
  BY <1>1, <1>3 DEF WorldsKnown
<1> QED
  BY <1>1, <1>3, <1>4

-----------------------------------------------------------------------------
(* The operations of a scene *)

World == UNION {[A -> [parent : Nat, local : Int]] : A \in SUBSET Nat}

Node == [uuid : Nat \ {0}, parent : Nat, children : SUBSET Nat, local : Int, world : World, script : BOOLEAN]

Registry(L, n) == L \in [DOMAIN L -> Node] /\ DOMAIN L \subseteq 1..n

\* A scene of handles up to n, of whose log TransformSystem has read what is before `from`.
SceneOK(S, n, from) ==
  /\ S = [live |-> S.live, changes |-> S.changes]
  /\ Registry(S.live, n) /\ Linked(S.live) /\ Listed(S.live) /\ Rooted(S.live)
  /\ Log(S.changes, from)
  /\ WorldsKnown(S.live, Unread(S.changes, from))

\* What an operation leaves alone of the log.
SameFrame(S, T) ==
  T.changes.prevStart = S.changes.prevStart /\ T.changes.currStart = S.changes.currStart

\* No entity is new, and those that stay keep their UUID.
Shrinks(L, M) == DOMAIN M \subseteq DOMAIN L /\ \A h \in DOMAIN M : M[h].uuid = L[h].uuid

LEMMA WorldIsWorld ==
  ASSUME NEW L, NEW n, Registry(L, n), NEW h \in DOMAIN L
  PROVE  WorldFromLocals(L, h) \in World
<1>1. Above(L, h) \subseteq DOMAIN L
  BY AboveIsUpClosed
<1>2. DOMAIN L \subseteq Nat /\ \A a \in DOMAIN L : L[a] \in Node
  BY DEF Registry
<1>3. WorldFromLocals(L, h) \in [Above(L, h) -> [parent : Nat, local : Int]]
  BY <1>1, <1>2 DEF WorldFromLocals, Node
<1>4. Above(L, h) \in SUBSET Nat
  BY <1>1, <1>2
<1> QED
  BY <1>3, <1>4 DEF World

\* A change of the registry after which everything it concerns is marked.
LEMMA MarkedKeeps ==
  ASSUME NEW S, NEW n \in Nat, NEW from, SceneOK(S, n, from),
         NEW M, Registry(M, n), Linked(M), Listed(M), Rooted(M), NEW marked \in SUBSET DOMAIN M,
         \A h \in DOMAIN M \ marked :
           /\ h \in DOMAIN S.live /\ M[h].parent = S.live[h].parent /\ M[h].local = S.live[h].local
           /\ M[h].world = S.live[h].world
           /\ FindEntityByUUID(M, M[h].parent) = FindEntityByUUID(S.live, S.live[h].parent)
  PROVE  LET T == Marked(S, M, marked)
         IN  SceneOK(T, n, from) /\ T.live = M /\ SameFrame(S, T)
<1> DEFINE C == [S.changes EXCEPT !.current = @ \o SetToSeq(marked)]
           T == Marked(S, M, marked)
<1>1. /\ S = [live |-> S.live, changes |-> S.changes]
      /\ Log(S.changes, from) /\ WorldsKnown(S.live, Unread(S.changes, from))
  BY DEF SceneOK
<1>3. T = [live |-> M, changes |-> C]
  BY DEF Marked
<1>4. marked \subseteq Nat /\ IsFiniteSet(marked)
  <2>1. marked \subseteq 1..n
    BY DEF Registry
  <2> QED
    BY <2>1, FS_Interval, FS_Subset
<1>5. /\ Log(C, from) /\ Unread(C, from) = Unread(S.changes, from) \cup marked
      /\ C.prevStart = S.changes.prevStart /\ C.currStart = S.changes.currStart
  <2>1. C = Marking(S.changes, marked)
    BY DEF Marking
  <2> HIDE DEF C
  <2> QED
    BY ONLY <1>1, <1>4, <2>1, MarkingAdds
<1>6. WorldsKnown(M, Unread(S.changes, from) \cup marked)
  <2>1. \A h \in DOMAIN M \ marked :
          /\ h \in DOMAIN S.live /\ M[h].parent = S.live[h].parent /\ M[h].local = S.live[h].local
          /\ M[h].world = S.live[h].world
          /\ FindEntityByUUID(M, M[h].parent) = FindEntityByUUID(S.live, S.live[h].parent)
    OBVIOUS
  <2> QED
    BY ONLY <1>1, <2>1, WorldsStayKnown
<1> HIDE DEF C, T
<1>7. T.live = M /\ T.changes = C
  BY <1>3
<1>8. SceneOK(T, n, from)
  BY <1>3, <1>5, <1>6, <1>7 DEF SceneOK
<1>9. SameFrame(S, T)
  BY <1>5, <1>7 DEF SameFrame
<1> QED
  BY <1>7, <1>8, <1>9 DEF T

\* CreateEntityWithUUID of entities whose handles and UUIDs are new.
LEMMA CreateKeeps ==
  ASSUME NEW S, NEW n \in Nat, NEW from, SceneOK(S, n, from),
         NEW created, created \in [DOMAIN created -> Node], DOMAIN created \subseteq 1..n,
         DOMAIN created \cap DOMAIN S.live = {},
         \A h \in DOMAIN created : created[h].parent = 0 /\ created[h].children = {},
         \A h \in DOMAIN created : FindEntityByUUID(S.live, created[h].uuid) = {},
         \A g, h \in DOMAIN created : created[g].uuid = created[h].uuid => g = h
  PROVE  LET T == CreateEntities(S, created)
         IN  /\ SceneOK(T, n, from) /\ SameFrame(S, T)
             /\ DOMAIN T.live = DOMAIN S.live \cup DOMAIN created
             /\ \A h \in DOMAIN created : T.live[h] = created[h]
             /\ \A h \in DOMAIN S.live : T.live[h] = S.live[h]
<1> DEFINE L == S.live
           M == [h \in DOMAIN L \cup DOMAIN created |-> IF h \in DOMAIN created THEN created[h] ELSE L[h]]
<1>1. /\ S = [live |-> S.live, changes |-> S.changes]
      /\ L \in [DOMAIN L -> Node] /\ DOMAIN L \subseteq 1..n /\ Linked(L) /\ Listed(L) /\ Rooted(L)
  BY DEF SceneOK, Registry
<1>2. CreateEntities(S, created) = Marked(S, M, DOMAIN created)
  BY DEF CreateEntities
<1>3. /\ DOMAIN M = DOMAIN created \cup DOMAIN L
      /\ \A h \in DOMAIN created : M[h] = created[h] /\ created[h] \in Node
      /\ \A h \in DOMAIN L : M[h] = L[h] /\ h \notin DOMAIN created /\ L[h] \in Node
  BY <1>1
<1>4. Registry(M, n)
  BY <1>1 DEF Registry
<1> HIDE DEF L, M
<1>5. \A h \in DOMAIN L, c \in DOMAIN created : L[h].uuid # created[c].uuid
  BY DEF FindEntityByUUID, L
<1>6. Linked(M)
  <2>1. \A g, h \in DOMAIN M : M[g].uuid = M[h].uuid => g = h
    BY <1>1, <1>3, <1>5 DEF Linked
  <2>2. ASSUME NEW h \in DOMAIN M, M[h].parent # 0
        PROVE  \E p \in DOMAIN M : M[p].uuid = M[h].parent /\ M[h].uuid \in M[p].children
    <3>1. h \in DOMAIN L
      BY <1>3, <2>2
    <3>2. PICK p \in DOMAIN L : L[p].uuid = L[h].parent /\ L[h].uuid \in L[p].children
      BY <1>1, <1>3, <2>2, <3>1 DEF Linked
    <3> QED
      BY <1>3, <3>1, <3>2
  <2> QED
    BY <2>1, <2>2 DEF Linked
<1>7. ASSUME NEW h \in DOMAIN M \ DOMAIN created
      PROVE  /\ h \in DOMAIN L /\ M[h] = L[h]
             /\ FindEntityByUUID(M, M[h].parent) = FindEntityByUUID(L, L[h].parent)
  <2>1. h \in DOMAIN L /\ M[h] = L[h]
    BY <1>3
  <2>2. ASSUME NEW c \in DOMAIN created PROVE created[c].uuid # L[h].parent
    <3>1. CASE L[h].parent = 0
      BY <1>3, <3>1 DEF Node
    <3>2. CASE L[h].parent # 0
      BY <1>1, <1>5, <2>1, <3>2 DEF Linked
    <3> QED
      BY <3>1, <3>2
  <2> QED
    BY <1>3, <2>1, <2>2 DEF FindEntityByUUID
<1>a. Listed(M)
  <2> SUFFICES ASSUME NEW p \in DOMAIN M, NEW c \in M[p].children
               PROVE  \E h \in DOMAIN M : M[h].uuid = c /\ M[h].parent = M[p].uuid
    BY DEF Listed
  <2>1. p \in DOMAIN L /\ M[p] = L[p]
    BY <1>3
  <2>2. PICK h \in DOMAIN L : L[h].uuid = c /\ L[h].parent = L[p].uuid
    BY <1>1, <2>1 DEF Listed
  <2> QED
    BY <1>3, <2>1, <2>2
<1>b. Rooted(M)
  <2> SUFFICES ASSUME NEW X \in SUBSET DOMAIN M, X # {}
               PROVE  \E x \in X : FindEntityByUUID(M, M[x].parent) \cap X = {}
    BY DEF Rooted
  <2>1. CASE X \cap DOMAIN created # {}
    <3>1. PICK x \in X : x \in DOMAIN created
      BY <2>1
    <3>2. M[x].parent = 0 /\ \A g \in DOMAIN M : M[g].uuid # 0
      BY <1>3, <3>1 DEF Node
    <3>3. FindEntityByUUID(M, M[x].parent) = {}
      BY <3>2 DEF FindEntityByUUID
    <3> QED
      BY <3>3
  <2>2. CASE X \cap DOMAIN created = {}
    <3>1. X \in SUBSET DOMAIN L
      BY <1>3, <2>2
    <3>2. PICK x \in X : FindEntityByUUID(L, L[x].parent) \cap X = {}
      BY <1>1, <3>1 DEF Rooted
    <3> QED
      BY <1>7, <2>2, <3>2
  <2> QED
    BY <2>1, <2>2
<1>8. DOMAIN created \in SUBSET DOMAIN M
  BY <1>3
<1> DEFINE T == CreateEntities(S, created)
<1>9. SceneOK(T, n, from) /\ T.live = M /\ SameFrame(S, T)
  <2> DEFINE marked == DOMAIN created
  <2>1. T = Marked(S, M, marked)
    BY <1>2
  <2>2. \A h \in DOMAIN M \ marked :
          /\ h \in DOMAIN S.live /\ M[h].parent = S.live[h].parent /\ M[h].local = S.live[h].local
          /\ M[h].world = S.live[h].world
          /\ FindEntityByUUID(M, M[h].parent) = FindEntityByUUID(S.live, S.live[h].parent)
    BY <1>7 DEF L
  <2>3. marked \in SUBSET DOMAIN M /\ SceneOK(S, n, from) /\ n \in Nat
    BY <1>8
  <2> HIDE DEF T, marked
  <2> QED
    BY ONLY <1>4, <1>6, <1>a, <1>b, <2>1, <2>2, <2>3, MarkedKeeps
<1> QED
  BY <1>3, <1>9 DEF L

LEMMA SetParentKeeps ==
  ASSUME NEW S, NEW n \in Nat, NEW from, SceneOK(S, n, from),
         NEW child \in DOMAIN S.live, NEW parent \in DOMAIN S.live \cup {0}
  PROVE  LET T == SetParent(S, child, parent)
         IN  SceneOK(T, n, from) /\ SameFrame(S, T) /\ Shrinks(S.live, T.live)
<1> DEFINE L    == S.live
           uuid == L[child].uuid
           old  == FindEntityByUUID(L, L[child].parent)
           new  == IF parent = 0 THEN {} ELSE {parent}
           M    == [h \in DOMAIN L |->
                      [L[h] EXCEPT
                         !.parent   = IF h # child THEN @ ELSE IF parent = 0 THEN 0 ELSE L[parent].uuid,
                         !.children = IF h \in new THEN @ \cup {uuid}
                                      ELSE IF h \in old THEN @ \ {uuid} ELSE @]]
           D    == {child} \cup old \cup new
           T    == SetParent(S, child, parent)
<1>1. /\ L \in [DOMAIN L -> Node] /\ DOMAIN L \subseteq 1..n /\ Linked(L) /\ Listed(L) /\ Rooted(L)
  BY DEF SceneOK, Registry
<1>2. T = S \/ (T = Marked(S, M, D) /\ (parent = 0 \/ child \notin Above(L, parent)))
  BY DEF SetParent, PutUnder
<1>3. CASE T = S
  BY <1>3 DEF SameFrame, Shrinks
<1>4. CASE T = Marked(S, M, D) /\ (parent = 0 \/ child \notin Above(L, parent))
  <2>1. /\ DOMAIN M = DOMAIN L /\ old \subseteq DOMAIN L /\ new \subseteq DOMAIN L
        /\ uuid \in Nat /\ (parent # 0 => L[parent].uuid \in Nat \ {0})
    BY <1>1 DEF FindEntityByUUID, Node
  <2>2. ASSUME NEW h \in DOMAIN L
        PROVE  /\ M[h] \in Node /\ M[h].uuid = L[h].uuid /\ M[h].local = L[h].local /\ M[h].world = L[h].world
               /\ M[h].parent = IF h # child THEN L[h].parent ELSE IF parent = 0 THEN 0 ELSE L[parent].uuid
               /\ M[h].children = IF h \in new THEN L[h].children \cup {uuid}
                                  ELSE IF h \in old THEN L[h].children \ {uuid} ELSE L[h].children
    BY <1>1, <2>1 DEF Node
  <2>3. \A u : FindEntityByUUID(M, u) = FindEntityByUUID(L, u)
    BY <2>1, <2>2 DEF FindEntityByUUID
  <2>4. Registry(M, n)
    <3> HIDE DEF M
    <3>1. \A h \in DOMAIN M : M[h] \in Node
      BY <2>1, <2>2
    <3>2. M = [h \in DOMAIN M |-> M[h]]
      BY DEF M
    <3> QED
      BY <1>1, <2>1, <3>1, <3>2 DEF Registry
  <2>5. new = {} \/ (parent # 0 /\ new = {parent})
    OBVIOUS
  <2> HIDE DEF M, old, new, uuid
  <2>6. Linked(M)
    <3>1. \A g, h \in DOMAIN M : M[g].uuid = M[h].uuid => g = h
      BY <1>1, <2>1, <2>2 DEF Linked
    <3>2. ASSUME NEW h \in DOMAIN M, M[h].parent # 0
          PROVE  \E p \in DOMAIN M : M[p].uuid = M[h].parent /\ M[h].uuid \in M[p].children
      <4>1. CASE h = child
        <5>1. parent # 0 /\ parent \in DOMAIN L /\ M[h].parent = L[parent].uuid /\ M[h].uuid = uuid
          BY <2>1, <2>2, <3>2, <4>1 DEF uuid
        <5>2. parent \in new
          BY <5>1 DEF new
        <5>3. parent \in DOMAIN M /\ M[parent].uuid = L[parent].uuid /\ uuid \in M[parent].children
          BY <2>1, <2>2, <5>1, <5>2
        <5> QED
          BY <5>1, <5>3
      <4>2. CASE h # child
        <5>1. h \in DOMAIN L /\ M[h].parent = L[h].parent /\ M[h].uuid = L[h].uuid
          BY <2>1, <2>2, <4>2
        <5>2. PICK p \in DOMAIN L : L[p].uuid = L[h].parent /\ L[h].uuid \in L[p].children
          BY <1>1, <3>2, <5>1 DEF Linked
        <5>3. L[h].uuid # uuid
          BY <1>1, <4>2, <5>1 DEF Linked, uuid
        <5> QED
          BY <2>1, <2>2, <5>1, <5>2, <5>3
      <4> QED
        BY <4>1, <4>2
    <3> QED
      BY <3>1, <3>2 DEF Linked
  <2>a. Listed(M)
    <3> SUFFICES ASSUME NEW p \in DOMAIN M, NEW c \in M[p].children
                 PROVE  \E h \in DOMAIN M : M[h].uuid = c /\ M[h].parent = M[p].uuid
      BY DEF Listed
    <3>1. CASE c = uuid
      <4>1. p \in new
        <5> SUFFICES ASSUME p \notin new PROVE FALSE
          OBVIOUS
        <5>1. p \notin old /\ uuid \in L[p].children
          BY <2>1, <2>2, <3>1
        <5>2. L[child].parent = L[p].uuid
          BY <1>1, <2>1, <5>1 DEF Listed, Linked, uuid
        <5> QED
          BY <2>1, <5>1, <5>2 DEF old, FindEntityByUUID
      <4>2. parent # 0 /\ p = parent
        BY <2>5, <4>1
      <4> QED
        BY <2>1, <2>2, <3>1, <4>2 DEF uuid
    <3>2. CASE c # uuid
      <4>1. c \in L[p].children
        <5>1. \/ M[p].children = L[p].children \cup {uuid}
              \/ M[p].children = L[p].children \ {uuid}
              \/ M[p].children = L[p].children
          BY <2>1, <2>2
        <5> QED
          BY <3>2, <5>1
      <4>2. PICK h \in DOMAIN L : L[h].uuid = c /\ L[h].parent = L[p].uuid
        BY <1>1, <2>1, <4>1 DEF Listed
      <4>3. h # child
        BY <3>2, <4>2 DEF uuid
      <4> QED
        BY <2>1, <2>2, <4>2, <4>3
    <3> QED
      BY <3>1, <3>2
  <2>b. Rooted(M)
    <3> SUFFICES ASSUME NEW X \in SUBSET DOMAIN M, X # {}
                 PROVE  \E x \in X : FindEntityByUUID(M, M[x].parent) \cap X = {}
      BY DEF Rooted
    <3> DEFINE A == IF parent = 0 THEN {} ELSE Above(L, parent)
    <3>1. /\ A \subseteq DOMAIN L /\ UpClosed(L, A) /\ child \notin A
          /\ parent # 0 => parent \in A /\ parent \in DOMAIN L
      BY <1>4, AboveIsUpClosed DEF UpClosed
    <3>2. \A g \in DOMAIN L : L[g].uuid # 0
      BY <1>1 DEF Node
    <3> HIDE DEF A
    <3>3. FindEntityByUUID(M, M[child].parent) \subseteq A
      <4>1. CASE parent = 0
        BY <2>1, <2>2, <2>3, <3>2, <4>1 DEF FindEntityByUUID
      <4>2. CASE parent # 0
        <5>1. M[child].parent = L[parent].uuid
          BY <2>2, <4>2
        <5>2. FindEntityByUUID(L, L[parent].uuid) = {parent}
          BY <1>1, <3>1, <4>2 DEF FindEntityByUUID, Linked
        <5> QED
          BY <2>3, <3>1, <4>2, <5>1, <5>2
      <4> QED
        BY <4>1, <4>2
    <3>4. CASE child \notin X
      <4>1. PICK x \in X : FindEntityByUUID(L, L[x].parent) \cap X = {}
        BY <1>1, <2>1 DEF Rooted
      <4> QED
        BY <2>1, <2>2, <2>3, <3>4, <4>1
    <3>5. CASE child \in X /\ X \cap A = {}
      BY <3>3, <3>5
    <3>6. CASE X \cap A # {}
      <4>1. PICK x \in X \cap A : FindEntityByUUID(L, L[x].parent) \cap (X \cap A) = {}
        BY <1>1, <2>1, <3>6 DEF Rooted
      <4>2. FindEntityByUUID(L, L[x].parent) \subseteq A /\ x # child /\ x \in DOMAIN L
        BY <3>1 DEF UpClosed
      <4> QED
        BY <2>2, <2>3, <4>1, <4>2
    <3> QED
      BY <3>4, <3>5, <3>6
  <2>7. \A h \in DOMAIN M \ D :
          /\ h \in DOMAIN L /\ M[h].parent = L[h].parent /\ M[h].local = L[h].local /\ M[h].world = L[h].world
          /\ FindEntityByUUID(M, M[h].parent) = FindEntityByUUID(L, L[h].parent)
    BY <2>1, <2>2, <2>3
  <2>8. D \in SUBSET DOMAIN M
    BY <2>1
  <2> HIDE DEF D, T
  <2>9. SceneOK(T, n, from) /\ T.live = M /\ SameFrame(S, T)
    BY <1>4, <2>4, <2>6, <2>a, <2>b, <2>7, <2>8, MarkedKeeps DEF L
  <2>10. Shrinks(S.live, T.live)
    BY <2>1, <2>2, <2>9 DEF Shrinks, L
  <2> QED
    BY <2>9, <2>10 DEF T
<1> HIDE DEF T, M, D
<1> QED
  BY <1>2, <1>3, <1>4 DEF T

LEMMA DestroyKeeps ==
  ASSUME NEW S, NEW n \in Nat, NEW from, SceneOK(S, n, from), NEW gone \in SUBSET DOMAIN S.live
  PROVE  LET T == DestroyEntities(S, gone)
         IN  SceneOK(T, n, from) /\ SameFrame(S, T) /\ Shrinks(S.live, T.live)
<1> DEFINE L       == S.live
           parents == {h \in DOMAIN L \ gone : \E g \in gone : L[g].parent = L[h].uuid}
           orphans == {h \in DOMAIN L \ gone : \E g \in gone : L[h].uuid \in L[g].children}
           uuidsOf == {L[g].uuid : g \in gone}
           M       == [h \in DOMAIN L \ gone |->
                         [L[h] EXCEPT !.parent   = IF h \in orphans THEN 0 ELSE @,
                                      !.children = IF h \in parents THEN @ \ uuidsOf ELSE @]]
           D       == parents \cup orphans
           T       == DestroyEntities(S, gone)
<1>1. /\ L \in [DOMAIN L -> Node] /\ DOMAIN L \subseteq 1..n /\ Linked(L) /\ Listed(L) /\ Rooted(L)
  BY DEF SceneOK, Registry
<1>2. T = Marked(S, M, D)
  BY DEF DestroyEntities
<1>3. DOMAIN M = DOMAIN L \ gone /\ D \in SUBSET DOMAIN M
  OBVIOUS
<1>4. ASSUME NEW h \in DOMAIN M
      PROVE  /\ M[h] \in Node /\ M[h].uuid = L[h].uuid /\ M[h].local = L[h].local /\ M[h].world = L[h].world
             /\ M[h].parent = IF h \in orphans THEN 0 ELSE L[h].parent
             /\ M[h].children = IF h \in parents THEN L[h].children \ uuidsOf ELSE L[h].children
  <2>1. L[h] \in Node
    BY <1>1, <1>3
  <2> HIDE DEF orphans, parents, uuidsOf
  <2> QED
    BY <1>3, <2>1 DEF Node
<1>5. \A h \in DOMAIN L \ gone, g \in gone : L[h].uuid \in L[g].children => h \in orphans
  OBVIOUS
<1>6. \A h \in DOMAIN L \ gone : L[h].uuid \notin uuidsOf
  BY <1>1 DEF Linked
<1>7. M = [h \in DOMAIN M |-> M[h]]
  OBVIOUS
<1>a. \A h \in orphans : \E g \in gone : L[h].uuid \in L[g].children
  OBVIOUS
<1>b. \A h \in DOMAIN L \ gone, g \in gone : L[g].parent = L[h].uuid => h \in parents
  OBVIOUS
<1>c. \A g \in gone : L[g].uuid \in uuidsOf
  OBVIOUS
<1> HIDE DEF M, orphans, parents, uuidsOf
<1>8. Registry(M, n)
  BY <1>1, <1>3, <1>4, <1>7 DEF Registry
<1>9. ASSUME NEW h \in DOMAIN M, h \notin orphans, L[h].parent # 0
      PROVE  \E p \in DOMAIN M : L[p].uuid = L[h].parent /\ L[h].uuid \in L[p].children
  <2>1. PICK p \in DOMAIN L : L[p].uuid = L[h].parent /\ L[h].uuid \in L[p].children
    BY <1>1, <1>3, <1>9 DEF Linked
  <2>2. p \notin gone
    BY <1>3, <1>5, <1>9, <2>1
  <2> QED
    BY <1>3, <2>1, <2>2
<1>10. Linked(M)
  <2>1. \A g, h \in DOMAIN M : M[g].uuid = M[h].uuid => g = h
    BY <1>1, <1>3, <1>4 DEF Linked
  <2>2. ASSUME NEW h \in DOMAIN M, M[h].parent # 0
        PROVE  \E p \in DOMAIN M : M[p].uuid = M[h].parent /\ M[h].uuid \in M[p].children
    <3>1. h \notin orphans /\ M[h].parent = L[h].parent /\ M[h].uuid = L[h].uuid
      BY <1>4, <2>2
    <3>2. PICK p \in DOMAIN M : L[p].uuid = L[h].parent /\ L[h].uuid \in L[p].children
      BY <1>9, <2>2, <3>1
    <3> QED
      BY <1>3, <1>4, <1>6, <3>1, <3>2
  <2> QED
    BY <2>1, <2>2 DEF Linked
<1>d. Listed(M)
  <2> SUFFICES ASSUME NEW p \in DOMAIN M, NEW c \in M[p].children
               PROVE  \E h \in DOMAIN M : M[h].uuid = c /\ M[h].parent = M[p].uuid
    BY DEF Listed
  <2>1. p \in DOMAIN L /\ p \notin gone /\ c \in L[p].children
    BY <1>3, <1>4
  <2>2. PICK h \in DOMAIN L : L[h].uuid = c /\ L[h].parent = L[p].uuid
    BY <1>1, <2>1 DEF Listed
  <2>3. h \notin gone
    BY <1>4, <1>b, <1>c, <2>1, <2>2
  <2>4. h \notin orphans
    <3> SUFFICES ASSUME NEW g \in gone, L[h].uuid \in L[g].children PROVE FALSE
      BY <1>a
    <3>1. L[h].parent = L[g].uuid
      BY <1>1 DEF Listed, Linked
    <3> QED
      BY <1>1, <2>1, <2>2, <3>1 DEF Linked
  <2> QED
    BY <1>3, <1>4, <2>1, <2>2, <2>3, <2>4
<1>e. Rooted(M)
  <2> SUFFICES ASSUME NEW X \in SUBSET DOMAIN M, X # {}
               PROVE  \E x \in X : FindEntityByUUID(M, M[x].parent) \cap X = {}
    BY DEF Rooted
  <2>1. PICK x \in X : FindEntityByUUID(L, L[x].parent) \cap X = {}
    BY <1>1, <1>3 DEF Rooted
  <2>2. \A g \in DOMAIN M : g \in DOMAIN L /\ M[g].uuid = L[g].uuid /\ M[g].uuid # 0
    BY <1>1, <1>3, <1>4 DEF Node
  <2>3. FindEntityByUUID(M, M[x].parent) \subseteq FindEntityByUUID(L, L[x].parent)
    BY <1>4, <2>2 DEF FindEntityByUUID
  <2> QED
    BY <2>1, <2>3
<1>11. ASSUME NEW h \in DOMAIN M \ D
       PROVE  /\ h \in DOMAIN L /\ M[h].parent = L[h].parent /\ M[h].local = L[h].local
              /\ M[h].world = L[h].world
              /\ FindEntityByUUID(M, M[h].parent) = FindEntityByUUID(L, L[h].parent)
  <2>1. h \notin orphans /\ h \in DOMAIN L /\ M[h].parent = L[h].parent
    BY <1>3, <1>4
  <2>2. ASSUME NEW g \in DOMAIN L, L[g].uuid = L[h].parent PROVE g \in DOMAIN M
    <3>1. L[h].parent # 0
      BY <1>1, <2>2 DEF Node
    <3>2. PICK p \in DOMAIN M : L[p].uuid = L[h].parent
      BY <1>9, <2>1, <3>1
    <3> QED
      BY <1>1, <1>3, <2>2, <3>2 DEF Linked
  <2>3. FindEntityByUUID(M, L[h].parent) = FindEntityByUUID(L, L[h].parent)
    BY <1>3, <1>4, <2>2 DEF FindEntityByUUID
  <2> QED
    BY <1>4, <2>1, <2>3
<1> HIDE DEF D, T
<1>12. SceneOK(T, n, from) /\ T.live = M /\ SameFrame(S, T)
  BY <1>2, <1>3, <1>8, <1>10, <1>d, <1>e, <1>11, MarkedKeeps DEF L
<1>13. Shrinks(S.live, T.live)
  BY <1>3, <1>4, <1>12 DEF Shrinks, L
<1> QED
  BY <1>12, <1>13 DEF T

\* Entities change in place, and those that move are marked.
LEMMA TouchKeeps ==
  ASSUME NEW S, NEW n \in Nat, NEW from, SceneOK(S, n, from),
         NEW M, Registry(M, n), DOMAIN M = DOMAIN S.live,
         \A g \in DOMAIN M : /\ M[g].uuid = S.live[g].uuid /\ M[g].parent = S.live[g].parent
                             /\ M[g].children = S.live[g].children,
         NEW marked \in SUBSET DOMAIN M,
         \A g \in DOMAIN M \ marked : M[g].local = S.live[g].local /\ M[g].world = S.live[g].world
  PROVE  LET T == Marked(S, M, marked)
         IN  SceneOK(T, n, from) /\ T.live = M /\ SameFrame(S, T) /\ Shrinks(S.live, T.live)
<1> DEFINE L == S.live
           T == Marked(S, M, marked)
<1>1. Linked(L) /\ Listed(L) /\ Rooted(L)
  BY DEF SceneOK
<1>2. Linked(M)
  BY <1>1 DEF Linked
<1>a. Listed(M)
  BY <1>1 DEF Listed
<1>3. \A u : FindEntityByUUID(M, u) = FindEntityByUUID(L, u)
  BY DEF FindEntityByUUID
<1>4. \A g \in DOMAIN M \ marked :
        /\ g \in DOMAIN L /\ M[g].parent = L[g].parent /\ M[g].local = L[g].local /\ M[g].world = L[g].world
        /\ FindEntityByUUID(M, M[g].parent) = FindEntityByUUID(L, L[g].parent)
  BY <1>3
<1>b. Rooted(M)
  BY <1>1, <1>3 DEF Rooted
<1> HIDE DEF T
<1>5. SceneOK(T, n, from) /\ T.live = M /\ SameFrame(S, T)
  BY <1>2, <1>a, <1>b, <1>4, MarkedKeeps DEF L, T
<1>6. Shrinks(S.live, T.live)
  BY <1>5 DEF Shrinks, L
<1> QED
  BY <1>5, <1>6 DEF T

\* RecomputeDirty: what changed and all under it is computed anew, so that every cached
\* world transform is right and nothing is left to be read.
LEMMA RecomputeKeeps ==
  ASSUME NEW L, NEW B, NEW n \in Nat, NEW from, SceneOK([live |-> L, changes |-> B], n, from)
  PROVE  LET dirty == CollectSubtree(L, Unread(B, from) \cap DOMAIN L)
             M     == [h \in DOMAIN L |-> IF h \in dirty THEN [L[h] EXCEPT !.world = WorldFromLocals(L, h)]
                                         ELSE L[h]]
         IN  /\ SceneOK([live |-> M, changes |-> B], n, HeadOf(B))
             /\ DOMAIN M = DOMAIN L
             /\ \A h \in DOMAIN M : M[h].uuid = L[h].uuid /\ M[h].script = L[h].script
             /\ \A h \in DOMAIN M : M[h].world = WorldFromLocals(M, h)
<1> DEFINE unread == Unread(B, from)
           dirty  == CollectSubtree(L, unread \cap DOMAIN L)
           M      == [h \in DOMAIN L |-> IF h \in dirty THEN [L[h] EXCEPT !.world = WorldFromLocals(L, h)]
                                        ELSE L[h]]
           T      == [live |-> M, changes |-> B]
<1>1. /\ L \in [DOMAIN L -> Node] /\ DOMAIN L \subseteq 1..n /\ Registry(L, n)
      /\ Linked(L) /\ Listed(L) /\ Rooted(L)
      /\ Log(B, from) /\ WorldsKnown(L, unread)
  BY DEF SceneOK, Registry
<1>2. M = [h \in DOMAIN L |-> IF h \in dirty THEN [L[h] EXCEPT !.world = WorldFromLocals(L, h)] ELSE L[h]]
  OBVIOUS
<1>3. unread \cap DOMAIN L \subseteq dirty /\ DownClosed(L, dirty) /\ dirty \in SUBSET DOMAIN L
  BY SubtreeIsDownClosed
<1> HIDE DEF unread, dirty, M, T
<1>4. \A h \in DOMAIN L : WorldFromLocals(L, h) \in World /\ L[h] \in Node
  BY <1>1, WorldIsWorld
<1>5. DOMAIN M = DOMAIN L /\ M = [h \in DOMAIN M |-> M[h]]
  BY <1>2, Zenon
<1>6. ASSUME NEW h \in DOMAIN L
      PROVE  /\ M[h] \in Node /\ M[h].uuid = L[h].uuid /\ M[h].parent = L[h].parent
             /\ M[h].children = L[h].children /\ M[h].local = L[h].local /\ M[h].script = L[h].script
             /\ M[h].world = IF h \in dirty THEN WorldFromLocals(L, h) ELSE L[h].world
  <2> DEFINE w == WorldFromLocals(L, h)
  <2>1. w \in World /\ L[h] \in Node /\ M[h] = IF h \in dirty THEN [L[h] EXCEPT !.world = w] ELSE L[h]
    BY <1>2, <1>4
  <2> HIDE DEF w
  <2>2. /\ M[h] \in Node /\ M[h].uuid = L[h].uuid /\ M[h].parent = L[h].parent
        /\ M[h].children = L[h].children /\ M[h].local = L[h].local /\ M[h].script = L[h].script
        /\ M[h].world = IF h \in dirty THEN w ELSE L[h].world
    <3>1. CASE h \in dirty
      BY <2>1, <3>1 DEF Node
    <3>2. CASE h \notin dirty
      BY <2>1, <3>2 DEF Node
    <3> QED
      BY <3>1, <3>2
  <2> QED
    BY <2>2 DEF w
<1>7. Registry(M, n) /\ Linked(M)
  <2>1. \A h \in DOMAIN M : M[h] \in Node
    BY <1>5, <1>6
  <2>2. Registry(M, n)
    BY <1>1, <1>5, <2>1 DEF Registry
  <2>3. Linked(M)
    BY <1>1, <1>5, <1>6 DEF Linked
  <2> QED
    BY <2>2, <2>3
<1>8. \A u : FindEntityByUUID(M, u) = FindEntityByUUID(L, u)
  BY <1>5, <1>6 DEF FindEntityByUUID
<1>a. Listed(M)
  BY <1>1, <1>5, <1>6 DEF Listed
<1>b. Rooted(M)
  BY <1>1, <1>5, <1>6, <1>8 DEF Rooted
<1>9. ASSUME NEW h \in DOMAIN L
      PROVE  WorldFromLocals(L, h) = WorldFromLocals(M, h)
  <2>1. h \in DOMAIN M /\ Above(M, h) \subseteq DOMAIN M
    BY <1>5, AboveIsUpClosed
  <2>2. \A a \in Above(M, h) :
          /\ a \in DOMAIN L /\ M[a].parent = L[a].parent /\ M[a].local = L[a].local
          /\ FindEntityByUUID(M, M[a].parent) = FindEntityByUUID(L, L[a].parent)
    BY <1>5, <1>6, <1>8, <2>1
  <2> QED
    BY <2>1, <2>2, AboveAgrees
<1>10. ASSUME NEW h \in DOMAIN L, h \notin dirty
       PROVE  L[h].world = WorldFromLocals(L, h)
  <2> SUFFICES ASSUME NEW a \in Above(L, h), a \in unread PROVE FALSE
    BY <1>1 DEF WorldsKnown
  <2>1. a \in DOMAIN L
    BY AboveIsUpClosed
  <2>2. a \in dirty
    BY <1>3, <2>1
  <2>3. \A g \in DOMAIN L : L[g].uuid # 0
    BY <1>4 DEF Node
  <2> QED
    BY <1>1, <1>3, <1>10, <2>2, <2>3, UnderWhatIsAbove
<1>11. \A h \in DOMAIN M : M[h].world = WorldFromLocals(M, h)
  BY <1>5, <1>6, <1>9, <1>10
<1>12. Log(B, HeadOf(B))
  BY <1>1 DEF Log, HandleLog, HeadOf
<1>13. SceneOK(T, n, HeadOf(B))
  <2>1. T.live = M /\ T.changes = B /\ T = [live |-> T.live, changes |-> T.changes]
    BY DEF T
  <2>2. WorldsKnown(M, Unread(B, HeadOf(B)))
    BY <1>11 DEF WorldsKnown
  <2> QED
    BY <1>7, <1>a, <1>b, <1>12, <2>1, <2>2 DEF SceneOK
<1> QED
  BY <1>5, <1>6, <1>11, <1>13 DEF T, M, dirty, unread

-----------------------------------------------------------------------------
(* Instances of scripts *)

HandlesOK ==
  /\ minted \in Nat
  /\ DOMAIN live \subseteq 1..minted /\ DOMAIN lua.names \subseteq 1..minted
  /\ \A f \in fini : f.handle \in 1..minted

\* A handle Lua knows has a script, or an event says that it lost it.
NamesOK ==
  /\ \A h \in DOMAIN lua.names :
       /\ h \in DOMAIN live => lua.names[h] = live[h].uuid
       /\ h \in WithScript \/ \E f \in fini : f.handle = h
  /\ \A uuid \in lua.byUUID : \E h \in DOMAIN lua.names : lua.names[h] = uuid

\* An event has the UUID of its handle.
EventsOK ==
  \A f \in fini :
    /\ f.handle \in DOMAIN live => f.uuid = live[f.handle].uuid
    /\ f.handle \in DOMAIN lua.names => f.uuid = lua.names[f.handle]

\* A script has its instance, or an event says that it is to be made or that one went.
ScriptsOK ==
  \A h \in WithScript :
    live[h].uuid \in lua.byUUID \cup reborn \cup {f.uuid : f \in fini} \/ h \in init

InstancesInv == HandlesOK /\ NamesOK /\ EventsOK /\ ScriptsOK

\* Whatever entities come and go, their handles new and their UUIDs kept.
LEMMA SignalsKeep ==
  ASSUME InstancesInv, Signals, minted' \in Nat, minted' >= minted,
         DOMAIN live' \subseteq DOMAIN live \cup (minted + 1..minted'),
         \A h \in DOMAIN live \cap DOMAIN live' : live'[h].uuid = live[h].uuid
  PROVE  InstancesInv'
<1> DEFINE event(h) == [handle |-> h, uuid |-> live[h].uuid]
<1>1. /\ init' = init \cup (WithScript' \ WithScript)
      /\ fini' = fini \cup {event(h) : h \in WithScript \ WithScript'}
      /\ lua' = lua /\ reborn' = reborn
  BY DEF Signals
<1>2. /\ HandlesOK /\ NamesOK /\ EventsOK /\ ScriptsOK
  BY DEF InstancesInv
<1>3. \A h \in 1..minted : h \in 1..minted' /\ h \notin minted + 1..minted'
  BY <1>2 DEF HandlesOK
<1>4. \A h \in 1..minted : h \in DOMAIN live' => h \in DOMAIN live /\ live'[h].uuid = live[h].uuid
  BY <1>1, <1>3
<1>5. WithScript \subseteq DOMAIN live /\ WithScript' \subseteq DOMAIN live'
  BY DEF WithScript
<1>6. \A f \in fini' : f \in fini \/ \E h \in WithScript \ WithScript' : f = event(h)
  BY <1>1
<1>7. HandlesOK'
  <2>1. \A h \in minted + 1..minted' : h \in 1..minted'
    BY <1>2 DEF HandlesOK
  <2>2. DOMAIN live' \subseteq 1..minted'
    BY <1>2, <1>3, <2>1 DEF HandlesOK
  <2>3. \A f \in fini' : f.handle \in 1..minted
    BY <1>2, <1>5, <1>6 DEF HandlesOK
  <2> QED
    BY <1>1, <1>2, <1>3, <2>2, <2>3 DEF HandlesOK
<1>8. NamesOK'
  <2>1. ASSUME NEW h \in DOMAIN lua.names
        PROVE  /\ h \in DOMAIN live' => lua.names[h] = live'[h].uuid
               /\ h \in WithScript' \/ \E f \in fini' : f.handle = h
    <3>1. h \in 1..minted
      BY <1>2 DEF HandlesOK
    <3>2. h \in DOMAIN live' => lua.names[h] = live'[h].uuid
      BY <1>2, <1>4, <3>1 DEF NamesOK
    <3>3. CASE h \in WithScript \ WithScript'
      <4>1. event(h) \in fini' /\ event(h).handle = h
        BY <1>1, <3>3
      <4> QED
        BY <3>2, <4>1
    <3>4. CASE h \notin WithScript \ WithScript'
      BY <1>1, <1>2, <3>2, <3>4 DEF NamesOK
    <3> QED
      BY <3>3, <3>4
  <2> QED
    BY <1>1, <1>2, <2>1 DEF NamesOK
<1>9. EventsOK'
  <2> SUFFICES ASSUME NEW f \in fini'
               PROVE  /\ f.handle \in DOMAIN live' => f.uuid = live'[f.handle].uuid
                      /\ f.handle \in DOMAIN lua.names => f.uuid = lua.names[f.handle]
    BY <1>1 DEF EventsOK
  <2>1. CASE f \in fini
    BY <1>2, <1>4, <2>1 DEF HandlesOK, EventsOK
  <2>2. ASSUME NEW h \in WithScript \ WithScript', f = event(h)
        PROVE  /\ f.handle \in DOMAIN live' => f.uuid = live'[f.handle].uuid
               /\ f.handle \in DOMAIN lua.names => f.uuid = lua.names[f.handle]
    <3>1. h \in DOMAIN live /\ f.handle = h /\ f.uuid = live[h].uuid
      BY <1>5, <2>2
    <3> QED
      BY <1>2, <3>1 DEF NamesOK
  <2> QED
    BY <1>6, <2>1, <2>2
<1>10. ScriptsOK'
  <2> SUFFICES ASSUME NEW h \in WithScript'
               PROVE  live'[h].uuid \in lua.byUUID \cup reborn \cup {f.uuid : f \in fini'} \/ h \in init'
    BY <1>1 DEF ScriptsOK
  <2>1. CASE h \in WithScript
    <3>1. live'[h].uuid = live[h].uuid
      BY <1>5, <2>1
    <3>2. {f.uuid : f \in fini} \subseteq {f.uuid : f \in fini'}
      BY <1>1
    <3>3. live[h].uuid \in lua.byUUID \cup reborn \cup {f.uuid : f \in fini} \/ h \in init
      BY <1>2, <2>1 DEF ScriptsOK
    <3> QED
      BY <1>1, <3>1, <3>2, <3>3
  <2>2. CASE h \notin WithScript
    BY <1>1, <2>2
  <2> QED
    BY <2>1, <2>2
<1> QED
  BY <1>7, <1>8, <1>9, <1>10 DEF InstancesInv

\* Nothing is told where the scripts stay as they are.
LEMMA SameScriptsKeep ==
  ASSUME InstancesInv, DOMAIN live' = DOMAIN live,
         \A h \in DOMAIN live : live'[h].uuid = live[h].uuid /\ live'[h].script = live[h].script,
         minted' = minted, UNCHANGED instanceVars \/ Signals
  PROVE  InstancesInv' /\ (OneEach => OneEach')
<1>1. WithScript' = WithScript /\ WithScript \subseteq DOMAIN live
  BY DEF WithScript
<1>2. Scripted' = Scripted
  BY <1>1 DEF Scripted
<1>3. init' = init /\ fini' = fini /\ lua' = lua /\ reborn' = reborn
  BY <1>1 DEF Signals, instanceVars
<1>4. InstancesInv'
  BY <1>1, <1>3 DEF InstancesInv, HandlesOK, NamesOK, EventsOK, ScriptsOK
<1>5. ASSUME OneEach PROVE OneEach'
  BY <1>1, <1>2, <1>3, <1>5 DEF OneEach
<1> QED
  BY <1>4, <1>5

\* What the events say is done when the views are drained, and Lua's instances are the
\* scripts there are.
LEMMA DrainKeeps ==
  ASSUME InstancesInv, DrainReactiveViews, UNCHANGED <<live, minted>>
  PROVE  InstancesInv' /\ OneEach'
<1> DEFINE made  == {h \in init \cap WithScript : live[h].uuid \notin lua.byUUID}
           names == [h \in DOMAIN lua.names \cup made |->
                       IF h \in made THEN live[h].uuid ELSE lua.names[h]]
           gone  == {f.handle : f \in fini} \cap DOMAIN names
           told  == (lua.byUUID \cup {names[h] : h \in made}) \ {names[h] : h \in gone}
<1>1. /\ UNCHANGED <<live, minted, init, fini>>
      /\ lua'.byUUID = told
      /\ DOMAIN lua'.names = DOMAIN names \ gone
      /\ \A h \in DOMAIN names \ gone : lua'.names[h] = names[h]
      /\ reborn' = Scripted \cap (reborn \cup {f.uuid : f \in fini})
  BY DEF DrainReactiveViews, Restrict
<1>2. /\ HandlesOK /\ NamesOK /\ EventsOK /\ ScriptsOK
  BY DEF InstancesInv
<1>3. /\ WithScript \subseteq DOMAIN live /\ WithScript' = WithScript /\ Scripted' = Scripted
      /\ Scripted = {live[h].uuid : h \in WithScript} /\ made \subseteq WithScript
  BY <1>1 DEF WithScript, Scripted
<1>4. /\ DOMAIN names = DOMAIN lua.names \cup made
      /\ \A h \in made : names[h] = live[h].uuid
      /\ \A h \in DOMAIN lua.names : names[h] = lua.names[h]
  BY <1>2, <1>3 DEF NamesOK
<1>5. \A h \in DOMAIN names : h \in gone <=> \E f \in fini : f.handle = h
  OBVIOUS
<1>6. \A f \in fini : f.handle \in DOMAIN names => f.uuid = names[f.handle]
  BY <1>2, <1>3, <1>4 DEF EventsOK
<1>7. \A uuid \in told : uuid \in lua.byUUID \/ \E h \in made : uuid = live[h].uuid
  BY <1>4
<1>8. \A h \in gone : names[h] \notin told
  OBVIOUS
<1>9. \A uuid : (uuid \in lua.byUUID \/ \E h \in made : uuid = live[h].uuid) =>
                uuid \in told \/ \E f \in fini : f.uuid = uuid
  <2> SUFFICES ASSUME NEW uuid, uuid \in lua.byUUID \/ \E h \in made : uuid = live[h].uuid,
                      uuid \notin told
               PROVE  \E f \in fini : f.uuid = uuid
    OBVIOUS
  <2>1. PICK h \in gone : names[h] = uuid
    BY <1>4
  <2>2. PICK f \in fini : f.handle = h
    BY <2>1
  <2> QED
    BY <1>6, <2>1, <2>2
<1> HIDE DEF made, names, gone, told
<1>10. \A h \in DOMAIN names \ gone : h \in WithScript /\ names[h] = live[h].uuid
  BY <1>2, <1>3, <1>4, <1>5 DEF NamesOK
<1>11. \A uuid \in told : \E h \in DOMAIN names \ gone : names[h] = uuid
  <2> SUFFICES ASSUME NEW uuid \in told PROVE \E h \in DOMAIN names \ gone : names[h] = uuid
    OBVIOUS
  <2>1. \E h \in DOMAIN names : names[h] = uuid
    BY <1>2, <1>4, <1>7 DEF NamesOK
  <2> QED
    BY <1>8, <2>1
<1>12. HandlesOK'
  BY <1>1, <1>2, <1>3, <1>4 DEF HandlesOK
<1>13. NamesOK'
  BY <1>1, <1>3, <1>10, <1>11 DEF NamesOK
<1>14. EventsOK'
  BY <1>1, <1>2, <1>5 DEF EventsOK
<1>15. \A h \in WithScript : live[h].uuid \in told \cup reborn'
  <2> SUFFICES ASSUME NEW h \in WithScript, live[h].uuid \notin reborn'
               PROVE  live[h].uuid \in told
    OBVIOUS
  <2>1. live[h].uuid \in Scripted
    BY <1>3
  <2>2. live[h].uuid \notin reborn /\ ~\E f \in fini : f.uuid = live[h].uuid
    BY <1>1, <2>1
  <2>3. live[h].uuid \in lua.byUUID \/ h \in init
    BY <1>2, <2>2 DEF ScriptsOK
  <2>4. live[h].uuid \in lua.byUUID \/ h \in made
    BY <2>3 DEF made
  <2> QED
    BY <1>9, <2>2, <2>4
<1>16. ScriptsOK'
  BY <1>1, <1>3, <1>15 DEF ScriptsOK
<1>17. OneEach'
  <2>1. told \subseteq Scripted
    BY <1>3, <1>10, <1>11
  <2>2. Scripted \ reborn' \subseteq told
    BY <1>3, <1>15
  <2> QED
    BY <1>1, <1>3, <1>10, <1>11, <2>1, <2>2 DEF OneEach
<1> QED
  BY <1>12, <1>13, <1>14, <1>16, <1>17 DEF InstancesInv

\* What happened in the frame is forgotten, having been told.
LEMMA ClearKeeps ==
  ASSUME InstancesInv, OneEach, ClearEvents, UNCHANGED <<live, minted>>
  PROVE  InstancesInv'
<1>1. /\ init' = {} /\ fini' = {} /\ UNCHANGED <<live, minted, lua, reborn>>
      /\ HandlesOK /\ NamesOK
  BY DEF ClearEvents, InstancesInv
<1>2. /\ WithScript' = WithScript
      /\ \A h \in WithScript : live[h].uuid \in Scripted
  BY <1>1 DEF WithScript, Scripted
<1>3. HandlesOK' /\ EventsOK'
  BY <1>1 DEF HandlesOK, EventsOK
<1>4. NamesOK'
  BY <1>1, <1>2 DEF NamesOK, OneEach
<1>5. ScriptsOK'
  BY <1>1, <1>2 DEF ScriptsOK, OneEach
<1> QED
  BY <1>3, <1>4, <1>5 DEF InstancesInv

-----------------------------------------------------------------------------
(* The frame *)

FrameTypeOK ==
  /\ minted \in Nat /\ uuids \in Nat
  /\ commands \in [create : Seq(Nat \ {0}), destroy : SUBSET Nat]
  /\ at \in {"between", "begun", "updating", "drawn"}

\* What is to be created has UUIDs no one has.
UuidsOK ==
  /\ \A h \in DOMAIN live : live[h].uuid <= uuids
  /\ \A i \in 1..Len(commands.create) :
       /\ commands.create[i] <= uuids
       /\ \A h \in DOMAIN live : live[h].uuid # commands.create[i]
  /\ \A i, j \in 1..Len(commands.create) : commands.create[i] = commands.create[j] => i = j

\* Between frames the frame's view has been read.
CursorOK == at \in {"between", "drawn"} => read >= changes.currStart

FrameInv ==
  /\ FrameTypeOK /\ UuidsOK /\ CursorOK
  /\ SceneOK(Scene, minted, read)
  /\ InstancesInv
  /\ WorldIsCurrent /\ InstancesAreScripts

LEMMA FrameInitHolds == FrameInit => FrameInv
<1> SUFFICES ASSUME FrameInit PROVE FrameInv
  OBVIOUS
<1>1. PICK script \in [1..2 -> BOOLEAN] :
        LET L == [h \in 1..2 |-> IF h = 1 THEN [NewEntity(1, script[1]) EXCEPT !.children = {2}]
                                 ELSE [NewEntity(2, script[2]) EXCEPT !.parent = 1]]
        IN  live = [h \in 1..2 |-> [L[h] EXCEPT !.world = WorldFromLocals(L, h)]]
  BY DEF FrameInit
<1> DEFINE L == [h \in 1..2 |-> IF h = 1 THEN [NewEntity(1, script[1]) EXCEPT !.children = {2}]
                                ELSE [NewEntity(2, script[2]) EXCEPT !.parent = 1]]
<1>2. /\ live = [h \in 1..2 |-> [L[h] EXCEPT !.world = WorldFromLocals(L, h)]]
      /\ InstancesInit /\ minted = 2 /\ uuids = 2 /\ changes = NewBuffer /\ read = 1
      /\ commands = [create |-> <<>>, destroy |-> {}] /\ at = "between"
  BY <1>1 DEF FrameInit
<1>3. <<>> \in World
  <2>1. <<>> \in [{} -> [parent : Nat, local : Int]]
    OBVIOUS
  <2> QED
    BY <2>1 DEF World
<1>4. \A h \in 1..2 :
        /\ L[h] \in Node /\ L[h].uuid = h /\ L[h].local = 0
        /\ L[h].parent = IF h = 1 THEN 0 ELSE 1
        /\ L[h].children = IF h = 1 THEN {2} ELSE {}
  BY <1>3 DEF NewEntity, Node
<1>5. DOMAIN L = 1..2
  OBVIOUS
<1> HIDE DEF L
<1>6. Registry(L, 2)
  <2>1. L = [h \in DOMAIN L |-> L[h]]
    BY DEF L
  <2> QED
    BY <1>4, <1>5, <2>1 DEF Registry
<1>7. \A h \in DOMAIN L : WorldFromLocals(L, h) \in World
  BY <1>6, WorldIsWorld
<1>8. \A h \in 1..2 :
        /\ live[h] \in Node /\ live[h].uuid = h /\ live[h].parent = L[h].parent
        /\ live[h].children = L[h].children /\ live[h].local = L[h].local
        /\ live[h].world = WorldFromLocals(L, h)
  <2> TAKE h \in 1..2
  <2> DEFINE w == WorldFromLocals(L, h)
  <2>1. w \in World /\ L[h] \in Node /\ live[h] = [L[h] EXCEPT !.world = w] /\ L[h].uuid = h
    BY <1>2, <1>4, <1>5, <1>7
  <2> HIDE DEF w
  <2>2. /\ live[h] \in Node /\ live[h].uuid = h /\ live[h].parent = L[h].parent
        /\ live[h].children = L[h].children /\ live[h].local = L[h].local /\ live[h].world = w
    BY <2>1 DEF Node
  <2> QED
    BY <2>2 DEF w
<1>9. DOMAIN live = 1..2 /\ live = [h \in DOMAIN live |-> live[h]]
  BY <1>2
<1>10. Registry(live, 2)
  BY <1>8, <1>9 DEF Registry
<1>11. Linked(live)
  BY <1>4, <1>8, <1>9 DEF Linked
<1>a. Listed(live)
  <2>1. \A p \in 1..2 : live[p].children = IF p = 1 THEN {2} ELSE {}
    BY <1>4, <1>8
  <2>2. live[2].uuid = 2 /\ live[2].parent = live[1].uuid
    BY <1>4, <1>8
  <2> QED
    BY <1>9, <2>1, <2>2 DEF Listed
<1>b. Rooted(live)
  <2> SUFFICES ASSUME NEW X \in SUBSET DOMAIN live, X # {}
               PROVE  \E x \in X : FindEntityByUUID(live, live[x].parent) \cap X = {}
    BY DEF Rooted
  <2>1. \A h \in 1..2 : live[h].uuid = h /\ live[h].parent = IF h = 1 THEN 0 ELSE 1
    BY <1>4, <1>8
  <2>2. CASE 1 \in X
    BY <1>9, <2>1, <2>2 DEF FindEntityByUUID
  <2>3. CASE 1 \notin X
    <3>1. X = {2}
      BY <1>9, <2>3
    <3> QED
      BY <1>9, <2>1, <3>1 DEF FindEntityByUUID
  <2> QED
    BY <2>2, <2>3
<1>12. \A h \in DOMAIN live : live[h].world = WorldFromLocals(live, h)
  <2> TAKE h \in DOMAIN live
  <2>1. \A u : FindEntityByUUID(live, u) = FindEntityByUUID(L, u)
    BY <1>4, <1>5, <1>8, <1>9 DEF FindEntityByUUID
  <2>2. Above(live, h) \subseteq DOMAIN live
    BY AboveIsUpClosed
  <2>3. \A a \in Above(live, h) :
          /\ a \in DOMAIN L /\ live[a].parent = L[a].parent /\ live[a].local = L[a].local
          /\ FindEntityByUUID(live, live[a].parent) = FindEntityByUUID(L, L[a].parent)
    BY <1>5, <1>8, <1>9, <2>1, <2>2
  <2>4. WorldFromLocals(L, h) = WorldFromLocals(live, h)
    BY <2>3, AboveAgrees
  <2> QED
    BY <1>8, <1>9, <2>4
<1>13. <<>> \in Seq(Nat) /\ <<>> \in Seq(Nat \ {0}) /\ Len(<<>>) = 0
  OBVIOUS
<1>14. Log(changes, read)
  BY <1>2, <1>13 DEF Log, HandleLog, HeadOf, NewBuffer
<1>15. SceneOK(Scene, minted, read)
  BY <1>2, <1>10, <1>11, <1>a, <1>b, <1>12, <1>14 DEF SceneOK, Scene, WorldsKnown
<1>16. FrameTypeOK /\ UuidsOK /\ CursorOK
  <2>1. commands.create = <<>> /\ commands \in [create : Seq(Nat \ {0}), destroy : SUBSET Nat]
    BY <1>2, <1>13
  <2>2. FrameTypeOK /\ CursorOK
    BY <1>2, <2>1 DEF FrameTypeOK, CursorOK, NewBuffer
  <2>3. \A h \in DOMAIN live : live[h].uuid <= uuids
    <3>1. \A h \in 1..2 : live[h].uuid = h
      BY <1>8
    <3>2. DOMAIN live = 1..2 /\ uuids = 2
      BY <1>2, <1>9
    <3> QED
      BY ONLY <3>1, <3>2
  <2>4. UuidsOK
    BY <1>13, <2>1, <2>3 DEF UuidsOK
  <2> QED
    BY <2>2, <2>4
<1>17. InstancesInv
  <2>1. /\ fini = {} /\ lua.byUUID = Scripted /\ DOMAIN lua.names = WithScript
        /\ \A h \in WithScript : lua.names[h] = live[h].uuid
        /\ WithScript \subseteq DOMAIN live /\ Scripted = {live[h].uuid : h \in WithScript}
    BY <1>2 DEF InstancesInit, WithScript, Scripted
  <2> QED
    <3>1. HandlesOK
      BY <1>2, <1>9, <2>1 DEF HandlesOK
    <3>2. NamesOK /\ EventsOK /\ ScriptsOK
      BY <2>1 DEF NamesOK, EventsOK, ScriptsOK
    <3> QED
      BY <3>1, <3>2 DEF InstancesInv
<1>18. WorldIsCurrent /\ InstancesAreScripts
  BY <1>2, <1>14 DEF WorldIsCurrent, InstancesAreScripts, Log, NewBuffer
<1> QED
  BY <1>15, <1>16, <1>17, <1>18 DEF FrameInv

\* A change between frames by which no entity is new, or one within a frame that concerns
\* no script.
LEMMA ChangedKeeps ==
  ASSUME FrameInv, UNCHANGED <<minted, uuids, read, commands, at>>, Signals,
         SceneOK(Scene, minted, read)', SameFrame(Scene, Scene'), Shrinks(live, live'),
         \/ at = "between"
         \/ at # "drawn" /\ DOMAIN live' = DOMAIN live
            /\ \A h \in DOMAIN live : live'[h].script = live[h].script
  PROVE  FrameInv'
<1>1. /\ FrameTypeOK /\ UuidsOK /\ CursorOK /\ InstancesInv /\ WorldIsCurrent /\ InstancesAreScripts
  BY DEF FrameInv
<1>2. DOMAIN live' \subseteq DOMAIN live /\ \A h \in DOMAIN live' : live'[h].uuid = live[h].uuid
  BY DEF Shrinks
<1>3. changes'.prevStart = changes.prevStart /\ changes'.currStart = changes.currStart
  BY DEF SameFrame, Scene
<1>4. FrameTypeOK' /\ UuidsOK' /\ CursorOK'
  BY <1>1, <1>2, <1>3 DEF FrameTypeOK, UuidsOK, CursorOK
<1>5. InstancesInv' /\ InstancesAreScripts'
  <2>1. CASE at = "between"
    <3>1. minted \in Nat /\ DOMAIN live' \subseteq DOMAIN live \cup (minted + 1..minted')
      BY <1>1, <1>2 DEF FrameTypeOK
    <3>2. InstancesInv'
      BY <1>1, <1>2, <3>1, SignalsKeep
    <3> QED
      BY <2>1, <3>2 DEF InstancesAreScripts
  <2>2. CASE DOMAIN live' = DOMAIN live /\ \A h \in DOMAIN live : live'[h].script = live[h].script
    BY <1>1, <1>2, <2>2, SameScriptsKeep DEF InstancesAreScripts
  <2> QED
    BY <2>1, <2>2
<1>6. WorldIsCurrent'
  BY <1>1, <1>3 DEF WorldIsCurrent
<1> QED
  BY <1>4, <1>5, <1>6 DEF FrameInv

LEMMA MoveHolds ==
  ASSUME FrameInv, NEW h, Move(h)
  PROVE  FrameInv'
<1> DEFINE M == [live EXCEPT ![h].local = 1 - @]
           T == Marked(Scene, M, {h})
<1>1. /\ at # "drawn" /\ h \in DOMAIN live /\ live' = T.live /\ changes' = T.changes
      /\ Signals /\ UNCHANGED <<minted, uuids, read, commands, at>>
  BY DEF Move, Change, Become
<1>2. /\ SceneOK(Scene, minted, read) /\ Scene.live = live /\ minted \in Nat
      /\ live \in [DOMAIN live -> Node] /\ DOMAIN live \subseteq 1..minted
  BY DEF FrameInv, FrameTypeOK, SceneOK, Scene, Registry
<1>3. /\ DOMAIN M = DOMAIN live /\ M \in [DOMAIN M -> Node]
      /\ \A g \in DOMAIN M : /\ M[g].uuid = live[g].uuid /\ M[g].parent = live[g].parent
                             /\ M[g].children = live[g].children /\ M[g].script = live[g].script
                             /\ g # h => M[g] = live[g]
  BY <1>1, <1>2 DEF Node
<1> HIDE DEF M
<1>4. /\ Registry(M, minted) /\ {h} \in SUBSET DOMAIN M
      /\ \A g \in DOMAIN M \ {h} : M[g].local = live[g].local /\ M[g].world = live[g].world
  BY <1>1, <1>2, <1>3 DEF Registry
<1> DEFINE D == {h}
<1>5. T = Marked(Scene, M, D)
  OBVIOUS
<1> HIDE DEF D, T
<1>6. SceneOK(T, minted, read) /\ T.live = M /\ SameFrame(Scene, T) /\ Shrinks(live, T.live)
  BY <1>2, <1>3, <1>4, <1>5, TouchKeeps DEF D
<1>7. Scene' = T
  BY <1>1, <1>6 DEF Scene, SceneOK
<1> QED
  BY <1>1, <1>3, <1>6, <1>7, ChangedKeeps

LEMMA ToggleScriptHolds ==
  ASSUME FrameInv, NEW h, ToggleScript(h)
  PROVE  FrameInv'
<1> DEFINE M == [live EXCEPT ![h].script = ~@]
           T == Marked(Scene, M, {})
<1>1. /\ at = "between" /\ h \in DOMAIN live /\ live' = T.live /\ changes' = T.changes
      /\ Signals /\ UNCHANGED <<minted, uuids, read, commands, at>>
  BY DEF ToggleScript, Change, Become
<1>2. /\ SceneOK(Scene, minted, read) /\ Scene.live = live /\ minted \in Nat
      /\ live \in [DOMAIN live -> Node] /\ DOMAIN live \subseteq 1..minted
  BY DEF FrameInv, FrameTypeOK, SceneOK, Scene, Registry
<1>3. /\ DOMAIN M = DOMAIN live /\ M \in [DOMAIN M -> Node]
      /\ \A g \in DOMAIN M : /\ M[g].uuid = live[g].uuid /\ M[g].parent = live[g].parent
                             /\ M[g].children = live[g].children
                             /\ M[g].local = live[g].local /\ M[g].world = live[g].world
  BY <1>1, <1>2 DEF Node
<1> HIDE DEF M
<1>4. Registry(M, minted)
  BY <1>2, <1>3 DEF Registry
<1> HIDE DEF T
<1>5. SceneOK(T, minted, read) /\ T.live = M /\ SameFrame(Scene, T) /\ Shrinks(live, T.live)
  BY <1>2, <1>3, <1>4, TouchKeeps DEF T
<1>6. Scene' = T
  BY <1>1, <1>5 DEF Scene, SceneOK
<1> QED
  BY <1>1, <1>5, <1>6, ChangedKeeps

LEMMA ReparentHolds ==
  ASSUME FrameInv, NEW child, NEW parent, Reparent(child, parent)
  PROVE  FrameInv'
<1> DEFINE T == SetParent(Scene, child, parent)
<1>1. /\ at = "between" /\ child \in DOMAIN live /\ parent \in DOMAIN live \cup {0}
      /\ live' = T.live /\ changes' = T.changes
      /\ Signals /\ UNCHANGED <<minted, uuids, read, commands, at>>
  BY DEF Reparent, Change, Become
<1>2. SceneOK(Scene, minted, read) /\ Scene.live = live /\ minted \in Nat
  BY DEF FrameInv, FrameTypeOK, Scene
<1>3. SceneOK(T, minted, read) /\ SameFrame(Scene, T) /\ Shrinks(live, T.live)
  BY <1>1, <1>2, SetParentKeeps
<1> HIDE DEF T
<1>4. Scene' = T
  BY <1>1, <1>3 DEF Scene, SceneOK
<1> QED
  BY <1>1, <1>3, <1>4, ChangedKeeps

LEMMA DestroyHolds ==
  ASSUME FrameInv, NEW h, Destroy(h)
  PROVE  FrameInv'
<1>1. /\ at = "between" /\ h \in DOMAIN live /\ UNCHANGED <<minted, uuids>>
      /\ Change(DestroyEntities(Scene, {h})) \/ Change(DestroyTrees(Scene, {h}))
  BY DEF Destroy
<1>2. {h} \in SUBSET DOMAIN live /\ CollectSubtree(live, {h}) \in SUBSET DOMAIN live /\ Scene.live = live
  BY <1>1 DEF CollectSubtree, Scene
<1>3. PICK gone \in SUBSET DOMAIN live : Change(DestroyEntities(Scene, gone))
  BY <1>1, <1>2 DEF DestroyTrees
<1> DEFINE T == DestroyEntities(Scene, gone)
<1>4. /\ live' = T.live /\ changes' = T.changes
      /\ Signals /\ UNCHANGED <<read, commands, at>>
  BY <1>3 DEF Change, Become
<1>5. SceneOK(Scene, minted, read) /\ minted \in Nat
  BY DEF FrameInv, FrameTypeOK
<1>6. SceneOK(T, minted, read) /\ SameFrame(Scene, T) /\ Shrinks(live, T.live)
  BY <1>2, <1>5, DestroyKeeps
<1> HIDE DEF T
<1>7. Scene' = T
  BY <1>4, <1>6 DEF Scene, SceneOK
<1> QED
  BY <1>1, <1>4, <1>6, <1>7, ChangedKeeps

LEMMA NewEntityIsNode ==
  ASSUME NEW uuid \in Nat \ {0}, NEW script \in BOOLEAN
  PROVE  /\ NewEntity(uuid, script) \in Node
         /\ NewEntity(uuid, script).parent = 0 /\ NewEntity(uuid, script).children = {}
         /\ NewEntity(uuid, script).uuid = uuid
<1>1. <<>> \in [{} -> [parent : Nat, local : Int]]
  OBVIOUS
<1>2. <<>> \in World
  BY <1>1 DEF World
<1> QED
  BY <1>2 DEF NewEntity, Node

\* A scene has room for more handles.
LEMMA MoreHandles ==
  ASSUME NEW S, NEW n \in Nat, NEW m \in Nat, m >= n, NEW from, SceneOK(S, n, from)
  PROVE  SceneOK(S, m, from)
BY DEF SceneOK, Registry

LEMMA SpawnHolds ==
  ASSUME FrameInv, NEW uuid \in 1..uuids + 1, NEW script \in BOOLEAN, Spawn(uuid, script)
  PROVE  FrameInv'
<1> DEFINE created == [h \in {minted + 1} |-> NewEntity(uuid, script)]
           T       == CreateEntities(Scene, created)
<1>1. /\ at = "between" /\ FindEntityByUUID(live, uuid) = {} /\ uuid \notin ToSet(commands.create)
      /\ live' = T.live /\ changes' = T.changes /\ Signals
      /\ minted' = minted + 1 /\ uuids' = (IF uuid > uuids THEN uuid ELSE uuids)
      /\ UNCHANGED <<read, commands, at>>
  BY DEF Spawn, Change, Become
<1>2. /\ FrameTypeOK /\ UuidsOK /\ CursorOK /\ InstancesInv /\ WorldIsCurrent
      /\ SceneOK(Scene, minted, read) /\ Scene.live = live
  BY DEF FrameInv, Scene
<1>3. /\ minted \in Nat /\ minted' \in Nat /\ minted' >= minted /\ uuid \in Nat \ {0} /\ uuids \in Nat
      /\ DOMAIN live \subseteq 1..minted
  BY <1>1, <1>2 DEF FrameTypeOK, SceneOK, Registry
<1>4. SceneOK(Scene, minted', read)
  BY <1>2, <1>3, MoreHandles
<1>5. /\ DOMAIN created = {minted + 1} /\ created \in [DOMAIN created -> Node]
      /\ created[minted + 1].parent = 0 /\ created[minted + 1].children = {}
      /\ created[minted + 1].uuid = uuid
  BY <1>3, NewEntityIsNode
<1> HIDE DEF created
<1>6. DOMAIN created \subseteq 1..minted' /\ DOMAIN created \cap DOMAIN live = {}
  BY <1>1, <1>3, <1>5
<1>7. /\ \A h \in DOMAIN created : created[h].parent = 0 /\ created[h].children = {}
      /\ \A h \in DOMAIN created : FindEntityByUUID(live, created[h].uuid) = {}
      /\ \A g, h \in DOMAIN created : created[g].uuid = created[h].uuid => g = h
  BY <1>1, <1>5
<1>8. /\ SceneOK(T, minted', read) /\ SameFrame(Scene, T)
      /\ DOMAIN T.live = DOMAIN live \cup DOMAIN created
      /\ \A h \in DOMAIN created : T.live[h] = created[h]
      /\ \A h \in DOMAIN live : T.live[h] = live[h]
  <2>1. /\ DOMAIN created \subseteq 1..minted' /\ DOMAIN created \cap DOMAIN Scene.live = {}
        /\ \A h \in DOMAIN created : FindEntityByUUID(Scene.live, created[h].uuid) = {}
        /\ created \in [DOMAIN created -> Node] /\ minted' \in Nat
    BY <1>2, <1>3, <1>5, <1>6, <1>7
  <2>2. /\ SceneOK(T, minted', read) /\ SameFrame(Scene, T)
        /\ DOMAIN T.live = DOMAIN Scene.live \cup DOMAIN created
        /\ \A h \in DOMAIN created : T.live[h] = created[h]
        /\ \A h \in DOMAIN Scene.live : T.live[h] = Scene.live[h]
    BY ONLY SMTT(30), <1>4, <1>7, <2>1, CreateKeeps
  <2> QED
    BY <1>2, <2>2
<1> HIDE DEF T
<1>9. Scene' = T
  BY <1>1, <1>8 DEF Scene, SceneOK
<1>10. SceneOK(Scene, minted, read)'
  BY <1>1, <1>8, <1>9
<1>11. DOMAIN live' \subseteq DOMAIN live \cup (minted + 1..minted')
  BY <1>1, <1>3, <1>5, <1>8
<1>12. InstancesInv'
  BY <1>1, <1>2, <1>3, <1>8, <1>11, SignalsKeep
<1>13. uuids' \in Nat /\ uuids' >= uuids /\ uuids' >= uuid
  BY <1>1, <1>3
<1>14. FrameTypeOK'
  BY <1>1, <1>2, <1>3, <1>13 DEF FrameTypeOK
<1>15. UuidsOK'
  <2>1. \A h \in DOMAIN live' : live'[h].uuid = uuid \/ (h \in DOMAIN live /\ live'[h].uuid = live[h].uuid)
    BY <1>1, <1>5, <1>8
  <2>2. \A h \in DOMAIN live : live[h].uuid \in Nat
    BY <1>2 DEF SceneOK, Registry, Node
  <2>3. \A h \in DOMAIN live' : live'[h].uuid <= uuids'
    BY <1>2, <1>3, <1>13, <2>1, <2>2 DEF UuidsOK
  <2>4. \A i \in 1..Len(commands.create) : commands.create[i] # uuid /\ commands.create[i] \in Nat
    BY <1>1, <1>2 DEF ToSet, FrameTypeOK
  <2>5. \A i \in 1..Len(commands.create) :
          /\ commands.create[i] <= uuids'
          /\ \A h \in DOMAIN live' : live'[h].uuid # commands.create[i]
    BY <1>2, <1>3, <1>13, <2>1, <2>4 DEF UuidsOK
  <2> QED
    BY <1>1, <1>2, <2>3, <2>5 DEF UuidsOK
<1>16. CursorOK' /\ WorldIsCurrent' /\ InstancesAreScripts'
  <2>1. changes'.prevStart = changes.prevStart /\ changes'.currStart = changes.currStart
    BY <1>1, <1>8 DEF SameFrame, Scene
  <2> QED
    BY <1>1, <1>2, <2>1 DEF CursorOK, WorldIsCurrent, InstancesAreScripts
<1> QED
  BY <1>10, <1>12, <1>14, <1>15, <1>16 DEF FrameInv

LEMMA FrameBeginHolds ==
  ASSUME FrameInv, FrameBegin
  PROVE  FrameInv'
<1> DEFINE k       == Len(commands.create)
           created == [h \in minted + 1..minted + k |-> NewEntity(commands.create[h - minted], TRUE)]
           S       == [live |-> live, changes |-> NextFrame(changes)]
           C       == CreateEntities(S, created)
           gone    == CollectSubtree(C.live, commands.destroy \cap DOMAIN C.live)
           T       == DestroyEntities(C, gone)
<1>1. /\ at = "between" /\ at' = "begun" /\ live' = T.live /\ changes' = T.changes /\ Signals
      /\ minted' = minted + k /\ commands' = [create |-> <<>>, destroy |-> {}]
      /\ UNCHANGED <<uuids, read>>
  BY DEF FrameBegin, Become, Flush, DestroyTrees
<1>2. /\ FrameTypeOK /\ UuidsOK /\ CursorOK /\ InstancesInv
      /\ SceneOK(Scene, minted, read) /\ Scene.live = live /\ Scene.changes = changes
  BY DEF FrameInv, Scene
<1>3. /\ minted \in Nat /\ uuids \in Nat /\ k \in Nat /\ commands.create \in Seq(Nat \ {0})
      /\ DOMAIN live \subseteq 1..minted /\ Registry(live, minted)
      /\ Linked(live) /\ Listed(live) /\ Rooted(live)
      /\ Log(changes, read) /\ WorldsKnown(live, Unread(changes, read))
  BY <1>2 DEF FrameTypeOK, SceneOK, Registry
<1>4. S.live = live /\ S.changes = NextFrame(changes) /\ SceneOK(S, minted, read)
  <2>1. Log(NextFrame(changes), read) /\ Unread(NextFrame(changes), read) = Unread(changes, read)
    BY <1>1, <1>2, <1>3, TurningKeeps DEF CursorOK
  <2> QED
    BY <1>3, <2>1 DEF SceneOK
<1> HIDE DEF S
<1>5. minted' \in Nat /\ minted' >= minted /\ minted' = minted + k
  BY <1>1, <1>3
<1> HIDE DEF k
<1>6. SceneOK(S, minted', read)
  BY <1>3, <1>4, <1>5, MoreHandles
<1>7. \A h \in minted + 1..minted + k :
        /\ h - minted \in 1..k /\ h \in 1..minted' /\ h \notin 1..minted
        /\ commands.create[h - minted] \in Nat \ {0}
  <2>1. \A h \in minted + 1..minted + k : h - minted \in 1..k /\ h \in 1..minted' /\ h \notin 1..minted
    BY <1>3, <1>5
  <2>2. \A i \in 1..k : commands.create[i] \in Nat \ {0}
    BY <1>3 DEF k
  <2> QED
    BY <2>1, <2>2
<1>8. /\ DOMAIN created = minted + 1..minted + k /\ created \in [DOMAIN created -> Node]
      /\ \A h \in DOMAIN created : created[h].parent = 0 /\ created[h].children = {}
      /\ \A h \in DOMAIN created : created[h].uuid = commands.create[h - minted]
  BY <1>7, NewEntityIsNode
<1> HIDE DEF created
<1>9. DOMAIN created \subseteq 1..minted' /\ DOMAIN created \cap DOMAIN live = {}
  BY <1>3, <1>7, <1>8
<1>10. \A h \in DOMAIN created : FindEntityByUUID(live, created[h].uuid) = {}
  BY <1>2, <1>7, <1>8 DEF UuidsOK, FindEntityByUUID, k
<1>11. \A g, h \in DOMAIN created : created[g].uuid = created[h].uuid => g = h
  <2> SUFFICES ASSUME NEW g \in DOMAIN created, NEW h \in DOMAIN created, created[g].uuid = created[h].uuid
               PROVE  g = h
    OBVIOUS
  <2>1. g - minted = h - minted
    BY <1>2, <1>7, <1>8 DEF UuidsOK, k
  <2>2. g \in minted + 1..minted + k /\ h \in minted + 1..minted + k
    BY <1>8
  <2> QED
    BY ONLY <1>3, <2>1, <2>2
<1>12. /\ SceneOK(C, minted', read) /\ DOMAIN C.live = DOMAIN live \cup DOMAIN created
       /\ \A h \in DOMAIN created : C.live[h] = created[h]
       /\ \A h \in DOMAIN live : C.live[h] = live[h]
  <2>1. /\ DOMAIN created \subseteq 1..minted' /\ DOMAIN created \cap DOMAIN S.live = {}
        /\ \A h \in DOMAIN created : created[h].parent = 0 /\ created[h].children = {}
        /\ \A h \in DOMAIN created : FindEntityByUUID(S.live, created[h].uuid) = {}
        /\ created \in [DOMAIN created -> Node] /\ minted' \in Nat
    BY <1>4, <1>5, <1>8, <1>9, <1>10
  <2>2. /\ SceneOK(C, minted', read) /\ DOMAIN C.live = DOMAIN S.live \cup DOMAIN created
        /\ \A h \in DOMAIN created : C.live[h] = created[h]
        /\ \A h \in DOMAIN S.live : C.live[h] = S.live[h]
    BY ONLY <1>6, <1>11, <2>1, CreateKeeps
  <2> QED
    BY <1>4, <2>2
<1> HIDE DEF C
<1>13. gone \in SUBSET DOMAIN C.live
  BY DEF CollectSubtree
<1> HIDE DEF gone
<1>14. SceneOK(T, minted', read) /\ Shrinks(C.live, T.live)
  BY <1>5, <1>12, <1>13, DestroyKeeps
<1> HIDE DEF T
<1>15. Scene' = T
  BY <1>1, <1>14 DEF Scene, SceneOK
<1>16. SceneOK(Scene, minted, read)'
  BY <1>1, <1>14, <1>15
<1>17. /\ DOMAIN live' \subseteq DOMAIN live \cup (minted + 1..minted')
       /\ \A h \in DOMAIN live' : live'[h].uuid = C.live[h].uuid
  BY <1>1, <1>5, <1>8, <1>12, <1>14 DEF Shrinks
<1>18. InstancesInv'
  BY <1>1, <1>2, <1>5, <1>12, <1>17, SignalsKeep
<1>19. <<>> \in Seq(Nat \ {0}) /\ Len(<<>>) = 0
  OBVIOUS
<1>20. FrameTypeOK'
  <2>1. commands' \in [create : Seq(Nat \ {0}), destroy : SUBSET Nat]
    BY <1>1, <1>19
  <2> QED
    BY <1>1, <1>3, <1>5, <2>1 DEF FrameTypeOK
<1>21. UuidsOK'
  <2>1. \A h \in DOMAIN live' : live'[h].uuid <= uuids
    <3> SUFFICES ASSUME NEW h \in DOMAIN live' PROVE C.live[h].uuid <= uuids
      BY <1>17
    <3>1. CASE h \in DOMAIN live
      BY <1>2, <1>12, <3>1 DEF UuidsOK
    <3>2. CASE h \in DOMAIN created
      <4>1. h - minted \in 1..k /\ C.live[h].uuid = commands.create[h - minted]
        BY <1>7, <1>8, <1>12, <3>2
      <4> QED
        BY <1>2, <4>1 DEF UuidsOK, k
    <3> QED
      BY <1>5, <1>8, <1>17, <3>1, <3>2
  <2>2. commands'.create = <<>>
    BY <1>1
  <2> QED
    BY <1>1, <1>19, <2>1, <2>2 DEF UuidsOK
<1>22. CursorOK' /\ WorldIsCurrent' /\ InstancesAreScripts'
  <2>1. Log(changes', read')
    BY <1>16 DEF SceneOK, Scene
  <2> QED
    BY <1>1, <2>1 DEF CursorOK, WorldIsCurrent, InstancesAreScripts, Log, HandleLog
<1> QED
  BY <1>16, <1>18, <1>20, <1>21, <1>22 DEF FrameInv

LEMMA RecomputeDirtyHolds ==
  ASSUME FrameInv, RecomputeDirty
  PROVE  FrameInv'
<1> DEFINE dirty == CollectSubtree(live, Unread(changes, read) \cap DOMAIN live)
           M     == [h \in DOMAIN live |-> IF h \in dirty THEN [live[h] EXCEPT !.world = WorldFromLocals(live, h)]
                                           ELSE live[h]]
<1>1. /\ at = "updating" /\ at' = "drawn" /\ live' = M /\ read' = HeadOf(changes)
      /\ UNCHANGED <<instanceVars, minted, uuids, changes, commands>>
  BY DEF RecomputeDirty, Unread
<1>2. /\ FrameTypeOK /\ UuidsOK /\ InstancesInv /\ OneEach
      /\ SceneOK(Scene, minted, read) /\ Scene.live = live /\ Scene.changes = changes /\ minted \in Nat
  BY <1>1 DEF FrameInv, Scene, FrameTypeOK, InstancesAreScripts
<1>3. /\ SceneOK([live |-> M, changes |-> changes], minted, HeadOf(changes))
      /\ DOMAIN M = DOMAIN live
      /\ \A h \in DOMAIN M : M[h].uuid = live[h].uuid /\ M[h].script = live[h].script
      /\ \A h \in DOMAIN M : M[h].world = WorldFromLocals(M, h)
  BY <1>2, RecomputeKeeps DEF Scene
<1> HIDE DEF M
<1>4. SceneOK(Scene, minted, read)'
  BY <1>1, <1>3 DEF Scene
<1>5. InstancesInv' /\ OneEach'
  BY <1>1, <1>2, <1>3, SameScriptsKeep
<1>6. FrameTypeOK' /\ UuidsOK'
  BY <1>1, <1>2, <1>3 DEF FrameTypeOK, UuidsOK
<1>7. Log(changes, read')
  BY <1>1, <1>4 DEF SceneOK, Scene
<1>8. CursorOK' /\ WorldIsCurrent' /\ InstancesAreScripts'
  <2>1. HeadOf(changes) >= changes.currStart /\ read' >= changes.prevStart
    BY <1>7 DEF Log, HandleLog, HeadOf
  <2> QED
    BY <1>1, <1>3, <1>5, <2>1 DEF CursorOK, WorldIsCurrent, InstancesAreScripts
<1> QED
  BY <1>4, <1>5, <1>6, <1>8 DEF FrameInv

LEMMA UpdateScriptsHolds ==
  ASSUME FrameInv, UpdateScripts
  PROVE  FrameInv'
<1>1. /\ at = "begun" /\ at' = "updating" /\ DrainReactiveViews
      /\ UNCHANGED <<live, minted, uuids, changes, read, commands>>
  BY DEF UpdateScripts
<1>2. InstancesInv' /\ OneEach'
  BY <1>1, DrainKeeps DEF FrameInv
<1>3. SceneOK(Scene, minted, read)'
  BY <1>1 DEF FrameInv, Scene
<1>4. FrameTypeOK' /\ UuidsOK' /\ CursorOK' /\ WorldIsCurrent'
  BY <1>1 DEF FrameInv, FrameTypeOK, UuidsOK, CursorOK, WorldIsCurrent
<1> QED
  BY <1>2, <1>3, <1>4 DEF FrameInv, InstancesAreScripts

LEMMA FrameEndHolds ==
  ASSUME FrameInv, FrameEnd
  PROVE  FrameInv'
<1>1. /\ at = "drawn" /\ at' = "between" /\ ClearEvents
      /\ UNCHANGED <<live, minted, uuids, changes, read, commands>>
  BY DEF FrameEnd
<1>2. InstancesInv'
  BY <1>1, ClearKeeps DEF FrameInv, InstancesAreScripts
<1>3. SceneOK(Scene, minted, read)'
  BY <1>1 DEF FrameInv, Scene
<1>4. FrameTypeOK' /\ UuidsOK' /\ CursorOK' /\ WorldIsCurrent' /\ InstancesAreScripts'
  BY <1>1 DEF FrameInv, FrameTypeOK, UuidsOK, CursorOK, WorldIsCurrent, InstancesAreScripts
<1> QED
  BY <1>2, <1>3, <1>4 DEF FrameInv

\* A script only queues.
LEMMA QueueHolds ==
  ASSUME FrameInv, UNCHANGED <<live, instanceVars, minted, changes, read, at>>,
         FrameTypeOK', UuidsOK'
  PROVE  FrameInv'
<1>1. SceneOK(Scene, minted, read)' /\ CursorOK' /\ WorldIsCurrent'
  BY DEF FrameInv, Scene, CursorOK, WorldIsCurrent
<1>2. InstancesInv'
  BY DEF FrameInv, instanceVars, InstancesInv, HandlesOK, NamesOK, EventsOK, ScriptsOK, WithScript
<1>3. InstancesAreScripts'
  BY DEF FrameInv, instanceVars, InstancesAreScripts, OneEach, WithScript, Scripted
<1> QED
  BY <1>1, <1>2, <1>3 DEF FrameInv

LEMMA QueueDestroyHolds ==
  ASSUME FrameInv, NEW h, QueueDestroy(h)
  PROVE  FrameInv'
<1>1. /\ h \in 1..minted /\ commands' = [commands EXCEPT !.destroy = @ \cup {h}]
      /\ UNCHANGED <<live, instanceVars, minted, uuids, changes, read, at>>
  BY DEF QueueDestroy, Queue
<1>2. FrameTypeOK /\ UuidsOK
  BY DEF FrameInv
<1>3. /\ commands' \in [create : Seq(Nat \ {0}), destroy : SUBSET Nat]
      /\ commands'.create = commands.create
  BY <1>1, <1>2 DEF FrameTypeOK
<1>4. FrameTypeOK' /\ UuidsOK'
  BY <1>1, <1>2, <1>3 DEF FrameTypeOK, UuidsOK
<1> QED
  BY <1>1, <1>4, QueueHolds

LEMMA QueueSpawnHolds ==
  ASSUME FrameInv, QueueSpawn
  PROVE  FrameInv'
<1>1. /\ commands' = [commands EXCEPT !.create = Append(@, uuids + 1)] /\ uuids' = uuids + 1
      /\ UNCHANGED <<live, instanceVars, minted, changes, read, at>>
  BY DEF QueueSpawn, Queue
<1>2. FrameTypeOK /\ UuidsOK /\ uuids \in Nat /\ commands.create \in Seq(Nat \ {0})
  BY DEF FrameInv, FrameTypeOK
<1> DEFINE old == commands.create
           new == Append(old, uuids + 1)
<1>3. /\ new \in Seq(Nat \ {0}) /\ Len(new) = Len(old) + 1 /\ Len(old) \in Nat
      /\ \A i \in 1..Len(old) : new[i] = old[i] /\ old[i] \in Nat
      /\ new[Len(old) + 1] = uuids + 1
  BY <1>2
<1>4. /\ commands' \in [create : Seq(Nat \ {0}), destroy : SUBSET Nat]
      /\ commands'.create = new
  BY <1>1, <1>2, <1>3 DEF FrameTypeOK
<1>5. \A h \in DOMAIN live : live[h].uuid <= uuids /\ live[h].uuid \in Nat
  BY <1>2 DEF UuidsOK, FrameInv, SceneOK, Scene, Registry, Node
<1>6. /\ \A i \in 1..Len(old) : old[i] <= uuids /\ \A h \in DOMAIN live : live[h].uuid # old[i]
      /\ \A i, j \in 1..Len(old) : old[i] = old[j] => i = j
  BY <1>2 DEF UuidsOK
<1> HIDE DEF old, new
<1>7. FrameTypeOK'
  <2>1. uuids + 1 \in Nat
    BY <1>2
  <2> QED
    BY <1>1, <1>2, <1>4, <2>1 DEF FrameTypeOK
<1>8. \A i \in 1..Len(new) : i \in 1..Len(old) \/ i = Len(old) + 1
  BY <1>3
<1>9. \A i \in 1..Len(new) : new[i] <= uuids + 1 /\ \A h \in DOMAIN live : live[h].uuid # new[i]
  <2> SUFFICES ASSUME NEW i \in 1..Len(new)
               PROVE  new[i] <= uuids + 1 /\ \A h \in DOMAIN live : live[h].uuid # new[i]
    OBVIOUS
  <2>1. CASE i \in 1..Len(old)
    <3>1. new[i] = old[i] /\ old[i] \in Nat /\ old[i] <= uuids
      BY <1>3, <1>6, <2>1
    <3> QED
      BY <1>2, <1>6, <2>1, <3>1
  <2>2. CASE i = Len(old) + 1
    BY <1>3, <1>2, <1>5, <2>2
  <2> QED
    BY <1>8, <2>1, <2>2
<1>10. \A i, j \in 1..Len(new) : new[i] = new[j] => i = j
  <2> SUFFICES ASSUME NEW i \in 1..Len(new), NEW j \in 1..Len(new), new[i] = new[j], i <= j
               PROVE  i = j
    BY <1>3
  <2>1. CASE j = Len(old) + 1 /\ i \in 1..Len(old)
    <3>1. new[i] = old[i] /\ old[i] <= uuids /\ old[i] \in Nat
      BY <1>3, <1>6, <2>1
    <3>2. new[j] = uuids + 1 /\ uuids \in Nat
      BY <1>2, <1>3, <2>1
    <3>3. new[i] # new[j]
      BY ONLY <3>1, <3>2
    <3> QED
      BY <3>3
  <2>2. CASE j \in 1..Len(old) /\ i \in 1..Len(old)
    BY <1>3, <1>6, <2>2
  <2>3. (i \in 1..Len(old) \/ i = Len(old) + 1) /\ (j \in 1..Len(old) \/ j = Len(old) + 1)
    BY <1>8
  <2>4. ~ (i = Len(old) + 1 /\ j \in 1..Len(old))
    BY <1>3
  <2> QED
    BY <2>1, <2>2, <2>3, <2>4
<1>11. UuidsOK'
  <2>1. \A h \in DOMAIN live : live[h].uuid <= uuids + 1
    BY <1>2, <1>5
  <2> QED
    BY <1>1, <1>4, <1>9, <1>10, <2>1 DEF UuidsOK
<1> QED
  BY <1>1, <1>7, <1>11, QueueHolds

LEMMA FrameInvHolds == FrameInv /\ [FrameNext]_frameVars => FrameInv'
<1> SUFFICES ASSUME FrameInv, [FrameNext]_frameVars PROVE FrameInv'
  OBVIOUS
<1>1. CASE FrameBegin
  BY <1>1, FrameBeginHolds
<1>2. CASE UpdateScripts
  BY <1>2, UpdateScriptsHolds
<1>3. CASE RecomputeDirty
  BY <1>3, RecomputeDirtyHolds
<1>4. CASE FrameEnd
  BY <1>4, FrameEndHolds
<1>5. CASE QueueSpawn
  BY <1>5, QueueSpawnHolds
<1>6. ASSUME NEW h \in 1..minted,
             Move(h) \/ Destroy(h) \/ ToggleScript(h) \/ QueueDestroy(h)
               \/ \E parent \in 0..minted : Reparent(h, parent)
      PROVE  FrameInv'
  BY <1>6, MoveHolds, DestroyHolds, ToggleScriptHolds, QueueDestroyHolds, ReparentHolds
<1>7. ASSUME NEW uuid \in 1..uuids + 1, NEW script \in BOOLEAN, Spawn(uuid, script)
      PROVE  FrameInv'
  BY <1>7, SpawnHolds
<1>8. CASE UNCHANGED frameVars
  <2>1. UNCHANGED <<live, instanceVars, minted, uuids, changes, read, commands, at>>
    BY <1>8 DEF frameVars
  <2>2. FrameTypeOK' /\ UuidsOK'
    BY <2>1 DEF FrameInv, FrameTypeOK, UuidsOK
  <2> QED
    BY <2>1, <2>2, QueueHolds
<1> QED
  BY <1>1, <1>2, <1>3, <1>4, <1>5, <1>6, <1>7, <1>8 DEF FrameNext

\* However many entities there are, whoever moves, reparents, orphans, destroys or spawns
\* them, and in however many frames: after the transform pass every cached world transform
\* is the composition of the locals above it.
THEOREM WorldsAreCurrent == FrameSpec => []WorldIsCurrent
<1>1. FrameInit => FrameInv
  BY FrameInitHolds
<1>2. FrameInv /\ [FrameNext]_frameVars => FrameInv'
  BY FrameInvHolds
<1>3. FrameInv => WorldIsCurrent
  BY DEF FrameInv
<1> QED BY <1>1, <1>2, <1>3, PTL DEF FrameSpec

\* In every one of them parents and children agree, and the way up ends.
THEOREM TreesStaySound == FrameSpec => []TreesAreSound
<1>1. FrameInit => FrameInv
  BY FrameInitHolds
<1>2. FrameInv /\ [FrameNext]_frameVars => FrameInv'
  BY FrameInvHolds
<1>3. FrameInv => TreesAreSound
  BY DEF FrameInv, SceneOK, Scene, TreesAreSound
<1> QED BY <1>1, <1>2, <1>3, PTL DEF FrameSpec

\* And once the views are drained Lua has one instance for every script and no other.
THEOREM OneInstancePerScript == FrameSpec => []InstancesAreScripts
<1>1. FrameInit => FrameInv
  BY FrameInitHolds
<1>2. FrameInv /\ [FrameNext]_frameVars => FrameInv'
  BY FrameInvHolds
<1>3. FrameInv => InstancesAreScripts
  BY DEF FrameInv
<1> QED BY <1>1, <1>2, <1>3, PTL DEF FrameSpec

-----------------------------------------------------------------------------
(* The lifecycle of a server *)

\* Where the main thread is before admission, before the outcome, and in TearDown.
Before == {"start", "ready", "polling", "retry", "allocated", "open"}
Early == Before \cup {"load", "match", "finish"}
Reporting == {"result", "backoff"}
Leaving == {"stop", "joinHealth", "joinDoor", "close", "gone"}
Place == Early \cup Reporting \cup Leaving \cup {"shutdown"}

\* What has been waited for.
Joined ==
  /\ main \in {"joinDoor", "close", "gone"} => health \in {"none", "done"}
  /\ main \in {"close", "gone"} => door \in {"none", "done"}
  /\ port = "closed" => main = "gone"

\* What the main thread has done by the time it is somewhere.
Progress ==
  /\ main \in Before => phase = "Waiting"
  /\ main \in Before \ {"open"} => ~acked
  /\ dev => ~acked /\ main \in {"start", "load", "match"} \cup Leaving
  /\ main \in {"open", "load", "match", "finish"} => acked \/ dev
  /\ main \in {"match", "finish"} => played
  /\ main \in Reporting => acked /\ played /\ phase = "Over"

\* The posts of the result, counted by its attempts.
Posted ==
  /\ main \in Early => results = 0
  /\ main = "result" => attempt \in 1..MaxAttempts /\ results + 1 = attempt
  /\ main = "backoff" => attempt \in 1..MaxAttempts /\ results = attempt /\ attempt < MaxAttempts
  /\ results > 0 => acked /\ played /\ phase = "Over"

ToldOnce ==
  /\ main \notin Leaving => shutdowns = 0
  /\ main \in Leaving /\ acked => shutdowns = 1
  /\ shutdowns <= 1

\* The mutex: nobody ends admission while Answer admits.
Admitting ==
  /\ door = "admit" => phase = "Open" /\ hello \in Token \X Address
  /\ phase = "Waiting" => \A n \in Nonce : welcomes[n] = 0

\* A token that has admitted and still verifies is remembered.
Remembered ==
  \A t \in Token : clock <= t.exp + Leeway /\ welcomes[t.nonce] # 0 =>
    /\ welcomes[t.nonce] = 1
    /\ [nonce |-> t.nonce, until |-> t.exp + Leeway] \in seen

Control == TypeOK /\ Joined /\ Progress /\ Posted /\ ToldOnce

IInv == Control /\ Admitting /\ Remembered

USE LimitAssumption

LEMMA InitInvariant == Init => IInv
<1> SUFFICES ASSUME Init PROVE IInv
  OBVIOUS
<1>1. TypeOK
  <2>1. /\ noted \in [Account -> Address \cup {Nobody}]
        /\ welcomes \in [Nonce -> Nat]
        /\ seen \subseteq [nonce : Nonce, until : Nat] /\ admitted \subseteq Account
    BY DEF Init
  <2>2. attempt \in 0..MaxAttempts /\ results \in 0..MaxAttempts
    BY DEF Init
  <2> QED
    BY <2>1, <2>2 DEF Init, TypeOK
<1>2. Joined /\ Progress /\ Posted /\ ToldOnce
  BY DEF Init, Joined, Progress, Posted, ToldOnce, Before, Early, Reporting, Leaving
<1>3. Admitting /\ Remembered
  BY DEF Init, Admitting, Remembered, Nonce
<1> QED
  BY <1>1, <1>2, <1>3 DEF IInv, Control

-----------------------------------------------------------------------------
(* The main thread *)

LEMMA StartControl ==
  ASSUME Control, Start
  PROVE  Control'
<1>1. TypeOK'
  BY DEF Control, Start, Goto, doorVars, TypeOK
<1>2. Joined' /\ Progress' /\ Posted' /\ ToldOnce'
  BY DEF Control, Start, Goto, doorVars, TypeOK, Joined, Progress,
         Posted, ToldOnce, Before, Early, Reporting, Leaving
<1> QED
  BY <1>1, <1>2 DEF Control

LEMMA PollReadyControl ==
  ASSUME Control, PollReady
  PROVE  Control'
<1>1. TypeOK'
  BY DEF Control, PollReady, Goto, doorVars, TypeOK
<1>2. Joined' /\ Progress' /\ Posted' /\ ToldOnce'
  BY DEF Control, PollReady, Goto, doorVars, TypeOK, Joined, Progress,
         Posted, ToldOnce, Before, Early, Reporting, Leaving
<1> QED
  BY <1>1, <1>2 DEF Control

LEMMA ReadyAnsweredControl ==
  ASSUME Control, ReadyAnswered
  PROVE  Control'
<1>1. TypeOK'
  BY DEF Control, ReadyAnswered, Goto, doorVars, TypeOK
<1>2. Joined' /\ Progress' /\ Posted' /\ ToldOnce'
  BY DEF Control, ReadyAnswered, Goto, doorVars, TypeOK, Joined, Progress,
         Posted, ToldOnce, Before, Early, Reporting, Leaving
<1> QED
  BY <1>1, <1>2 DEF Control

LEMMA RetryWaitedControl ==
  ASSUME Control, RetryWaited
  PROVE  Control'
<1>1. TypeOK'
  BY DEF Control, RetryWaited, Goto, doorVars, TypeOK
<1>2. Joined' /\ Progress' /\ Posted' /\ ToldOnce'
  BY DEF Control, RetryWaited, Goto, doorVars, TypeOK, Joined, Progress,
         Posted, ToldOnce, Before, Early, Reporting, Leaving
<1> QED
  BY <1>1, <1>2 DEF Control

LEMMA AllocatedAnsweredControl ==
  ASSUME Control, AllocatedAnswered
  PROVE  Control'
<1>1. TypeOK'
  <2>1. main' \in {"open", "shutdown"} /\ acked' \in BOOLEAN
    BY DEF Control, AllocatedAnswered, TypeOK
  <2> QED
    BY <2>1 DEF Control, AllocatedAnswered, doorVars, TypeOK
<1>2. Joined' /\ Progress' /\ Posted' /\ ToldOnce'
  BY DEF Control, AllocatedAnswered, Goto, doorVars, TypeOK, Joined, Progress,
         Posted, ToldOnce, Before, Early, Reporting, Leaving
<1> QED
  BY <1>1, <1>2 DEF Control

LEMMA LoadSceneControl ==
  ASSUME Control, LoadScene
  PROVE  Control'
<1>1. TypeOK'
  <2>1. /\ main' \in {"stop", "shutdown", "match"} /\ played' \in BOOLEAN
        /\ UNCHANGED <<attempt, acked, results, shutdowns>>
    BY DEF Control, LoadScene, Goto, GiveUp, TypeOK
  <2> QED
    BY <2>1 DEF Control, LoadScene, doorVars, TypeOK
<1>2. Joined' /\ Progress' /\ Posted' /\ ToldOnce'
  BY DEF Control, LoadScene, Goto, GiveUp, doorVars, TypeOK, Joined, Progress,
         Posted, ToldOnce, Before, Early, Reporting, Leaving
<1> QED
  BY <1>1, <1>2 DEF Control

LEMMA EndMatchControl ==
  ASSUME Control, EndMatch
  PROVE  Control'
<1>1. TypeOK'
  BY DEF Control, EndMatch, Goto, doorVars, TypeOK
<1>2. Joined' /\ Progress' /\ Posted' /\ ToldOnce'
  BY DEF Control, EndMatch, Goto, doorVars, TypeOK, Joined, Progress,
         Posted, ToldOnce, Before, Early, Reporting, Leaving
<1> QED
  BY <1>1, <1>2 DEF Control

LEMMA LeaveDevControl ==
  ASSUME Control, LeaveDev
  PROVE  Control'
<1>1. TypeOK'
  BY DEF Control, LeaveDev, Goto, doorVars, TypeOK
<1>2. Joined' /\ Progress' /\ Posted' /\ ToldOnce'
  BY DEF Control, LeaveDev, Goto, doorVars, TypeOK, Joined, Progress,
         Posted, ToldOnce, Before, Early, Reporting, Leaving
<1> QED
  BY <1>1, <1>2 DEF Control

LEMMA PostResultControl ==
  ASSUME Control, PostResult
  PROVE  Control'
<1>1. TypeOK'
  BY DEF Control, PostResult, Goto, doorVars, TypeOK, Posted
<1>2. Joined' /\ Progress' /\ Posted' /\ ToldOnce'
  BY DEF Control, PostResult, Goto, doorVars, TypeOK, Joined, Progress,
         Posted, ToldOnce, Before, Early, Reporting, Leaving
<1> QED
  BY <1>1, <1>2 DEF Control

LEMMA BackoffControl ==
  ASSUME Control, Backoff
  PROVE  Control'
<1>1. TypeOK'
  BY DEF Control, Backoff, Goto, doorVars, TypeOK, Posted
<1>2. Joined' /\ Progress' /\ Posted' /\ ToldOnce'
  BY DEF Control, Backoff, Goto, doorVars, TypeOK, Joined, Progress,
         Posted, ToldOnce, Before, Early, Reporting, Leaving
<1> QED
  BY <1>1, <1>2 DEF Control

LEMMA PostShutdownControl ==
  ASSUME Control, PostShutdown
  PROVE  Control'
<1>1. TypeOK'
  BY DEF Control, PostShutdown, Goto, doorVars, TypeOK, ToldOnce, Leaving
<1>2. Joined' /\ Progress' /\ Posted' /\ ToldOnce'
  BY DEF Control, PostShutdown, Goto, doorVars, TypeOK, Joined, Progress,
         Posted, ToldOnce, Before, Early, Reporting, Leaving
<1> QED
  BY <1>1, <1>2 DEF Control

LEMMA RequestStopControl ==
  ASSUME Control, RequestStop
  PROVE  Control'
<1>1. TypeOK'
  BY DEF Control, RequestStop, Goto, doorVars, TypeOK
<1>2. Joined' /\ Progress' /\ Posted' /\ ToldOnce'
  BY DEF Control, RequestStop, Goto, doorVars, TypeOK, Joined, Progress,
         Posted, ToldOnce, Before, Early, Reporting, Leaving
<1> QED
  BY <1>1, <1>2 DEF Control

LEMMA JoinHealthControl ==
  ASSUME Control, JoinHealth
  PROVE  Control'
<1>1. TypeOK'
  BY DEF Control, JoinHealth, Goto, doorVars, TypeOK
<1>2. Joined' /\ Progress' /\ Posted' /\ ToldOnce'
  BY DEF Control, JoinHealth, Goto, doorVars, TypeOK, Joined, Progress,
         Posted, ToldOnce, Before, Early, Reporting, Leaving
<1> QED
  BY <1>1, <1>2 DEF Control

LEMMA JoinDoorControl ==
  ASSUME Control, JoinDoor
  PROVE  Control'
<1>1. TypeOK'
  BY DEF Control, JoinDoor, Goto, doorVars, TypeOK
<1>2. Joined' /\ Progress' /\ Posted' /\ ToldOnce'
  BY DEF Control, JoinDoor, Goto, doorVars, TypeOK, Joined, Progress,
         Posted, ToldOnce, Before, Early, Reporting, Leaving
<1> QED
  BY <1>1, <1>2 DEF Control

LEMMA CloseServerControl ==
  ASSUME Control, CloseServer
  PROVE  Control'
<1>1. TypeOK'
  BY DEF Control, CloseServer, Goto, doorVars, TypeOK
<1>2. Joined' /\ Progress' /\ Posted' /\ ToldOnce'
  BY DEF Control, CloseServer, Goto, doorVars, TypeOK, Joined, Progress,
         Posted, ToldOnce, Before, Early, Reporting, Leaving
<1> QED
  BY <1>1, <1>2 DEF Control

LEMMA OpenAdmissionControl ==
  ASSUME Control, OpenAdmission
  PROVE  Control'
<1>1. TypeOK'
  BY DEF Control, OpenAdmission, Goto, DoorMutexFree, doorVars, TypeOK
<1>2. Joined' /\ Progress' /\ Posted' /\ ToldOnce'
  BY DEF Control, OpenAdmission, Goto, DoorMutexFree, doorVars, TypeOK, Joined, Progress,
         Posted, ToldOnce, Before, Early, Reporting, Leaving
<1> QED
  BY <1>1, <1>2 DEF Control

LEMMA FinishControl ==
  ASSUME Control, Finish
  PROVE  Control'
<1>1. TypeOK'
  BY DEF Control, Finish, Goto, DoorMutexFree, doorVars, TypeOK
<1>2. Joined' /\ Progress' /\ Posted' /\ ToldOnce'
  BY DEF Control, Finish, Goto, DoorMutexFree, doorVars, TypeOK, Joined, Progress,
         Posted, ToldOnce, Before, Early, Reporting, Leaving
<1> QED
  BY <1>1, <1>2 DEF Control

\* A step that leaves the nonces alone keeps what is remembered of them.
LEMMA QuietDoor ==
  ASSUME IInv, UNCHANGED <<hello, seen, welcomes, clock>>,
         door' = "admit" => door = "admit" /\ phase' = phase,
         phase' = "Waiting" => phase = "Waiting"
  PROVE  Admitting' /\ Remembered'
<1>1. Admitting'
  BY DEF IInv, Admitting
<1>2. Remembered'
  BY DEF IInv, Remembered
<1> QED
  BY <1>1, <1>2

\* Admission opens once, with nothing to remember.
LEMMA OpenAdmissionInvariant ==
  ASSUME IInv, OpenAdmission
  PROVE  IInv'
<1>1. Control'
  BY OpenAdmissionControl DEF IInv
<1>2. Admitting'
  BY DEF IInv, Admitting, OpenAdmission, DoorMutexFree
<1>3. \A n \in Nonce : welcomes'[n] = 0
  BY DEF IInv, Control, Progress, Before, Admitting, OpenAdmission
<1>4. Remembered'
  BY <1>3 DEF Remembered, Nonce
<1> QED
  BY <1>1, <1>2, <1>4 DEF IInv

LEMMA MainInvariant ==
  ASSUME IInv, Main \/ LeaveDev
  PROVE  IInv'
<1>1. CASE OpenAdmission
  BY <1>1, OpenAdmissionInvariant
<1>2. CASE Start
  <2>1. Admitting' /\ Remembered'
    BY <1>2, QuietDoor DEF Start
  <2> QED
    BY <1>2, <2>1, StartControl DEF IInv
<1>3. CASE Finish
  <2>1. Admitting' /\ Remembered'
    BY <1>3, QuietDoor DEF Finish, DoorMutexFree, doorVars
  <2> QED
    BY <1>3, <2>1, FinishControl DEF IInv
<1>4. CASE CloseServer
  <2>1. Admitting' /\ Remembered'
    BY <1>4, QuietDoor DEF CloseServer
  <2> QED
    BY <1>4, <2>1, CloseServerControl DEF IInv
<1>5. CASE \/ PollReady \/ ReadyAnswered \/ RetryWaited \/ AllocatedAnswered \/ LoadScene \/ EndMatch
           \/ LeaveDev \/ PostResult \/ Backoff \/ PostShutdown \/ RequestStop \/ JoinHealth \/ JoinDoor
  <2>1. UNCHANGED <<doorVars, phase, clock>>
    BY <1>5 DEF PollReady, ReadyAnswered, RetryWaited, AllocatedAnswered, LoadScene, EndMatch, LeaveDev,
                PostResult, Backoff, PostShutdown, RequestStop, JoinHealth, JoinDoor
  <2>2. Admitting' /\ Remembered'
    BY <2>1, QuietDoor DEF doorVars
  <2>3. Control'
    BY <1>5, PollReadyControl, ReadyAnsweredControl, RetryWaitedControl, AllocatedAnsweredControl,
       LoadSceneControl, EndMatchControl, LeaveDevControl, PostResultControl, BackoffControl,
       PostShutdownControl, RequestStopControl, JoinHealthControl, JoinDoorControl DEF IInv
  <2> QED
    BY <2>2, <2>3 DEF IInv
<1> QED
  BY <1>1, <1>2, <1>3, <1>4, <1>5 DEF Main

-----------------------------------------------------------------------------
(* The health thread, the clock and the door thread *)

LEMMA HealthInvariant ==
  ASSUME IInv, Health
  PROVE  IInv'
<1>1. TypeOK'
  <2>1. health' \in {"post", "wait", "done"} /\ stop' \in BOOLEAN
    BY DEF IInv, Control, TypeOK, Health, HealthAnswered, HealthWaited
  <2> QED
    BY <2>1 DEF IInv, Control, TypeOK, Health, HealthAnswered, HealthWaited, mainVars, doorVars
<1>2. Joined' /\ Progress' /\ Posted' /\ ToldOnce'
  BY DEF IInv, Control, TypeOK, Joined, Progress, Posted, ToldOnce, Health, HealthAnswered, HealthWaited,
         mainVars, doorVars
<1>3. Admitting' /\ Remembered'
  BY QuietDoor DEF Health, HealthAnswered, HealthWaited, doorVars
<1> QED
  BY <1>1, <1>2, <1>3 DEF IInv, Control

\* Time only invalidates tokens.
LEMMA TickInvariant ==
  ASSUME IInv, Tick
  PROVE  IInv'
<1>1. TypeOK'
  BY DEF IInv, Control, TypeOK, Tick, mainVars, doorVars
<1>2. Joined' /\ Progress' /\ Posted' /\ ToldOnce' /\ Admitting'
  BY DEF IInv, Control, Joined, Progress, Posted, ToldOnce, Admitting, Tick, mainVars, doorVars
<1>3. ASSUME NEW t \in Token, clock' <= t.exp + Leeway
      PROVE  clock <= t.exp + Leeway
  BY <1>3, TokenAssumption DEF Tick, IInv, Control, TypeOK
<1>4. Remembered'
  BY <1>3 DEF Remembered, IInv, Tick, doorVars
<1> QED
  BY <1>1, <1>2, <1>4 DEF IInv, Control

LEMMA DoorLoopInvariant ==
  ASSUME IInv, DoorLoop
  PROVE  IInv'
<1>1. TypeOK'
  BY DEF IInv, Control, TypeOK, DoorLoop, mainVars
<1>2. Joined' /\ Progress' /\ Posted' /\ ToldOnce'
  BY DEF IInv, Control, Joined, Progress, Posted, ToldOnce, DoorLoop, mainVars
<1>3. Admitting' /\ Remembered'
  BY QuietDoor DEF DoorLoop
<1> QED
  BY <1>1, <1>2, <1>3 DEF IInv, Control

LEMMA HelloCheckedInvariant ==
  ASSUME IInv, NEW t \in Token, NEW from \in Address, HelloChecked(t, from)
  PROVE  IInv'
<1>1. TypeOK'
  <2>1. hello' \in {<<>>} \cup (Token \X Address) /\ door' \in {"none", "loop", "pump", "admit", "done"}
    BY DEF HelloChecked, IInv, Control, TypeOK
  <2> QED
    BY <2>1 DEF IInv, Control, TypeOK, HelloChecked, mainVars
<1>2. Joined' /\ Progress' /\ Posted' /\ ToldOnce'
  BY DEF IInv, Control, Joined, Progress, Posted, ToldOnce, HelloChecked, mainVars
<1>3. Admitting'
  BY DEF IInv, Admitting, HelloChecked
<1>4. Remembered'
  BY DEF IInv, Remembered, HelloChecked
<1> QED
  BY <1>1, <1>2, <1>3, <1>4 DEF IInv, Control

LEMMA HelloDevInvariant ==
  ASSUME IInv, NEW account \in Account, NEW from \in Address, HelloDev(account, from)
  PROVE  IInv'
<1>1. TypeOK'
  <2>1. noted' \in [Account -> Address \cup {Nobody}]
    BY DEF HelloDev, IInv, Control, TypeOK
  <2> QED
    BY <2>1 DEF IInv, Control, TypeOK, HelloDev, mainVars
<1>2. Joined' /\ Progress' /\ Posted' /\ ToldOnce'
  BY DEF IInv, Control, Joined, Progress, Posted, ToldOnce, HelloDev, mainVars
<1>3. Admitting' /\ Remembered'
  BY QuietDoor DEF HelloDev
<1> QED
  BY <1>1, <1>2, <1>3 DEF IInv, Control

\* Only the token that is answered is welcomed, and only when no memory of its
\* nonce is left: it had not been welcomed, or it no longer verifies.
LEMMA HelloAnsweredInvariant ==
  ASSUME IInv, HelloAnswered
  PROVE  IInv'
<1> DEFINE u == hello[1]
<1> DEFINE mine == [nonce |-> u.nonce, until |-> u.exp + Leeway]
<1> DEFINE known == \E s \in Unexpired : s.nonce = u.nonce
<1>1. u \in Token /\ hello[2] \in Address /\ phase = "Open" /\ u.nonce \in Nonce /\ u.account \in Account
      /\ u.exp \in Nat
  BY TokenAssumption DEF IInv, Admitting, HelloAnswered, Nonce, Account
<1>2. /\ mine \in [nonce : Nonce, until : Nat]
      /\ Unexpired \subseteq [nonce : Nonce, until : Nat]
  BY <1>1 DEF Unexpired, IInv, Control, TypeOK
<1>3. seen' \subseteq [nonce : Nonce, until : Nat] /\ Unexpired \subseteq seen'
  BY <1>2 DEF HelloAnswered
<1>4. TypeOK'
  <2>1. admitted' \subseteq Account
    BY <1>1 DEF HelloAnswered, IInv, Control, TypeOK
  <2>2. noted' \in [Account -> Address \cup {Nobody}]
    BY <1>1 DEF HelloAnswered, IInv, Control, TypeOK
  <2>3. welcomes' \in [Nonce -> Nat]
    BY <1>1 DEF HelloAnswered, IInv, Control, TypeOK
  <2> QED
    BY <1>3, <2>1, <2>2, <2>3 DEF HelloAnswered, IInv, Control, TypeOK, mainVars
<1>5. Joined' /\ Progress' /\ Posted' /\ ToldOnce'
  BY DEF IInv, Control, Joined, Progress, Posted, ToldOnce, HelloAnswered, mainVars
<1>6. Admitting'
  BY <1>1 DEF HelloAnswered, Admitting
<1>7. ASSUME NEW t \in Token, clock <= t.exp + Leeway, welcomes[t.nonce] # 0
      PROVE  [nonce |-> t.nonce, until |-> t.exp + Leeway] \in Unexpired /\ welcomes[t.nonce] = 1
  BY <1>7 DEF IInv, Remembered, Unexpired
<1>8. ASSUME NEW t \in Token, clock' <= t.exp + Leeway, welcomes'[t.nonce] # 0
      PROVE  /\ welcomes'[t.nonce] = 1
             /\ [nonce |-> t.nonce, until |-> t.exp + Leeway] \in seen'
  <2>1. clock <= t.exp + Leeway /\ t.nonce \in Nonce
    BY <1>8 DEF HelloAnswered, Nonce
  <2>2. CASE known
    <3>1. welcomes' = welcomes
      BY <2>2 DEF HelloAnswered
    <3> QED
      BY <1>3, <1>7, <1>8, <2>1, <3>1
  <2>3. CASE ~known
    <3>1. welcomes' = [welcomes EXCEPT ![u.nonce] = @ + 1] /\ mine \in seen'
      BY <2>3 DEF HelloAnswered
    <3>2. CASE t.nonce = u.nonce
      <4>1. t = u
        BY <1>1, <3>2, NonceAssumption
      <4>2. welcomes[u.nonce] = 0
        BY <1>1, <1>7, <2>1, <2>3, <4>1
      <4> QED
        BY <1>1, <3>1, <4>1, <4>2 DEF IInv, Control, TypeOK
    <3>3. CASE t.nonce # u.nonce
      <4>1. welcomes'[t.nonce] = welcomes[t.nonce]
        BY <2>1, <3>1, <3>3 DEF IInv, Control, TypeOK
      <4> QED
        BY <1>3, <1>7, <1>8, <2>1, <4>1
    <3> QED
      BY <3>2, <3>3
  <2> QED
    BY <2>2, <2>3
<1>9. Remembered'
  BY <1>8 DEF Remembered
<1> QED
  BY <1>4, <1>5, <1>6, <1>9 DEF IInv, Control

LEMMA NextInvariant == IInv /\ [Next]_vars => IInv'
<1> SUFFICES ASSUME IInv, [Next]_vars PROVE IInv'
  OBVIOUS
<1>1. CASE UNCHANGED vars
  BY <1>1 DEF vars, mainVars, doorVars, IInv, Control, TypeOK, Joined, Progress, Posted, ToldOnce, Admitting,
              Remembered
<1>2. CASE Door
  BY <1>2, DoorLoopInvariant, HelloAnsweredInvariant, HelloCheckedInvariant, HelloDevInvariant DEF Door
<1> QED
  BY <1>1, <1>2, MainInvariant, HealthInvariant, TickInvariant DEF Next

-----------------------------------------------------------------------------
(* What the specification keeps *)

\* The invariant holds of every state of the lifecycle.
THEOREM Invariant == Spec => []IInv
  BY InitInvariant, NextInvariant, PTL DEF Spec

\* Every variable keeps its type: in particular the result is posted at most
\* MaxAttempts times.
THEOREM TypeCorrect == Spec => []TypeOK
<1>1. IInv => TypeOK
  BY DEF IInv, Control
<1> QED
  BY <1>1, Invariant, PTL

\* The game port is closed only after both threads have been joined.
THEOREM PortOutlivesThreads == Spec => []JoinedBeforeClose
<1>1. IInv => JoinedBeforeClose
  BY DEF IInv, Control, Joined, JoinedBeforeClose
<1> QED
  BY <1>1, Invariant, PTL

\* A result is posted of a match that was acknowledged and played, with admission closed.
THEOREM ResultsAreOfMatches == Spec => []ResultIsOfAMatch
<1>1. IInv => ResultIsOfAMatch
  BY DEF IInv, Control, Posted, ResultIsOfAMatch
<1> QED
  BY <1>1, Invariant, PTL

\* One /shutdown for an acknowledged allocation, by whatever path the server ends.
THEOREM ShutsDownOnce == Spec => []OneShutdown
<1>1. IInv => OneShutdown
  BY DEF IInv, Control, ToldOnce, Leaving, OneShutdown
<1> QED
  BY <1>1, Invariant, PTL

\* While a token verifies it has admitted at most once.
THEOREM ValidTokensAdmitOnce == Spec => []SeenWhileValid
<1>1. IInv => SeenWhileValid
  <2> SUFFICES ASSUME IInv, NEW t \in Token, clock <= t.exp + Leeway
               PROVE  welcomes[t.nonce] <= 1
    BY DEF SeenWhileValid
  <2>1. welcomes[t.nonce] \in {0, 1}
    BY DEF IInv, Remembered
  <2> QED
    BY <2>1
<1> QED
  BY <1>1, Invariant, PTL

\* Nobody is admitted while, or after, the result is reported.
THEOREM AdmissionEndsFirst == Spec => NoAdmissionAfterResult
<1>1. IInv /\ [Next]_vars => [results > 0 => admitted' = admitted]_vars
  <2> SUFFICES ASSUME IInv, Next, results > 0 PROVE admitted' = admitted
    OBVIOUS
  <2>1. phase = "Over" /\ ~HelloAnswered /\ ~OpenAdmission
    BY DEF IInv, Control, Posted, Progress, Before, Admitting, HelloAnswered, OpenAdmission
  <2> QED
    BY <2>1 DEF Next, Main, Health, Door, Start, PollReady, ReadyAnswered, RetryWaited, AllocatedAnswered,
      LoadScene, EndMatch, LeaveDev, Finish, PostResult, Backoff, PostShutdown, RequestStop, JoinHealth,
      JoinDoor, CloseServer, HealthAnswered, HealthWaited, DoorLoop, HelloChecked, HelloDev, Tick, doorVars
<1> QED
  BY <1>1, Invariant, PTL DEF Spec, NoAdmissionAfterResult
=============================================================================
