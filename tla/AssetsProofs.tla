---------------------------- MODULE AssetsProofs ----------------------------
(***************************************************************************)
(* Nothing that was made of bytes a file no longer has stays unnoticed,    *)
(* for any handles, any caps and any number of edits, reloads and crashes. *)
(*                                                                         *)
(* The main thread's steps are made of the managers' operations (Load,     *)
(* Captured, Finish, Evict, Collected), so there is a lemma for what each  *)
(* of them leaves of the invariant, and a step's proof composes them.  A   *)
(* worker's step changes one parse and what the disk has of its texture.   *)
(***************************************************************************)
EXTENDS Assets, TLAPS

\* What a file may hold, and what may have been made of it.
Held  == Content \cup {"bad"}
Shows == Held \cup {"none"}

Stages == {"queued", "look", "serve", "compile", "write", "rename", "record", "done"}

Job == [handle : Handle, at : Stages, stamp : Nat, source : Shows, out : Shows, pending : BOOLEAN]

Files == [out : Shows, temp : Shows, stamp : Nat, source : Shows]

Object == [content : Shows, map : [content : Shows, live : BOOLEAN]]

ManagerType ==
  [cached : [Handle -> Object], failed : SUBSET Handle, handoff : [Handle -> Nat],
   jobs : SUBSET Job, ref : [Handle -> {"unset", "none", "live", "old", "keeps"}]]

TypeOK ==
  /\ file \in [Handle -> [stamp : Nat \ {0}, content : Held]]
  /\ disk \in [Texture -> Files]
  /\ watch \in [Handle -> [known : Nat, candidate : Nat]]
  /\ manager \in ManagerType
  /\ missed \subseteq Handle /\ torn \subseteq Handle

\* In the operators below f is the files, w what the watcher knows, x what it missed, t
\* what was torn, e both, d the disk and S a manager.

\* Accounted, of given files and watcher.
Good(f, w, e, h, content) ==
  content = f[h].content \/ w[h].known # f[h].stamp \/ h \in e

\* What is loaded, captured or failed is accounted for; only what is loaded captured.
CachedOK(S, f, w, e) ==
  /\ \A h \in Handle : S.cached[h].content # "none" => Good(f, w, e, h, S.cached[h].content)
  /\ \A m \in Material :
       S.cached[m].map.content # "none" =>
         S.cached[m].content # "none" /\ Good(f, w, e, Map[m], S.cached[m].map.content)
  /\ \A h \in S.failed : Good(f, w, e, h, "bad")

\* A parse looked at the stamp before it read the source, so if the stamp is still the
\* file's, what it read is the file's, as is what it has made of it; and what is still to
\* be applied has that stamp, or the watcher has to act.
JobOK(j, f, w, x, t) ==
  LET h == j.handle IN
  /\ h \in Material => j.at \in {"queued", "done"}
  /\ j.stamp <= f[h].stamp
  /\ j.at \in {"queued", "look"} => j.out = "none"
  /\ j.at = "serve" => j.out \in {j.source, "none"}
  /\ j.at \in {"serve", "compile", "write", "rename", "record"} /\ h \notin t =>
       (j.stamp = f[h].stamp => j.source = f[h].content)
  /\ j.at \in {"compile", "write", "rename", "record"} /\ h \notin t => j.out = j.source
  /\ j.at \in {"compile", "write", "rename", "record", "done"} => j.out # "none"
  /\ j.pending /\ j.at = "done" /\ j.stamp = f[h].stamp /\ h \notin t => j.out = f[h].content
  /\ j.pending /\ j.at # "queued" /\ w[h].known = f[h].stamp /\ h \notin x => j.stamp = f[h].stamp

\* The parses of a texture between two accesses to its output's files.
InsideOf(S, h) == {j \in S.jobs : j.handle = h /\ Inside(j)}

\* The files d of a texture, its source fl and the parses I between two accesses: there is
\* at most one, and what it last saw of the files is still there, or a reload has taken it
\* away; the record says of the source's stamp what the source holds, and of the output,
\* unless the record is just due, what that was made of.
FilesOK(d, I, fl) ==
  /\ d.stamp <= fl.stamp
  /\ d.stamp # 0 /\ d.stamp = fl.stamp => d.source = fl.content
  /\ \A j, k \in I : j = k
  /\ \A j \in I : /\ j.at = "serve"  => d.out \in {j.source, "none"}
                  /\ j.at = "rename" => d.temp = j.out
                  /\ j.at = "record" => d.out \in {j.out, "none"}
  /\ (\A j \in I : j.at # "record") /\ d.out # "none" /\ d.stamp # 0 => d.out = d.source

DiskOK(d, S, f, t) == \A h \in Texture \ t : FilesOK(d[h], InsideOf(S, h), f[h])

\* The inductive invariant.
IInv ==
  /\ TypeOK
  /\ \A h \in Handle : watch[h].known <= file[h].stamp
  /\ CachedOK(manager, file, watch, missed \cup torn)
  /\ \A j \in manager.jobs : JobOK(j, file, watch, missed, torn)
  /\ DiskOK(disk, manager, file, torn)

-----------------------------------------------------------------------------
(* What the managers' operations leave of it *)

\* The invariant of one manager, beside what the rest is now.
ManagerOK(S) ==
  /\ S \in ManagerType
  /\ CachedOK(S, file, watch, missed \cup torn)
  /\ \A j \in S.jobs : JobOK(j, file, watch, missed, torn)
  /\ DiskOK(disk, S, file, torn)

LEMMA TypeFacts ==
  ASSUME NEW S \in ManagerType
  PROVE  /\ S.cached \in [Handle -> Object] /\ S.failed \subseteq Handle
         /\ S.handoff \in [Handle -> Nat] /\ S.jobs \subseteq Job
         /\ S.ref \in [Handle -> {"unset", "none", "live", "old", "keeps"}]
         /\ \A h \in Handle : /\ S.cached[h] \in Object /\ S.cached[h].content \in Shows
                              /\ S.cached[h].map.content \in Shows
         /\ NoObject \in Object /\ NoObject.content = "none" /\ NoObject.map.content = "none"
BY DEF ManagerType, Object, NoObject, NoMap, Shows

LEMMA NewJobOK ==
  ASSUME NEW h \in Handle
  PROVE  /\ NewJob(h) \in Job /\ NewJob(h).at = "queued" /\ NewJob(h).stamp = 0
         /\ NewJob(h).handle = h /\ NewJob(h).out = "none"
BY DEF NewJob, Job, Stages, Shows

\* Fewer objects, fewer failures, no new parse but queued ones: all stays accounted for.
LEMMA LessKeeps ==
  ASSUME TypeOK, NEW S, ManagerOK(S), NEW R \in ManagerType,
         \A h \in Handle : R.cached[h].content \in {S.cached[h].content, "none"},
         \A m \in Material :
           /\ R.cached[m].map.content # "none" => R.cached[m].content # "none"
           /\ R.cached[m].map.content # "none" =>
                \/ R.cached[m].map.content = S.cached[m].map.content
                \/ R.cached[m].map.content = S.cached[Map[m]].content,
         R.failed \subseteq S.failed,
         \A j \in R.jobs : j \in S.jobs \/ \E h \in Handle : j = NewJob(h),
         \A j \in S.jobs : Inside(j) => j \in R.jobs
  PROVE  ManagerOK(R)
<1>1. CachedOK(R, file, watch, missed \cup torn)
  BY AssetsAssumption DEF ManagerOK, CachedOK, Handle
<1>2. \A j \in R.jobs : JobOK(j, file, watch, missed, torn)
  <2> SUFFICES ASSUME NEW h \in Handle PROVE JobOK(NewJob(h), file, watch, missed, torn)
    BY DEF ManagerOK
  <2>1. file[h].stamp \in Nat
    BY DEF TypeOK
  <2> QED
    BY <2>1, NewJobOK DEF JobOK
<1>3. DiskOK(disk, R, file, torn)
  <2>1. \A h \in Handle : InsideOf(R, h) = InsideOf(S, h)
    BY NewJobOK DEF InsideOf, Inside
  <2> QED
    BY <2>1 DEF ManagerOK, DiskOK, Handle
<1> QED
  BY <1>1, <1>2, <1>3 DEF ManagerOK

LEMMA LoadFacts ==
  ASSUME NEW S \in ManagerType, NEW h \in Handle, NEW mayDefer \in BOOLEAN
  PROVE  /\ Load(S, h, mayDefer) \in ManagerType
         /\ Load(S, h, mayDefer).cached = S.cached /\ Load(S, h, mayDefer).failed = S.failed
         /\ Load(S, h, mayDefer).jobs \in {S.jobs, S.jobs \cup {NewJob(h)}}
<1> DEFINE L == [S EXCEPT !.jobs = @ \cup {NewJob(h)}]
<1>1. Load(S, h, mayDefer) = S \/ Load(S, h, mayDefer) = L
  BY DEF Load
<1>2. L \in ManagerType /\ L.cached = S.cached /\ L.failed = S.failed
  BY NewJobOK DEF ManagerType
<1>3. L.jobs = S.jobs \cup {NewJob(h)}
  BY DEF ManagerType
<1> QED
  BY <1>1, <1>2, <1>3

LEMMA LoadKeeps ==
  ASSUME TypeOK, NEW S, ManagerOK(S), NEW h \in Handle, NEW mayDefer \in BOOLEAN
  PROVE  ManagerOK(Load(S, h, mayDefer))
<1> DEFINE R == Load(S, h, mayDefer)
<1>1. S \in ManagerType
  BY DEF ManagerOK
<1>2. /\ R \in ManagerType /\ R.cached = S.cached /\ R.failed = S.failed
      /\ R.jobs \in {S.jobs, S.jobs \cup {NewJob(h)}}
  BY <1>1, LoadFacts
<1>3. \A m \in Material : S.cached[m].map.content # "none" => S.cached[m].content # "none"
  BY DEF ManagerOK, CachedOK
<1> HIDE DEF R
<1>4. ManagerOK(R)
  BY <1>2, <1>3, LessKeeps
<1> QED
  BY <1>4 DEF R

LEMMA CollectedFacts ==
  ASSUME NEW S \in ManagerType
  PROVE  /\ Collected(S) \in ManagerType
         /\ Collected(S).failed = S.failed /\ Collected(S).jobs = S.jobs
         /\ \A h \in Handle : Collected(S).cached[h] \in {S.cached[h], NoObject}
<1>1. PICK c \in [Handle -> Object] :
        /\ Collected(S) = [S EXCEPT !.cached = c]
        /\ \A h \in Handle : c[h] \in {S.cached[h], NoObject}
  <2> DEFINE holds(h) == S.ref[h] = "live" \/ S.handoff[h] > 0
             captures(t) == \E m \in Material :
               /\ Map[m] = t
               /\ S.ref[m] = "keeps" \/ (holds(m) /\ S.cached[m].map.live)
             c == [h \in Handle |->
                     IF holds(h) \/ (h \in Texture /\ captures(h)) THEN S.cached[h] ELSE NoObject]
  <2>1. c \in [Handle -> Object] /\ \A h \in Handle : c[h] \in {S.cached[h], NoObject}
    BY TypeFacts
  <2>2. Collected(S) = [S EXCEPT !.cached = c]
    BY DEF Collected
  <2> QED
    BY <2>1, <2>2
<1>2. [S EXCEPT !.cached = c] \in ManagerType
  BY DEF ManagerType
<1>3. /\ [S EXCEPT !.cached = c].failed = S.failed /\ [S EXCEPT !.cached = c].jobs = S.jobs
      /\ [S EXCEPT !.cached = c].cached = c
  BY DEF ManagerType
<1> QED
  BY <1>1, <1>2, <1>3

LEMMA CollectedKeeps ==
  ASSUME TypeOK, NEW S, ManagerOK(S)
  PROVE  ManagerOK(Collected(S))
<1> DEFINE R == Collected(S)
<1>1. S \in ManagerType
  BY DEF ManagerOK
<1>2. /\ R \in ManagerType /\ R.failed = S.failed /\ R.jobs = S.jobs
      /\ \A h \in Handle : R.cached[h] \in {S.cached[h], NoObject}
  BY <1>1, CollectedFacts
<1>3. \A m \in Material : S.cached[m].map.content # "none" => S.cached[m].content # "none"
  BY DEF ManagerOK, CachedOK
<1> HIDE DEF R
<1>4. \A h \in Handle : R.cached[h].content \in {S.cached[h].content, "none"}
  BY <1>1, <1>2, TypeFacts
<1>5. \A m \in Material : R.cached[m].map.content # "none" =>
        R.cached[m].content # "none" /\ R.cached[m].map.content = S.cached[m].map.content
  BY <1>1, <1>2, <1>3, TypeFacts DEF Handle
<1>6. ManagerOK(R)
  BY <1>2, <1>4, <1>5, LessKeeps
<1> QED
  BY <1>6 DEF R

LEMMA CapturedFacts ==
  ASSUME NEW S \in ManagerType, NEW m \in Material
  PROVE  /\ Captured(S, m) \in ManagerType
         /\ Captured(S, m).failed = S.failed
         /\ Captured(S, m).jobs \in {S.jobs, S.jobs \cup {NewJob(Map[m])}}
         /\ \A h \in Handle : Captured(S, m).cached[h].content = S.cached[h].content
         /\ \A n \in Material :
              \/ Captured(S, m).cached[n].map.content = S.cached[n].map.content
              \/ n = m /\ Captured(S, m).cached[n].map.content = S.cached[Map[m]].content
<1> DEFINE L == Load(S, Map[m], TRUE)
           t == L.cached[Map[m]].content
           c == [content |-> t, live |-> t # "none"]
           R == [L EXCEPT !.cached[m].map = c]
<1>1. Map[m] \in Handle /\ m \in Handle
  BY AssetsAssumption DEF Handle
<1>2. Captured(S, m) = S \/ Captured(S, m) = R
  BY DEF Captured
<1>3. /\ L \in ManagerType /\ L.cached = S.cached /\ L.failed = S.failed
      /\ L.jobs \in {S.jobs, S.jobs \cup {NewJob(Map[m])}}
  BY <1>1, LoadFacts
<1>4. t = S.cached[Map[m]].content /\ t \in Shows
  BY <1>1, <1>3, TypeFacts
<1> HIDE DEF L, t
<1>5. c \in [content : Shows, live : BOOLEAN] /\ c.content = t
  BY <1>4
<1> HIDE DEF c
<1> DEFINE d == [L.cached EXCEPT ![m].map = c]
<1>6. R = [L EXCEPT !.cached = d] /\ L.cached \in [Handle -> Object]
  BY <1>3, TypeFacts DEF ManagerType
<1>7. /\ d \in [Handle -> Object]
      /\ \A h \in Handle : d[h].content = L.cached[h].content
      /\ \A h \in Handle : d[h].map = IF h = m THEN c ELSE L.cached[h].map
  BY <1>1, <1>5, <1>6 DEF Object
<1> HIDE DEF d, R
<1>8. R \in ManagerType /\ R.cached = d /\ R.failed = L.failed /\ R.jobs = L.jobs
  BY <1>3, <1>6, <1>7 DEF ManagerType
<1>9. /\ \A h \in Handle : R.cached[h].content = S.cached[h].content
      /\ \A n \in Material :
           \/ R.cached[n].map.content = S.cached[n].map.content
           \/ n = m /\ R.cached[n].map.content = S.cached[Map[m]].content
  BY <1>3, <1>4, <1>5, <1>7, <1>8 DEF Handle
<1> QED
  BY <1>2, <1>3, <1>8, <1>9

LEMMA CapturedKeeps ==
  ASSUME TypeOK, NEW S, ManagerOK(S), NEW m \in Material, Resident(S, m)
  PROVE  ManagerOK(Captured(S, m))
<1> DEFINE R == Captured(S, m)
<1>1. S \in ManagerType /\ Map[m] \in Handle
  BY AssetsAssumption DEF ManagerOK, Handle
<1>2. /\ R \in ManagerType /\ R.failed = S.failed
      /\ R.jobs \in {S.jobs, S.jobs \cup {NewJob(Map[m])}}
      /\ \A h \in Handle : R.cached[h].content = S.cached[h].content
      /\ \A n \in Material :
           \/ R.cached[n].map.content = S.cached[n].map.content
           \/ n = m /\ R.cached[n].map.content = S.cached[Map[m]].content
  BY <1>1, CapturedFacts
<1>3. /\ S.cached[m].content # "none"
      /\ \A n \in Material : S.cached[n].map.content # "none" => S.cached[n].content # "none"
  BY DEF ManagerOK, CachedOK, Resident
<1> HIDE DEF R
<1>4. ManagerOK(R)
  <2>1. \A h \in Handle : R.cached[h].content \in {S.cached[h].content, "none"}
    BY <1>2
  <2>2. \A n \in Material :
          /\ R.cached[n].map.content # "none" => R.cached[n].content # "none"
          /\ R.cached[n].map.content # "none" =>
               \/ R.cached[n].map.content = S.cached[n].map.content
               \/ R.cached[n].map.content = S.cached[Map[n]].content
    BY <1>2, <1>3 DEF Handle
  <2>3. /\ R.failed \subseteq S.failed
        /\ \A j \in R.jobs : j \in S.jobs \/ \E h \in Handle : j = NewJob(h)
        /\ \A j \in S.jobs : Inside(j) => j \in R.jobs
    BY <1>1, <1>2
  <2> QED
    BY <1>2, <2>1, <2>2, <2>3, LessKeeps
<1> QED
  BY <1>4 DEF R

\* What a parse that is done and not cancelled made is accounted for.
LEMMA DoneIsGood ==
  ASSUME TypeOK, NEW j \in Job, JobOK(j, file, watch, missed, torn), j.pending, j.at = "done"
  PROVE  Good(file, watch, missed \cup torn, j.handle, j.out) /\ j.out # "none"
<1>1. j.stamp = file[j.handle].stamp /\ j.handle \notin torn => j.out = file[j.handle].content
  BY DEF JobOK
<1>2. watch[j.handle].known = file[j.handle].stamp /\ j.handle \notin missed =>
        j.stamp = file[j.handle].stamp
  BY DEF JobOK
<1>3. j.out # "none"
  BY DEF JobOK
<1> QED
  BY <1>1, <1>2, <1>3 DEF Good

LEMMA FinishKeeps ==
  ASSUME TypeOK, NEW S, ManagerOK(S), NEW j \in S.jobs, j.pending, j.at = "done"
  PROVE  ManagerOK(Finish(S, j))
<1> DEFINE h == j.handle
           D == [S EXCEPT !.jobs = @ \ {j}]
           F == [D EXCEPT !.failed = @ \cup {h}]
           A == [D EXCEPT !.cached[h] = [content |-> j.out, map |-> NoMap],
                          !.handoff[h] = HandoffFrames]
<1>1. S \in ManagerType /\ j \in Job /\ h \in Handle /\ j.out \in Shows
  BY DEF ManagerOK, ManagerType, Job
<1>2. Good(file, watch, missed \cup torn, h, j.out) /\ j.out # "none"
  BY <1>1, DoneIsGood DEF ManagerOK
<1>3. /\ D \in ManagerType /\ D.cached = S.cached /\ D.failed = S.failed /\ D.jobs = S.jobs \ {j}
      /\ D.handoff = S.handoff
  BY <1>1 DEF ManagerType
<1>4. ManagerOK(D)
  <2>1. \A m \in Material : S.cached[m].map.content # "none" => S.cached[m].content # "none"
    BY DEF ManagerOK, CachedOK
  <2>2. ~Inside(j)
    BY DEF Inside
  <2> HIDE DEF D
  <2> QED
    BY <1>3, <2>1, <2>2, LessKeeps
<1> HIDE DEF D
<1>5. CASE j.out = "bad"
  <2>1. F \in ManagerType /\ F.cached = D.cached /\ F.failed = D.failed \cup {h} /\ F.jobs = D.jobs
    BY <1>1, <1>3 DEF ManagerType
  <2> HIDE DEF F
  <2>2. CachedOK(F, file, watch, missed \cup torn)
    BY <1>2, <1>4, <1>5, <2>1 DEF ManagerOK, CachedOK
  <2>3. ManagerOK(F)
    BY <1>4, <2>1, <2>2 DEF ManagerOK, DiskOK, InsideOf
  <2>4. Finish(S, j) = F
    BY <1>5 DEF Finish, D, F
  <2> QED
    BY <2>3, <2>4
<1>6. CASE j.out # "bad"
  <2> DEFINE o == [content |-> j.out, map |-> NoMap]
  <2>1. o \in Object /\ o.content = j.out /\ o.map.content = "none"
    BY <1>1 DEF Object, NoMap, Shows
  <2> HIDE DEF o
  <2>2. /\ [D.cached EXCEPT ![h] = o] \in [Handle -> Object]
        /\ [D.handoff EXCEPT ![h] = HandoffFrames] \in [Handle -> Nat]
    BY <1>1, <1>3, <2>1, TypeFacts, AssetsAssumption
  <2>3. A = [D EXCEPT !.cached = [D.cached EXCEPT ![h] = o],
                      !.handoff = [D.handoff EXCEPT ![h] = HandoffFrames]]
    BY <1>3 DEF o, ManagerType
  <2>4. /\ A \in ManagerType /\ A.cached = [D.cached EXCEPT ![h] = o]
        /\ A.failed = D.failed /\ A.jobs = D.jobs
    <3> DEFINE c == [D.cached EXCEPT ![h] = o]
               k == [D.handoff EXCEPT ![h] = HandoffFrames]
    <3>1. c \in [Handle -> Object] /\ k \in [Handle -> Nat] /\ A = [D EXCEPT !.cached = c, !.handoff = k]
      BY <2>2, <2>3
    <3> HIDE DEF c, k, A
    <3>2. /\ A.cached = c /\ A.failed = D.failed /\ A.jobs = D.jobs /\ A \in ManagerType
      BY ONLY <1>3, <3>1 DEF ManagerType
    <3> QED
      BY ONLY <3>2 DEF c
  <2>5. Finish(S, j) = IF h \in Texture THEN A ELSE Captured(A, h)
    BY <1>6 DEF Finish, A, D
  <2> HIDE DEF A
  <2>6. \A i \in Handle : A.cached[i] = IF i = h THEN o ELSE D.cached[i]
    BY <1>3, <2>4, TypeFacts
  <2>7. CachedOK(A, file, watch, missed \cup torn)
    <3>1. CachedOK(D, file, watch, missed \cup torn)
      BY <1>4 DEF ManagerOK
    <3>2. \A i \in Handle : A.cached[i].content # "none" =>
            Good(file, watch, missed \cup torn, i, A.cached[i].content)
      BY <1>2, <2>1, <2>6, <3>1 DEF CachedOK
    <3>3. \A m \in Material : A.cached[m].map.content # "none" =>
            /\ A.cached[m].content # "none"
            /\ Good(file, watch, missed \cup torn, Map[m], A.cached[m].map.content)
      BY <1>2, <2>1, <2>6, <3>1 DEF CachedOK, Handle
    <3> QED
      BY <2>4, <3>1, <3>2, <3>3 DEF CachedOK
  <2>8. ManagerOK(A)
    BY <1>4, <2>4, <2>7 DEF ManagerOK, DiskOK, InsideOf
  <2>9. h \in Texture \/ (h \in Material /\ Resident(A, h))
    BY <1>1, <1>2, <2>1, <2>6 DEF Handle, Resident
  <2> QED
    BY <2>5, <2>8, <2>9, CapturedKeeps
<1> QED
  BY <1>5, <1>6

-----------------------------------------------------------------------------
(* Evictions *)

Aside(j, H) == [j EXCEPT !.pending = @ /\ j.handle \notin H]

LEMMA AsideFacts ==
  ASSUME NEW j \in Job, NEW H
  PROVE  /\ Aside(j, H) \in Job
         /\ Aside(j, H).handle = j.handle /\ Aside(j, H).at = j.at /\ Aside(j, H).stamp = j.stamp
         /\ Aside(j, H).source = j.source /\ Aside(j, H).out = j.out
         /\ Aside(j, H).pending => j.pending /\ j.handle \notin H
<1> DEFINE b == j.pending /\ j.handle \notin H
           k == [j EXCEPT !.pending = b]
<1>1. b \in BOOLEAN
  OBVIOUS
<1>2. Aside(j, H) = k
  BY DEF Aside
<1> HIDE DEF b
<1>3. /\ k \in Job /\ k.handle = j.handle /\ k.at = j.at /\ k.stamp = j.stamp
      /\ k.source = j.source /\ k.out = j.out
  BY <1>1 DEF Job
<1>4. k.pending = b
  BY <1>1 DEF Job
<1>5. k.pending => j.pending /\ j.handle \notin H
  BY <1>4 DEF b
<1> HIDE DEF k
<1> QED
  BY <1>2, <1>3, <1>5

LEMMA EvictFacts ==
  ASSUME NEW S \in ManagerType, NEW H \in SUBSET Handle
  PROVE  /\ Evict(S, H) \in ManagerType
         /\ Evict(S, H).failed = S.failed \ H
         /\ Evict(S, H).jobs = {Aside(j, H) : j \in S.jobs}
         /\ \A h \in Handle :
              /\ Evict(S, H).cached[h].content = IF h \in H THEN "none" ELSE S.cached[h].content
              /\ Evict(S, H).cached[h].map.content =
                   IF h \in H THEN "none" ELSE S.cached[h].map.content
<1> DEFINE gone(m) == Map[m] \in H
           old(h)  == IF h \in Material /\ S.cached[h].map.live THEN "keeps" ELSE "old"
           kept(h, r) == IF r = "keeps" /\ gone(h) THEN "old" ELSE r
           parted(m) == [S.cached[m] EXCEPT !.map.live = @ /\ ~gone(m)]
           c == [h \in Handle |-> IF h \in H THEN NoObject
                                  ELSE IF h \in Material THEN parted(h) ELSE S.cached[h]]
           a == [h \in Handle |-> IF h \in H THEN 0 ELSE S.handoff[h]]
           r == [h \in Handle |->
                   kept(h, IF h \in H /\ S.ref[h] = "live" THEN old(h) ELSE S.ref[h])]
           q == {Aside(j, H) : j \in S.jobs}
           f == S.failed \ H
           E == [S EXCEPT !.cached = c, !.failed = f, !.handoff = a, !.jobs = q, !.ref = r]
<1>1. Evict(S, H) = E
  BY DEF Evict, Aside
<1>2. ASSUME NEW m \in Handle
      PROVE  /\ parted(m) \in Object /\ parted(m).content = S.cached[m].content
             /\ parted(m).map.content = S.cached[m].map.content
  <2> DEFINE b == S.cached[m].map.live /\ ~gone(m)
             n == [S.cached[m].map EXCEPT !.live = b]
  <2>1. b \in BOOLEAN /\ S.cached[m] \in Object
    BY TypeFacts
  <2>2. parted(m) = [S.cached[m] EXCEPT !.map = n]
    BY <2>1 DEF Object
  <2> HIDE DEF b
  <2>3. n \in [content : Shows, live : BOOLEAN] /\ n.content = S.cached[m].map.content
    BY <2>1 DEF Object
  <2> HIDE DEF n, parted
  <2> QED
    BY <2>1, <2>2, <2>3 DEF Object
<1> HIDE DEF parted
<1>3. /\ c \in [Handle -> Object]
      /\ \A h \in Handle :
           /\ c[h].content = IF h \in H THEN "none" ELSE S.cached[h].content
           /\ c[h].map.content = IF h \in H THEN "none" ELSE S.cached[h].map.content
  BY <1>2, TypeFacts
<1>4. a \in [Handle -> Nat] /\ f \subseteq Handle
  BY TypeFacts
<1>5. r \in [Handle -> {"unset", "none", "live", "old", "keeps"}]
  BY TypeFacts
<1>6. q \subseteq Job
  BY TypeFacts, AsideFacts
<1> HIDE DEF c, a, r, q, f
<1>7. E \in ManagerType /\ E.cached = c /\ E.failed = f /\ E.jobs = q
  BY <1>3, <1>4, <1>5, <1>6 DEF ManagerType
<1> HIDE DEF E
<1> QED
  BY <1>1, <1>3, <1>7 DEF f, q

\* The parses between two accesses to the files are the same, set aside or not.
LEMMA EvictDisk ==
  ASSUME NEW S \in ManagerType, NEW H \in SUBSET Handle, NEW d, NEW f, NEW t,
         DiskOK(d, S, f, t)
  PROVE  DiskOK(d, Evict(S, H), f, t)
<1> DEFINE E == Evict(S, H)
<1>1. E.jobs = {Aside(j, H) : j \in S.jobs} /\ S.jobs \subseteq Job
  BY EvictFacts, TypeFacts
<1> HIDE DEF E
<1> SUFFICES ASSUME NEW h \in Texture \ t PROVE FilesOK(d[h], InsideOf(E, h), f[h])
  BY DEF DiskOK, E
<1>2. FilesOK(d[h], InsideOf(S, h), f[h])
  BY DEF DiskOK
<1>3. InsideOf(E, h) = {Aside(j, H) : j \in InsideOf(S, h)}
  BY <1>1, AsideFacts DEF InsideOf, Inside
<1>4. InsideOf(S, h) \subseteq Job
  BY <1>1 DEF InsideOf
<1>5. \A j \in InsideOf(S, h) : /\ Aside(j, H).out = j.out /\ Aside(j, H).at = j.at
                                /\ Aside(j, H).source = j.source
  BY <1>4, AsideFacts
<1> QED
  BY <1>2, <1>3, <1>5 DEF FilesOK

LEMMA EvictKeeps ==
  ASSUME TypeOK, NEW S, ManagerOK(S), NEW H \in SUBSET Handle
  PROVE  ManagerOK(Evict(S, H))
<1> DEFINE R == Evict(S, H)
<1>1. S \in ManagerType /\ S.jobs \subseteq Job
  BY TypeFacts DEF ManagerOK
<1>2. /\ R \in ManagerType /\ R.failed = S.failed \ H
      /\ R.jobs = {Aside(j, H) : j \in S.jobs}
      /\ \A h \in Handle :
           /\ R.cached[h].content = IF h \in H THEN "none" ELSE S.cached[h].content
           /\ R.cached[h].map.content = IF h \in H THEN "none" ELSE S.cached[h].map.content
  BY <1>1, EvictFacts
<1>3. DiskOK(disk, R, file, torn)
  BY <1>1, EvictDisk DEF ManagerOK
<1> HIDE DEF R
<1>4. CachedOK(R, file, watch, missed \cup torn)
  BY <1>2 DEF ManagerOK, CachedOK, Handle
<1>5. \A j \in R.jobs : JobOK(j, file, watch, missed, torn)
  <2> SUFFICES ASSUME NEW j \in S.jobs PROVE JobOK(Aside(j, H), file, watch, missed, torn)
    BY <1>2
  <2>1. JobOK(j, file, watch, missed, torn) /\ j \in Job
    BY <1>1 DEF ManagerOK
  <2> QED
    BY <2>1, AsideFacts DEF JobOK
<1>6. ManagerOK(R)
  BY <1>2, <1>3, <1>4, <1>5 DEF ManagerOK
<1> QED
  BY <1>6 DEF R

-----------------------------------------------------------------------------
(* Steps of the main thread *)

\* A step that changes the manager and nothing the invariant measures it by.
LEMMA ManagerStep ==
  ASSUME IInv, UNCHANGED <<file, disk, watch, missed, torn>>, ManagerOK(manager')
  PROVE  IInv'
<1>1. TypeOK'
  BY DEF IInv, TypeOK, ManagerOK
<1> QED
  BY <1>1 DEF IInv, ManagerOK

LEMMA IInvManager ==
  ASSUME IInv
  PROVE  TypeOK /\ ManagerOK(manager) /\ manager \in ManagerType
BY DEF IInv, TypeOK, ManagerOK

LEMMA SameKeeps ==
  ASSUME NEW S, ManagerOK(S), NEW R \in ManagerType,
         R.cached = S.cached, R.failed = S.failed, R.jobs = S.jobs
  PROVE  ManagerOK(R)
<1>1. CachedOK(R, file, watch, missed \cup torn)
  BY DEF ManagerOK, CachedOK
<1>2. DiskOK(disk, R, file, torn)
  BY DEF ManagerOK, DiskOK, InsideOf
<1> QED
  BY <1>1, <1>2 DEF ManagerOK

LEMMA UpdateStep ==
  ASSUME IInv, NEW at, NEW next, NEW H \in {Texture, Material}, Update(at, H, next)
  PROVE  IInv'
<1> DEFINE done == {j \in manager.jobs : j.handle \in H /\ j.at = "done"}
           ready == {j \in done : j.pending}
           a == [h \in Handle |-> IF h \in H /\ manager.handoff[h] > 0
                                  THEN manager.handoff[h] - 1 ELSE manager.handoff[h]]
           q == manager.jobs \ (done \ ready)
           S == [manager EXCEPT !.jobs = q, !.handoff = a]
<1>1. TypeOK /\ ManagerOK(manager) /\ manager \in ManagerType
  BY IInvManager
<1>2. UNCHANGED <<file, disk, watch, missed, torn>>
  BY DEF Update
<1>3. CASE \E j \in ready : manager' = Finish(manager, j)
  <2>1. ManagerOK(manager')
    BY <1>1, <1>3, FinishKeeps
  <2> QED
    BY <1>2, <2>1, ManagerStep
<1>4. CASE manager' = Collected(S)
  <2>1. a \in [Handle -> Nat] /\ q \subseteq manager.jobs /\ manager.jobs \subseteq Job
    BY <1>1, TypeFacts
  <2>2. \A j \in manager.jobs : Inside(j) => j \in q
    BY DEF Inside
  <2>3. \A m \in Material :
          manager.cached[m].map.content # "none" => manager.cached[m].content # "none"
    BY <1>1 DEF ManagerOK, CachedOK
  <2> HIDE DEF a, q
  <2>4. S \in ManagerType /\ S.cached = manager.cached /\ S.failed = manager.failed /\ S.jobs = q
    BY <1>1, <2>1 DEF ManagerType
  <2> HIDE DEF S
  <2>5. ManagerOK(S)
    BY <1>1, <2>1, <2>2, <2>3, <2>4, LessKeeps
  <2>6. ManagerOK(manager')
    BY <1>1, <1>4, <2>5, CollectedKeeps
  <2> QED
    BY <1>2, <2>6, ManagerStep
<1>5. \/ \E j \in ready : manager' = Finish(manager, j)
      \/ manager' = Collected(S)
  BY DEF Update
<1> QED
  BY <1>3, <1>4, <1>5

LEMMA AskStep ==
  ASSUME IInv, NEW h \in Handle, Ask(h)
  PROVE  IInv'
<1> DEFINE L == Load(manager, h, TRUE)
           r == IF Resident(L, h) THEN "live" ELSE "none"
           R == [L EXCEPT !.ref[h] = r]
<1>1. TypeOK /\ ManagerOK(L) /\ L \in ManagerType
  BY IInvManager, LoadKeeps DEF ManagerOK
<1>2. UNCHANGED <<file, disk, watch, missed, torn>>
  BY DEF Ask
<1>3. manager' = Collected(IF h \in Material /\ Resident(R, h) THEN Captured(R, h) ELSE R)
  BY DEF Ask
<1>4. r \in {"live", "none"}
  OBVIOUS
<1> HIDE DEF L, r
<1>5. R \in ManagerType /\ R.cached = L.cached /\ R.failed = L.failed /\ R.jobs = L.jobs
  BY <1>1, <1>4 DEF ManagerType
<1> HIDE DEF R
<1>6. ManagerOK(R)
  BY <1>1, <1>5, SameKeeps
<1>7. ManagerOK(manager')
  BY <1>1, <1>3, <1>6, CapturedKeeps, CollectedKeeps
<1> QED
  BY <1>2, <1>7, ManagerStep

LEMMA WaitStep ==
  ASSUME IInv, (\E h \in Handle : WaitFor(h)) \/ WaitOver
  PROVE  IInv'
<1>1. TypeOK /\ ManagerOK(manager)
  BY IInvManager
<1>2. UNCHANGED <<file, disk, watch, missed, torn>>
  BY DEF WaitFor, WaitOver
<1>3. ASSUME NEW h \in Handle, WaitFor(h) PROVE ManagerOK(manager')
  BY <1>1, <1>3, LoadKeeps DEF WaitFor
<1>4. ASSUME WaitOver PROVE ManagerOK(manager')
  BY <1>1, <1>4, FinishKeeps, CollectedKeeps DEF WaitOver, Pending
<1> QED
  BY <1>2, <1>3, <1>4, ManagerStep

LEMMA DropStep ==
  ASSUME IInv, NEW h \in Handle, Drop(h)
  PROVE  IInv'
<1> DEFINE r == IF manager.ref[h] = "unset" THEN "none" ELSE "unset"
           R == [manager EXCEPT !.ref[h] = r]
<1>1. TypeOK /\ ManagerOK(manager) /\ manager \in ManagerType
  BY IInvManager
<1>2. UNCHANGED <<file, disk, watch, missed, torn>> /\ manager' = Collected(R)
  BY DEF Drop
<1>3. r \in {"unset", "none"}
  OBVIOUS
<1> HIDE DEF r
<1>4. /\ R \in ManagerType /\ R.cached = manager.cached /\ R.failed = manager.failed
      /\ R.jobs = manager.jobs
  BY <1>1, <1>3 DEF ManagerType
<1> HIDE DEF R
<1>5. ManagerOK(R)
  BY <1>1, <1>4, SameKeeps
<1>6. ManagerOK(manager')
  BY <1>1, <1>2, <1>5, CollectedKeeps
<1> QED
  BY <1>2, <1>6, ManagerStep

\* An output that goes has no record to agree with, and no parse minds that it is gone.
LEMMA ReloadStep ==
  ASSUME IInv, NEW h \in Handle, Reload(h)
  PROVE  IInv'
<1> DEFINE H == {Map[m] : m \in {m \in {h} \cap Material : Resident(manager, m)}}
           S == Collected(Evict(manager, H))
           n == [NoOutput EXCEPT !.temp = disk[h].temp]
<1>1. H \in SUBSET Handle
  BY AssetsAssumption DEF Handle
<1>2. /\ manager' = S /\ UNCHANGED <<file, watch, missed, torn>>
      /\ disk' = [t \in Texture |-> IF t = h THEN n ELSE disk[t]]
  BY DEF Reload
<1>3. TypeOK /\ ManagerOK(S)
  BY <1>1, IInvManager, EvictKeeps, CollectedKeeps
<1>4. /\ n.out = "none" /\ n.stamp = 0 /\ n.source = "none" /\ n.temp = disk[h].temp
      /\ h \in Texture => n \in Files
  BY <1>3 DEF TypeOK, NoOutput, Files, Shows
<1> HIDE DEF S, n
<1>5. TypeOK'
  BY <1>2, <1>3, <1>4 DEF TypeOK, ManagerOK
<1>6. DiskOK(disk', S, file, torn)
  <2> SUFFICES ASSUME NEW t \in Texture \ torn
               PROVE  FilesOK(disk'[t], InsideOf(S, t), file[t])
    BY DEF DiskOK
  <2>1. FilesOK(disk[t], InsideOf(S, t), file[t])
    BY <1>3 DEF ManagerOK, DiskOK
  <2>2. file[t].stamp \in Nat \ {0}
    BY <1>3 DEF TypeOK, Handle
  <2>3. disk'[t] = IF t = h THEN n ELSE disk[t]
    BY <1>2
  <2> QED
    BY <1>4, <2>1, <2>2, <2>3 DEF FilesOK
<1> QED
  BY <1>2, <1>3, <1>5, <1>6 DEF IInv, ManagerOK

LEMMA ReloadOverStep ==
  ASSUME IInv, ReloadOver
  PROVE  IInv'
<1>1. PICK h \in Handle : manager' = Collected(Evict(manager, {h}))
  BY DEF ReloadOver
<1>2. UNCHANGED <<file, disk, watch, missed, torn>>
  BY DEF ReloadOver
<1>3. ManagerOK(manager')
  BY <1>1, IInvManager, EvictKeeps, CollectedKeeps
<1> QED
  BY <1>2, <1>3, ManagerStep

\* What the watcher now takes as known was loaded from it, is missed, or was evicted.
LEMMA PollStep ==
  ASSUME IInv, Poll
  PROVE  IInv'
<1> DEFINE unknown == {h \in Handle : watch[h].known = 0}
           moved   == {h \in Handle \ unknown : watch[h].known # file[h].stamp}
           settled == {h \in moved : watch[h].candidate = file[h].stamp}
<1>1. PICK reload \in SUBSET settled :
        /\ watch' = [h \in Handle |->
             CASE h \in moved \ reload -> [watch[h] EXCEPT !.candidate = file[h].stamp]
               [] OTHER -> [known |-> file[h].stamp, candidate |-> 0]]
        /\ manager' = Collected(Evict(manager, WithDependents(reload)))
  BY DEF Poll, PollFiles
<1>2. missed' = missed \cup {h \in unknown : Missed(h)} /\ UNCHANGED <<file, disk, torn>>
  BY DEF Poll, PollFiles
<1> DEFINE H == WithDependents(reload)
           E == Evict(manager, H)
           S == Collected(E)
<1>3. /\ reload \subseteq H /\ H \in SUBSET Handle
      /\ \A m \in Material : Resident(manager, m) /\ Map[m] \in reload => m \in H
  BY DEF WithDependents, Handle
<1> HIDE DEF H
<1>4. TypeOK /\ ManagerOK(manager) /\ manager \in ManagerType /\ manager.jobs \subseteq Job
  BY IInvManager, TypeFacts
<1>5. /\ E \in ManagerType /\ E.failed = manager.failed \ H
      /\ E.jobs = {Aside(j, H) : j \in manager.jobs}
      /\ \A h \in Handle :
           /\ E.cached[h].content = IF h \in H THEN "none" ELSE manager.cached[h].content
           /\ E.cached[h].map.content = IF h \in H THEN "none" ELSE manager.cached[h].map.content
  BY <1>3, <1>4, EvictFacts
<1>6. ManagerOK(S)
  BY <1>3, <1>4, EvictKeeps, CollectedKeeps
<1> HIDE DEF E
<1>7. /\ S \in ManagerType /\ S.failed = E.failed /\ S.jobs = E.jobs
      /\ \A h \in Handle : S.cached[h] \in {E.cached[h], NoObject}
  BY <1>5, CollectedFacts
<1> HIDE DEF S
<1>8. manager' = S
  BY <1>1 DEF S, E, H
<1>9. \A h \in Handle : file[h].stamp \in Nat \ {0} /\ watch[h] \in [known : Nat, candidate : Nat]
  BY <1>4 DEF TypeOK
<1>10. \A h \in Handle :
         /\ watch'[h] \in [known : Nat, candidate : Nat]
         /\ watch'[h].known = IF h \in moved \ reload THEN watch[h].known ELSE file[h].stamp
  BY <1>1, <1>9
<1>11. TypeOK'
  <2>1. watch' \in [Handle -> [known : Nat, candidate : Nat]]
    BY <1>1, <1>10
  <2>2. missed' \subseteq Handle
    BY <1>2, <1>4 DEF TypeOK
  <2> QED
    BY <1>2, <1>4, <1>7, <1>8, <2>1, <2>2 DEF TypeOK
<1>12. \A h \in Handle : watch'[h].known <= file[h].stamp
  BY <1>9, <1>10 DEF IInv
<1> DEFINE e == missed \cup torn
           g == missed' \cup torn
\* What the new look changes for one handle.
<1>13. ASSUME NEW h \in Handle
       PROVE  \/ watch'[h].known # file[h].stamp
              \/ h \in missed'
              \/ h \in reload
              \/ watch[h].known = 0 /\ ~Missed(h)
              \/ watch'[h].known = watch[h].known
  BY <1>2, <1>10
<1>14. ASSUME NEW h \in Handle, NEW content,
              h \notin reload, Good(file, watch, e, h, content),
              watch[h].known = 0 /\ ~Missed(h) => content = file[h].content
       PROVE  Good(file, watch', g, h, content)
  BY <1>2, <1>13, <1>14 DEF Good
<1>15. CachedOK(S, file, watch', g)
  <2>1. CachedOK(manager, file, watch, e)
    BY <1>4 DEF ManagerOK
  <2>2. ASSUME NEW h \in Handle, S.cached[h].content # "none"
        PROVE  Good(file, watch', g, h, S.cached[h].content)
    <3>1. h \notin H /\ S.cached[h].content = manager.cached[h].content
      BY <2>2, <1>5, <1>7, TypeFacts
    <3>2. Good(file, watch, e, h, S.cached[h].content)
      BY <2>1, <2>2, <3>1 DEF CachedOK
    <3>3. ~Missed(h) => S.cached[h].content = file[h].content
      BY <2>2, <3>1 DEF Missed, Resident
    <3> QED
      BY <1>3, <1>14, <3>1, <3>2, <3>3
  <2>3. ASSUME NEW m \in Material, S.cached[m].map.content # "none"
        PROVE  S.cached[m].content # "none" /\ Good(file, watch', g, Map[m], S.cached[m].map.content)
    <3>1. m \in Handle /\ Map[m] \in Handle
      BY AssetsAssumption DEF Handle
    <3>2. /\ m \notin H /\ S.cached[m].map.content = manager.cached[m].map.content
          /\ S.cached[m].content = manager.cached[m].content
      BY <2>3, <3>1, <1>5, <1>7, TypeFacts
    <3>3. manager.cached[m].content # "none" /\ Good(file, watch, e, Map[m], S.cached[m].map.content)
      BY <2>1, <2>3, <3>2 DEF CachedOK
    <3>4. Map[m] \notin reload
      BY <1>3, <3>2, <3>3 DEF Resident
    <3>5. ~Missed(Map[m]) => S.cached[m].map.content = file[Map[m]].content
      BY <2>3, <3>2 DEF Missed
    <3> QED
      BY <1>14, <3>1, <3>2, <3>3, <3>4, <3>5
  <2>4. ASSUME NEW h \in S.failed PROVE Good(file, watch', g, h, "bad")
    <3>1. h \in manager.failed /\ h \notin H /\ h \in Handle
      BY <1>4, <1>5, <1>7, TypeFacts
    <3>2. Good(file, watch, e, h, "bad")
      BY <2>1, <3>1 DEF CachedOK
    <3>3. ~Missed(h) => "bad" = file[h].content
      BY <3>1 DEF Missed
    <3> QED
      BY <1>3, <1>14, <3>1, <3>2, <3>3
  <2> QED
    BY <2>2, <2>3, <2>4 DEF CachedOK
<1>16. \A k \in S.jobs : JobOK(k, file, watch', missed', torn)
  <2> SUFFICES ASSUME NEW j \in manager.jobs
               PROVE  JobOK(Aside(j, H), file, watch', missed', torn)
    BY <1>5, <1>7
  <2> DEFINE k == Aside(j, H)
             h == j.handle
  <2>1. JobOK(j, file, watch, missed, torn) /\ j \in Job /\ h \in Handle
    BY <1>4 DEF ManagerOK, Job
  <2>2. /\ k.handle = h /\ k.at = j.at /\ k.stamp = j.stamp /\ k.source = j.source /\ k.out = j.out
        /\ k.pending => j.pending /\ h \notin H
    BY <2>1, AsideFacts
  <2> HIDE DEF k
  <2>3. ASSUME k.pending, k.at # "queued", watch'[h].known = file[h].stamp, h \notin missed'
        PROVE  k.stamp = file[h].stamp
    <3>1. CASE watch[h].known = 0 /\ ~Missed(h)
      BY <2>1, <2>2, <2>3, <3>1 DEF Missed, Pending
    <3>2. CASE watch'[h].known = watch[h].known
      BY <1>2, <2>1, <2>2, <2>3, <3>2 DEF JobOK
    <3> QED
      BY <1>3, <1>13, <2>1, <2>2, <2>3, <3>1, <3>2
  <2>4. JobOK(k, file, watch', missed', torn)
    BY <2>1, <2>2, <2>3 DEF JobOK
  <2> QED
    BY <2>4 DEF k
<1>17. DiskOK(disk, S, file, torn)
  BY <1>6 DEF ManagerOK
<1> HIDE DEF e, g
<1>18. CachedOK(S, file, watch', missed' \cup torn)
  BY <1>15 DEF g
<1> QED
  BY <1>2, <1>8, <1>11, <1>12, <1>16, <1>17, <1>18 DEF IInv

-----------------------------------------------------------------------------
(* Steps of the workers *)

\* A parse that moves on leaves the others as they are, but for what it tears.
LEMMA MoveStep ==
  ASSUME IInv, NEW j \in manager.jobs, NEW k \in Job, NEW tears, Moves(j, k, tears),
         k.handle = j.handle,
         disk' \in [Texture -> Files],
         \A h \in Texture : h # j.handle => disk'[h] = disk[h],
         JobOK(k, file, watch, missed, torn'),
         j.handle \in Texture \ torn' =>
           FilesOK(disk'[j.handle], InsideOf(manager', j.handle), file[j.handle])
  PROVE  IInv'
<1> DEFINE q == (manager.jobs \ {j}) \cup {k}
           S == [manager EXCEPT !.jobs = q]
           g == j.handle
<1>1. /\ manager' = S /\ UNCHANGED <<file, watch, missed>>
      /\ torn' \in {torn, torn \cup {g}}
  BY DEF Moves
<1>2. TypeOK /\ ManagerOK(manager) /\ manager \in ManagerType /\ manager.jobs \subseteq Job
  BY IInvManager, TypeFacts
<1>3. q \subseteq Job /\ g \in Handle
  BY <1>2 DEF Job
<1>4. S \in ManagerType /\ S.cached = manager.cached /\ S.failed = manager.failed /\ S.jobs = q
  BY <1>2, <1>3 DEF ManagerType
<1> HIDE DEF S
<1>5. TypeOK'
  BY <1>1, <1>2, <1>3, <1>4 DEF TypeOK
<1>6. \A h \in Handle : watch'[h].known <= file'[h].stamp
  BY <1>1 DEF IInv
<1>7. torn \subseteq torn'
  BY <1>1
<1>8. CachedOK(S, file, watch, missed \cup torn')
  <2>1. CachedOK(manager, file, watch, missed \cup torn)
    BY <1>2 DEF ManagerOK
  <2>2. \A h, c : Good(file, watch, missed \cup torn, h, c) => Good(file, watch, missed \cup torn', h, c)
    BY <1>7 DEF Good
  <2> QED
    BY <1>4, <2>1, <2>2 DEF CachedOK
<1>9. \A i \in q : JobOK(i, file, watch, missed, torn')
  <2> SUFFICES ASSUME NEW i \in manager.jobs PROVE JobOK(i, file, watch, missed, torn')
    OBVIOUS
  <2>1. JobOK(i, file, watch, missed, torn)
    BY <1>2 DEF ManagerOK
  <2> QED
    BY <1>7, <2>1 DEF JobOK
<1>10. DiskOK(disk', S, file, torn')
  <2> SUFFICES ASSUME NEW h \in Texture \ torn'
               PROVE  FilesOK(disk'[h], InsideOf(S, h), file[h])
    BY DEF DiskOK
  <2>1. CASE h = g
    BY <1>1, <2>1
  <2>2. CASE h # g
    <3>1. InsideOf(S, h) = InsideOf(manager, h)
      BY <1>4, <2>2 DEF InsideOf
    <3>2. h \in Texture \ torn /\ disk'[h] = disk[h]
      BY <1>7, <2>2
    <3>3. DiskOK(disk, manager, file, torn)
      BY <1>2 DEF ManagerOK
    <3> QED
      BY <3>1, <3>2, <3>3 DEF DiskOK
  <2> QED
    BY <2>1, <2>2
<1> QED
  BY <1>1, <1>4, <1>5, <1>6, <1>8, <1>9, <1>10 DEF IInv

\* A parse that goes to the files and tears nothing is the only one between two accesses.
LEMMA Alone ==
  ASSUME IInv, NEW j \in manager.jobs, NEW k \in Job, NEW tears, Moves(j, k, tears),
         k.handle = j.handle, j.at \in {"look", "write"} \/ Inside(j),
         j.handle \in Texture \ torn'
  PROVE  /\ j.handle \notin torn /\ ~tears
         /\ InsideOf(manager', j.handle) = IF Inside(k) THEN {k} ELSE {}
         /\ FilesOK(disk[j.handle], IF Inside(j) THEN {j} ELSE {}, file[j.handle])
<1>1. manager' = [manager EXCEPT !.jobs = (@ \ {j}) \cup {k}] /\ j.handle \notin torn
  BY DEF Moves
<1>2. ~Meets(j) /\ ~tears
  BY DEF Moves
<1>3. \A i \in manager.jobs \ {j} : i.handle = j.handle => ~Inside(i)
  BY <1>2 DEF Meets
<1>4. InsideOf(manager, j.handle) = IF Inside(j) THEN {j} ELSE {}
  BY <1>3 DEF InsideOf
<1>5. manager \in ManagerType
  BY IInvManager
<1>6. manager'.jobs = (manager.jobs \ {j}) \cup {k}
  BY <1>1, <1>5 DEF ManagerType
<1>7. InsideOf(manager', j.handle) = IF Inside(k) THEN {k} ELSE {}
  BY <1>3, <1>6 DEF InsideOf
<1>8. DiskOK(disk, manager, file, torn)
  BY DEF IInv
<1> QED
  BY <1>1, <1>2, <1>4, <1>7, <1>8 DEF DiskOK

\* A parse that is outside of the files and stays outside leaves what they hold.
LEMMA Apart ==
  ASSUME IInv, NEW j \in manager.jobs, NEW k \in Job, NEW tears, Moves(j, k, tears),
         k.handle = j.handle, ~Inside(j), ~Inside(k), j.handle \in Texture \ torn'
  PROVE  FilesOK(disk[j.handle], InsideOf(manager', j.handle), file[j.handle])
<1>1. manager' = [manager EXCEPT !.jobs = (@ \ {j}) \cup {k}] /\ j.handle \notin torn
  BY DEF Moves
<1>2. manager \in ManagerType /\ DiskOK(disk, manager, file, torn)
  BY IInvManager DEF IInv
<1>3. manager'.jobs = (manager.jobs \ {j}) \cup {k}
  BY <1>1, <1>2 DEF ManagerType
<1>4. InsideOf(manager', j.handle) = InsideOf(manager, j.handle)
  BY <1>3 DEF InsideOf
<1> QED
  BY <1>1, <1>2, <1>4 DEF DiskOK

LEMMA JobTypes ==
  ASSUME IInv, NEW j \in manager.jobs
  PROVE  /\ j \in Job /\ j.handle \in Handle /\ j.at \in Stages /\ j.stamp \in Nat
         /\ j.source \in Shows /\ j.out \in Shows
         /\ JobOK(j, file, watch, missed, torn)
         /\ file[j.handle].stamp \in Nat \ {0} /\ file[j.handle].content \in Held
         /\ file[j.handle].content # "none"
         /\ disk \in [Texture -> Files]
<1>1. manager.jobs \subseteq Job
  BY IInvManager, TypeFacts
<1>2. j \in Job /\ JobOK(j, file, watch, missed, torn)
  BY <1>1 DEF IInv
<1>3. j.handle \in Handle
  BY <1>2 DEF Job
<1>4. file[j.handle].content \in Held
  BY <1>3 DEF IInv, TypeOK
<1> QED
  BY <1>2, <1>3, <1>4, AssetsAssumption DEF IInv, TypeOK, Job, Held

\* Only a texture's parse gets as far as the files.
LEMMA AtFiles ==
  ASSUME IInv, NEW j \in manager.jobs, j.at \notin {"queued", "done"}
  PROVE  j.handle \in Texture /\ j.handle \notin Material /\ disk[j.handle] \in Files
<1>1. j.handle \in Handle /\ JobOK(j, file, watch, missed, torn) /\ disk \in [Texture -> Files]
  BY JobTypes
<1> QED
  BY <1>1 DEF JobOK, Handle

LEMMA BeginStep ==
  ASSUME IInv, NEW j \in manager.jobs, Begin(j)
  PROVE  IInv'
<1> DEFINE h == j.handle
           n == [j EXCEPT !.at = "done", !.out = "bad"]
           r == [[j EXCEPT !.stamp = file[h].stamp] EXCEPT !.at = "done", !.out = file[h].content]
           l == [[j EXCEPT !.stamp = file[h].stamp] EXCEPT !.at = "look"]
<1>1. /\ j \in Job /\ h \in Handle /\ j.stamp \in Nat /\ JobOK(j, file, watch, missed, torn)
      /\ file[h].stamp \in Nat \ {0} /\ file[h].content \in Held /\ file[h].content # "none"
      /\ disk \in [Texture -> Files]
  BY JobTypes
<1>2. j.at = "queued" /\ UNCHANGED disk
  BY DEF Begin
<1>3. PICK k : Moves(j, k, FALSE) /\ \/ ~j.pending /\ k = n
                                     \/ h \in Material /\ k = r
                                     \/ h \notin Material /\ k = l
  BY DEF Begin
<1>4. k \in Job /\ k.handle = h /\ k.stamp <= file[h].stamp
  <2>1. n \in Job /\ n.handle = h /\ n.stamp = j.stamp
    BY <1>1 DEF Job, Stages, Shows, Held
  <2>2. r \in Job /\ r.handle = h /\ r.stamp = file[h].stamp
    BY <1>1 DEF Job, Stages, Shows
  <2>3. l \in Job /\ l.handle = h /\ l.stamp = file[h].stamp
    BY <1>1 DEF Job, Stages
  <2>4. j.stamp <= file[h].stamp
    BY <1>1 DEF JobOK
  <2> HIDE DEF n, r, l
  <2> QED
    BY <1>1, <1>3, <2>1, <2>2, <2>3, <2>4
<1>5. \/ k.at = "done" /\ k.out = "bad" /\ ~k.pending
      \/ h \in Material /\ k.at = "done" /\ k.stamp = file[h].stamp /\ k.out = file[h].content
      \/ h \notin Material /\ k.at = "look" /\ k.stamp = file[h].stamp /\ k.out = j.out
  <2>1. n.at = "done" /\ n.out = "bad" /\ n.pending = j.pending
    BY <1>1 DEF Job
  <2>2. r.at = "done" /\ r.stamp = file[h].stamp /\ r.out = file[h].content
    BY <1>1 DEF Job
  <2>3. l.at = "look" /\ l.stamp = file[h].stamp /\ l.out = j.out
    BY <1>1 DEF Job
  <2> QED
    BY <1>3, <2>1, <2>2, <2>3
<1>6. JobOK(k, file, watch, missed, torn')
  BY <1>1, <1>2, <1>4, <1>5 DEF JobOK
<1>7. ~Inside(j) /\ ~Inside(k)
  BY <1>2, <1>5 DEF Inside
<1> HIDE DEF n, r, l
<1> QED
  BY <1>1, <1>2, <1>3, <1>4, <1>6, <1>7, MoveStep, Apart

LEMMA LookStep ==
  ASSUME IInv, NEW j \in manager.jobs, Look(j)
  PROVE  IInv'
<1> DEFINE h == j.handle
           d == disk[h]
           c == file[h].content
           cached == d.out # "none" /\ d.stamp # 0
<1>1. /\ j \in Job /\ h \in Handle /\ j.stamp \in Nat /\ JobOK(j, file, watch, missed, torn)
      /\ file[h].stamp \in Nat \ {0} /\ c \in Shows /\ c # "none"
      /\ disk \in [Texture -> Files]
  BY JobTypes DEF Shows
<1>2. j.at = "look" /\ UNCHANGED disk
  BY DEF Look
<1>3. h \in Texture /\ h \notin Material /\ d \in Files
  BY <1>2, AtFiles
<1>4. PICK k : Moves(j, k, FALSE) /\ \/ /\ cached /\ d.stamp = j.stamp
                                        /\ k = [j EXCEPT !.at = "serve", !.source = d.source]
                                     \/ /\ cached /\ d.source = c
                                        /\ k = [j EXCEPT !.at = "serve", !.source = c, !.out = c]
                                     \/ k = [j EXCEPT !.at = "compile", !.source = c, !.out = c]
  BY DEF Look
<1>5. k \in Job /\ k.handle = h /\ k.stamp = j.stamp
      /\ \/ cached /\ d.stamp = j.stamp /\ k.at = "serve" /\ k.source = d.source /\ k.out = "none"
         \/ cached /\ d.source = c /\ k.at = "serve" /\ k.source = c /\ k.out = c
         \/ k.at = "compile" /\ k.source = c /\ k.out = c
  <2>1. j.out = "none" /\ "none" \in Shows /\ d.source \in Shows
    BY <1>1, <1>2, <1>3 DEF JobOK, Shows, Files
  <2> HIDE DEF c, d
  <2>2. CASE k = [j EXCEPT !.at = "serve", !.source = d.source]
    BY <1>1, <1>4, <2>1, <2>2 DEF Job, Stages
  <2>3. CASE k = [j EXCEPT !.at = "serve", !.source = c, !.out = c]
    BY <1>1, <1>4, <2>3 DEF Job, Stages
  <2>4. CASE k = [j EXCEPT !.at = "compile", !.source = c, !.out = c]
    BY <1>1, <1>4, <2>4 DEF Job, Stages
  <2> QED
    BY <1>4, <2>2, <2>3, <2>4
<1>6. k.pending = j.pending
  <2> HIDE DEF c, d
  <2> QED
    BY <1>1, <1>4 DEF Job
<1>7. ~Inside(j)
  BY <1>2 DEF Inside
<1>8. h \notin torn' =>
        /\ h \notin torn /\ FilesOK(d, {}, file[h])
        /\ InsideOf(manager', h) = IF Inside(k) THEN {k} ELSE {}
  BY <1>2, <1>3, <1>4, <1>5, <1>6, <1>7, Alone
<1>9. h \notin torn' =>
        /\ d.stamp # 0 /\ d.stamp = file[h].stamp => d.source = c
        /\ cached => d.out = d.source
  BY <1>8 DEF FilesOK
<1> HIDE DEF c, d
<1>10. JobOK(k, file, watch, missed, torn')
  <2>1. k.pending /\ watch[h].known = file[h].stamp /\ h \notin missed => k.stamp = file[h].stamp
    BY <1>1, <1>2, <1>5, <1>6 DEF JobOK
  <2>2. k.stamp <= file[h].stamp
    BY <1>1, <1>5, <1>6 DEF JobOK
  <2> QED
    BY <1>1, <1>3, <1>5, <1>6, <1>9, <2>1, <2>2 DEF JobOK, c
<1>11. h \notin torn' => FilesOK(d, InsideOf(manager', h), file[h])
  <2> SUFFICES ASSUME h \notin torn' PROVE FilesOK(d, InsideOf(manager', h), file[h])
    OBVIOUS
  <2>1. \A i \in InsideOf(manager', h) : i = k
    BY <1>8
  <2>2. \A i \in InsideOf(manager', h) : i.at = "serve" /\ d.out = i.source
    BY <1>5, <1>6, <1>8, <1>9, <2>1 DEF Inside
  <2> QED
    BY <1>8, <1>9, <2>1, <2>2 DEF FilesOK
<1> QED
  BY <1>1, <1>2, <1>4, <1>5, <1>6, <1>10, <1>11, MoveStep DEF d

LEMMA ServeStep ==
  ASSUME IInv, NEW j \in manager.jobs, Serve(j)
  PROVE  IInv'
<1> DEFINE h == j.handle
           d == disk[h]
           c == file[h].content
           r == [j EXCEPT !.at = "record", !.out = d.out]
           n == [j EXCEPT !.at = "done", !.out = d.out]
           l == [j EXCEPT !.at = "compile"]
           m == [j EXCEPT !.at = "compile", !.out = c]
           moved == c # j.source
<1>1. /\ j \in Job /\ h \in Handle /\ j.stamp \in Nat /\ JobOK(j, file, watch, missed, torn)
      /\ j.source \in Shows /\ j.out \in Shows
      /\ file[h].stamp \in Nat \ {0} /\ c \in Shows /\ c # "none"
      /\ disk \in [Texture -> Files]
  BY JobTypes DEF Shows
<1>2. j.at = "serve" /\ UNCHANGED disk
  BY DEF Serve
<1>3. h \in Texture /\ h \notin Material /\ d \in Files
  BY <1>2, AtFiles
<1>4. PICK k :
        \/ Moves(j, k, FALSE) /\ \/ d.out # "none" /\ k = r
                                 \/ d.out # "none" /\ k = n
                                 \/ j.out # "none" /\ k = l
        \/ Moves(j, k, moved) /\ k = m
  BY DEF Serve
<1>5. k \in Job /\ k.handle = h /\ k.stamp = j.stamp /\ k.source = j.source
      /\ \/ d.out # "none" /\ k.at = "record" /\ k.out = d.out
         \/ d.out # "none" /\ k.at = "done" /\ k.out = d.out
         \/ j.out # "none" /\ k.at = "compile" /\ k.out = j.out
         \/ Moves(j, k, moved) /\ k.at = "compile" /\ k.out = c
  <2>1. d.out \in Shows
    BY <1>3 DEF Files
  <2> HIDE DEF c, d
  <2>2. CASE d.out # "none" /\ k = r
    BY <1>1, <2>1, <2>2 DEF Job, Stages
  <2>3. CASE d.out # "none" /\ k = n
    BY <1>1, <2>1, <2>3 DEF Job, Stages
  <2>4. CASE j.out # "none" /\ k = l
    BY <1>1, <2>4 DEF Job, Stages
  <2>5. CASE Moves(j, k, moved) /\ k = m
    <3>1. k \in Job /\ k.handle = h /\ k.stamp = j.stamp /\ k.source = j.source
          /\ k.at = "compile" /\ k.out = c
      BY <1>1, <2>5 DEF Job, Stages
    <3> QED
      BY <2>5, <3>1
  <2> QED
    BY ONLY <1>4, <2>2, <2>3, <2>4, <2>5
<1>6. k.pending = j.pending
  <2> HIDE DEF c, d
  <2> QED
    BY <1>1, <1>4 DEF Job
<1>7. Inside(j)
  BY <1>2 DEF Inside
<1>8. h \notin torn' =>
        /\ h \notin torn /\ FilesOK(d, {j}, file[h])
        /\ InsideOf(manager', h) = IF Inside(k) THEN {k} ELSE {}
        /\ Moves(j, k, moved) => c = j.source
  <2>1. CASE Moves(j, k, FALSE)
    BY <1>3, <1>5, <1>7, <2>1, Alone
  <2>2. CASE Moves(j, k, moved)
    BY <1>3, <1>5, <1>7, <2>2, Alone
  <2> QED
    BY <1>4, <2>1, <2>2
<1>9. h \notin torn' =>
        /\ d.out \in {j.source, "none"} /\ j.out \in {j.source, "none"}
        /\ j.stamp = file[h].stamp => j.source = c
  BY <1>1, <1>2, <1>8 DEF FilesOK, JobOK
<1> HIDE DEF c, d
<1>10. JobOK(k, file, watch, missed, torn')
  <2>1. k.pending /\ watch[h].known = file[h].stamp /\ h \notin missed => k.stamp = file[h].stamp
    BY <1>1, <1>2, <1>5, <1>6 DEF JobOK
  <2>2. k.stamp <= file[h].stamp
    BY <1>1, <1>5 DEF JobOK
  <2>3. h \notin torn' => k.out = k.source /\ (k.stamp = file[h].stamp => k.source = c)
    BY <1>5, <1>8, <1>9
  <2> QED
    BY <1>1, <1>3, <1>5, <1>6, <2>1, <2>2, <2>3 DEF JobOK, c
<1>11. h \notin torn' => FilesOK(d, InsideOf(manager', h), file[h])
  <2> SUFFICES ASSUME h \notin torn' PROVE FilesOK(d, InsideOf(manager', h), file[h])
    OBVIOUS
  <2>1. \A i \in InsideOf(manager', h) : i = k /\ i.at = "record" /\ d.out = i.out
    BY <1>5, <1>8 DEF Inside
  <2>2. d.out # "none" /\ d.stamp # 0 => d.out = d.source
    BY <1>2, <1>8 DEF FilesOK
  <2> QED
    BY <1>8, <2>1, <2>2 DEF FilesOK
<1> QED
  BY <1>1, <1>2, <1>4, <1>5, <1>10, <1>11, MoveStep DEF d

LEMMA CompileStep ==
  ASSUME IInv, NEW j \in manager.jobs, Compile(j)
  PROVE  IInv'
<1> DEFINE h == j.handle
<1>1. /\ j \in Job /\ h \in Handle /\ j.stamp \in Nat /\ JobOK(j, file, watch, missed, torn)
      /\ j.source \in Shows /\ j.out \in Shows /\ disk \in [Texture -> Files]
  BY JobTypes
<1>2. j.at = "compile" /\ UNCHANGED disk
  BY DEF Compile
<1>3. PICK k : Moves(j, k, FALSE) /\ \/ k = [j EXCEPT !.at = "write"]
                                     \/ /\ ~j.pending \/ j.out = "bad"
                                        /\ k = [j EXCEPT !.at = "done", !.out = "bad"]
  BY DEF Compile
<1>4. k \in Job /\ k.handle = h /\ k.stamp = j.stamp /\ k.source = j.source
      /\ \/ k.at = "write" /\ k.out = j.out
         \/ (~j.pending \/ j.out = "bad") /\ k.at = "done" /\ k.out = "bad"
  <2>1. CASE k = [j EXCEPT !.at = "write"]
    BY <1>1, <2>1 DEF Job, Stages
  <2>2. CASE (~j.pending \/ j.out = "bad") /\ k = [j EXCEPT !.at = "done", !.out = "bad"]
    <3>1. k \in Job /\ k.handle = h /\ k.stamp = j.stamp /\ k.source = j.source
          /\ k.at = "done" /\ k.out = "bad"
      BY <1>1, <2>2 DEF Job, Stages, Shows, Held
    <3> QED
      BY <2>2, <3>1
  <2> QED
    BY <1>3, <2>1, <2>2
<1>5. k.pending = j.pending
  BY <1>1, <1>3 DEF Job
<1>6. torn \subseteq torn'
  BY <1>3 DEF Moves
<1>7. JobOK(k, file, watch, missed, torn')
  BY <1>1, <1>2, <1>4, <1>5, <1>6 DEF JobOK
<1>8. ~Inside(j) /\ ~Inside(k)
  BY <1>2, <1>4, <1>5 DEF Inside
<1> QED
  BY <1>1, <1>2, <1>3, <1>4, <1>5, <1>7, <1>8, MoveStep, Apart

LEMMA WriteStep ==
  ASSUME IInv, NEW j \in manager.jobs, Write(j)
  PROVE  IInv'
<1> DEFINE h == j.handle
           k == [j EXCEPT !.at = "rename"]
<1>1. /\ j \in Job /\ h \in Handle /\ j.stamp \in Nat /\ JobOK(j, file, watch, missed, torn)
      /\ j.source \in Shows /\ j.out \in Shows /\ disk \in [Texture -> Files]
  BY JobTypes
<1>2. j.at = "write" /\ Moves(j, k, FALSE) /\ disk' = [disk EXCEPT ![h].temp = j.out]
  BY DEF Write
<1>3. h \in Texture /\ disk[h] \in Files
  BY <1>2, AtFiles
<1>4. /\ k \in Job /\ k.handle = h /\ k.at = "rename" /\ k.stamp = j.stamp
      /\ k.source = j.source /\ k.out = j.out
  BY <1>1 DEF Job, Stages
<1>5. k.pending = j.pending
  BY <1>1 DEF Job
<1> HIDE DEF k
<1>6. torn \subseteq torn'
  BY <1>2 DEF Moves
<1>7. JobOK(k, file, watch, missed, torn')
  BY <1>1, <1>2, <1>4, <1>5, <1>6 DEF JobOK
<1>8. /\ disk' \in [Texture -> Files]
      /\ \A t \in Texture : t # h => disk'[t] = disk[t]
      /\ disk'[h].temp = j.out /\ disk'[h].out = disk[h].out
      /\ disk'[h].stamp = disk[h].stamp /\ disk'[h].source = disk[h].source
  BY <1>1, <1>2, <1>3 DEF Files
<1>9. ~Inside(j) /\ Inside(k)
  BY <1>2, <1>4, <1>5 DEF Inside
<1>10. h \notin torn' => FilesOK(disk[h], {}, file[h]) /\ InsideOf(manager', h) = {k}
  BY <1>2, <1>3, <1>4, <1>5, <1>9, Alone
<1>11. h \notin torn' => FilesOK(disk'[h], InsideOf(manager', h), file[h])
  BY <1>4, <1>5, <1>8, <1>10 DEF FilesOK
<1> QED
  BY <1>2, <1>4, <1>5, <1>7, <1>8, <1>11, MoveStep

LEMMA RenameStep ==
  ASSUME IInv, NEW j \in manager.jobs, Rename(j)
  PROVE  IInv'
<1> DEFINE h == j.handle
           d == disk[h]
<1>1. /\ j \in Job /\ h \in Handle /\ j.stamp \in Nat /\ JobOK(j, file, watch, missed, torn)
      /\ j.source \in Shows /\ j.out \in Shows /\ disk \in [Texture -> Files]
  BY JobTypes
<1>2. j.at = "rename"
  BY DEF Rename
<1>3. h \in Texture /\ d \in Files
  BY <1>2, AtFiles
<1>4. PICK k : Moves(j, k, FALSE) /\ \/ /\ k = [j EXCEPT !.at = "record"]
                                        /\ disk' = [disk EXCEPT ![h].out = d.temp, ![h].temp = "none"]
                                     \/ /\ d.temp = "none" /\ UNCHANGED disk
                                        /\ k = [j EXCEPT !.at = "done"]
  BY DEF Rename
<1>5. /\ k \in Job /\ k.handle = h /\ k.stamp = j.stamp
      /\ k.source = j.source /\ k.out = j.out
      /\ \/ /\ k.at = "record"
            /\ disk' = [disk EXCEPT ![h].out = d.temp, ![h].temp = "none"]
         \/ d.temp = "none" /\ UNCHANGED disk /\ k.at = "done"
  <2> HIDE DEF d
  <2>1. CASE k = [j EXCEPT !.at = "record"]
    <3>1. /\ k \in Job /\ k.handle = h /\ k.stamp = j.stamp
          /\ k.source = j.source /\ k.out = j.out /\ k.at = "record"
      BY <1>1, <2>1 DEF Job, Stages
    <3>2. k # [j EXCEPT !.at = "done"]
      BY <1>1, <3>1 DEF Job
    <3> QED
      BY <1>4, <3>1, <3>2
  <2>2. CASE d.temp = "none" /\ UNCHANGED disk /\ k = [j EXCEPT !.at = "done"]
    <3>1. /\ k \in Job /\ k.handle = h /\ k.stamp = j.stamp
          /\ k.source = j.source /\ k.out = j.out /\ k.at = "done"
      BY <1>1, <2>2 DEF Job, Stages
    <3> QED
      BY <2>2, <3>1
  <2> QED
    BY <1>4, <2>1, <2>2
<1>6. k.pending = j.pending
  BY <1>1, <1>4 DEF Job
<1>7. torn \subseteq torn'
  BY <1>4 DEF Moves
<1>8. JobOK(k, file, watch, missed, torn')
  BY <1>1, <1>2, <1>5, <1>6, <1>7 DEF JobOK
<1>9. Inside(j)
  BY <1>2 DEF Inside
<1>10. h \notin torn' => FilesOK(d, {j}, file[h])
                        /\ InsideOf(manager', h) = IF Inside(k) THEN {k} ELSE {}
  BY <1>3, <1>4, <1>5, <1>6, <1>9, Alone
<1>11. CASE k.at = "record" /\ disk' = [disk EXCEPT ![h].out = d.temp, ![h].temp = "none"]
  <2>1. /\ disk' \in [Texture -> Files]
        /\ \A t \in Texture : t # h => disk'[t] = disk[t]
        /\ disk'[h].out = d.temp /\ disk'[h].stamp = d.stamp /\ disk'[h].source = d.source
    <3>1. [d EXCEPT !.out = d.temp, !.temp = "none"] \in Files
      BY <1>3 DEF Files, Shows
    <3>2. disk' = [disk EXCEPT ![h] = [d EXCEPT !.out = d.temp, !.temp = "none"]]
      BY <1>1, <1>3, <1>11
    <3> QED
      BY <1>1, <1>3, <3>1, <3>2 DEF Files
  <2>2. h \notin torn' => FilesOK(disk'[h], InsideOf(manager', h), file[h])
    BY <1>2, <1>5, <1>6, <1>10, <1>11, <2>1 DEF FilesOK, Inside
  <2> QED
    BY <1>4, <1>5, <1>6, <1>8, <2>1, <2>2, MoveStep
<1>12. CASE d.temp = "none" /\ UNCHANGED disk /\ k.at = "done"
  <2>1. ~Inside(k)
    BY <1>12 DEF Inside
  <2>2. h \notin torn' => FilesOK(d, InsideOf(manager', h), file[h])
    BY <1>2, <1>10, <2>1 DEF FilesOK
  <2> QED
    BY <1>1, <1>4, <1>5, <1>6, <1>8, <1>12, <2>2, MoveStep
<1> QED
  BY <1>5, <1>6, <1>11, <1>12

LEMMA RecordStep ==
  ASSUME IInv, NEW j \in manager.jobs, Record(j)
  PROVE  IInv'
<1> DEFINE h == j.handle
           k == [j EXCEPT !.at = "done"]
<1>1. /\ j \in Job /\ h \in Handle /\ j.stamp \in Nat /\ JobOK(j, file, watch, missed, torn)
      /\ j.source \in Shows /\ j.out \in Shows /\ disk \in [Texture -> Files]
  BY JobTypes
<1>2. /\ j.at = "record" /\ Moves(j, k, FALSE)
      /\ disk' = [disk EXCEPT ![h].stamp = j.stamp, ![h].source = j.source]
  BY DEF Record
<1>3. h \in Texture /\ disk[h] \in Files
  BY <1>2, AtFiles
<1>4. /\ k \in Job /\ k.handle = h /\ k.at = "done" /\ k.stamp = j.stamp
      /\ k.source = j.source /\ k.out = j.out
  BY <1>1 DEF Job, Stages
<1>5. k.pending = j.pending
  BY <1>1 DEF Job
<1>6. torn \subseteq torn'
  BY <1>2 DEF Moves
<1> HIDE DEF k
<1>7. JobOK(k, file, watch, missed, torn')
  BY <1>1, <1>2, <1>4, <1>5, <1>6 DEF JobOK
<1>8. /\ disk' \in [Texture -> Files]
      /\ \A t \in Texture : t # h => disk'[t] = disk[t]
      /\ disk'[h].out = disk[h].out /\ disk'[h].stamp = j.stamp /\ disk'[h].source = j.source
  <2>1. [disk[h] EXCEPT !.stamp = j.stamp, !.source = j.source] \in Files
    BY <1>1, <1>3 DEF Files
  <2>2. disk' = [disk EXCEPT ![h] = [disk[h] EXCEPT !.stamp = j.stamp, !.source = j.source]]
    BY <1>1, <1>2, <1>3
  <2> QED
    BY <1>1, <1>3, <2>1, <2>2 DEF Files
<1>9. Inside(j) /\ ~Inside(k)
  BY <1>2, <1>4, <1>5 DEF Inside
<1>10. h \notin torn' => h \notin torn /\ FilesOK(disk[h], {j}, file[h]) /\ InsideOf(manager', h) = {}
  BY <1>2, <1>3, <1>4, <1>5, <1>9, Alone
<1>11. /\ j.stamp <= file[h].stamp /\ j.out # "none"
       /\ h \notin torn => j.out = j.source /\ (j.stamp = file[h].stamp => j.source = file[h].content)
  BY <1>1, <1>2 DEF JobOK
<1>12. h \notin torn' => FilesOK(disk'[h], InsideOf(manager', h), file[h])
  BY <1>2, <1>8, <1>10, <1>11 DEF FilesOK
<1> QED
  BY <1>2, <1>4, <1>5, <1>7, <1>8, <1>12, MoveStep

\* What cannot be written leaves the files as they were, or with a record that is not one.
LEMMA NotPersistedStep ==
  ASSUME IInv, NEW j \in manager.jobs, NotPersisted(j)
  PROVE  IInv'
<1> DEFINE h == j.handle
           d == disk[h]
           k == [j EXCEPT !.at = "done"]
<1>1. /\ j \in Job /\ h \in Handle /\ j.stamp \in Nat /\ JobOK(j, file, watch, missed, torn)
      /\ j.source \in Shows /\ j.out \in Shows /\ disk \in [Texture -> Files]
      /\ file[h].stamp \in Nat \ {0}
  BY JobTypes
<1>2. j.at \in {"write", "rename", "record"}
  BY DEF NotPersisted
<1>3. h \in Texture /\ d \in Files
  BY <1>2, AtFiles
<1>4. PICK tears \in BOOLEAN :
        /\ Moves(j, k, tears)
        /\ \/ j.at \in {"write", "rename"} /\ \/ disk' = disk
                                              \/ disk' = [disk EXCEPT ![h].temp = "bad"]
                                              \/ disk' = [disk EXCEPT ![h].temp = "none"]
           \/ tears /\ disk' = disk
           \/ j.at = "record" /\ disk' = [disk EXCEPT ![h].stamp = 0]
  BY DEF NotPersisted
<1>5. /\ k \in Job /\ k.handle = h /\ k.at = "done" /\ k.stamp = j.stamp
      /\ k.source = j.source /\ k.out = j.out
  BY <1>1 DEF Job, Stages
<1>6. k.pending = j.pending
  BY <1>1 DEF Job
<1>7. torn \subseteq torn'
  BY <1>4 DEF Moves
<1> HIDE DEF k
<1>8. JobOK(k, file, watch, missed, torn')
  BY <1>1, <1>2, <1>5, <1>6, <1>7 DEF JobOK
<1>9. /\ disk' \in [Texture -> Files]
      /\ \A t \in Texture : t # h => disk'[t] = disk[t]
      /\ disk'[h].out = d.out /\ disk'[h].source = d.source
      /\ \/ j.at \in {"write", "rename"} /\ disk'[h].stamp = d.stamp
         \/ tears
         \/ j.at = "record" /\ disk'[h].stamp = 0
  BY <1>1, <1>3, <1>4 DEF Files, Shows, Held
<1>10. ~Inside(k)
  BY <1>5, <1>6 DEF Inside
<1>11. h \notin torn' => /\ ~tears /\ FilesOK(d, IF Inside(j) THEN {j} ELSE {}, file[h])
                         /\ InsideOf(manager', h) = {}
  BY <1>2, <1>3, <1>4, <1>5, <1>6, <1>10, Alone DEF Inside
<1>12. h \notin torn' => FilesOK(disk'[h], InsideOf(manager', h), file[h])
  <2> SUFFICES ASSUME h \notin torn' PROVE FilesOK(disk'[h], {}, file[h])
    BY <1>11
  <2>1. CASE j.at \in {"write", "rename"} /\ disk'[h].stamp = d.stamp
    <3>1. \A i \in IF Inside(j) THEN {j} ELSE {} : i.at # "record"
      BY <2>1
    <3> QED
      BY <1>9, <1>11, <2>1, <3>1 DEF FilesOK
  <2>2. CASE disk'[h].stamp = 0
    BY <1>1, <2>2 DEF FilesOK
  <2> QED
    BY <1>9, <1>11, <2>1, <2>2
<1> QED
  BY <1>4, <1>5, <1>6, <1>8, <1>9, <1>12, MoveStep

-----------------------------------------------------------------------------
(* Steps of the world, and the theorems *)

LEMMA InitIInv == Init => IInv
<1> SUFFICES ASSUME Init PROVE IInv
  OBVIOUS
<1>1. /\ file \in [Handle -> [stamp : Nat \ {0}, content : Held]]
      /\ \A h \in Handle : file[h].stamp = 1
  BY DEF Init, Held
<1>2. NewManager \in ManagerType
  BY DEF NewManager, ManagerType, NoObject, NoMap, Object, Shows
<1>3. TypeOK
  BY <1>1, <1>2 DEF Init, TypeOK, NoOutput, Files, Shows
<1>4. CachedOK(manager, file, watch, missed \cup torn)
  BY DEF Init, NewManager, CachedOK, NoObject, NoMap, Handle
<1>5. DiskOK(disk, manager, file, torn)
  BY <1>1 DEF Init, NewManager, DiskOK, FilesOK, InsideOf, NoOutput, Handle
<1> QED
  BY <1>1, <1>3, <1>4, <1>5 DEF IInv, Init, NewManager

\* A new stamp is one that nothing has seen.
LEMMA EditStep ==
  ASSUME IInv, NEW g \in Handle, NEW c \in Content \cup {"bad"}, Edit(g, c)
  PROVE  IInv'
<1>1. UNCHANGED <<disk, watch, manager, missed, torn>>
  BY DEF Edit
<1>2. TypeOK /\ ManagerOK(manager) /\ manager.jobs \subseteq Job
  BY IInvManager, TypeFacts
<1>3. \A h \in Handle : /\ file[h].stamp \in Nat \ {0} /\ watch[h].known \in Nat
                        /\ watch[h].known <= file[h].stamp
  BY <1>2 DEF IInv, TypeOK
<1>4. /\ file' \in [Handle -> [stamp : Nat \ {0}, content : Held]]
      /\ \A h \in Handle : h # g => file'[h] = file[h]
      /\ file'[g].stamp = file[g].stamp + 1
  BY <1>2, <1>3 DEF Edit, TypeOK, Held
<1>5. TypeOK'
  BY <1>1, <1>2, <1>4 DEF TypeOK
<1>6. \A h \in Handle : watch[h].known <= file'[h].stamp
  BY <1>3, <1>4
<1>7. watch[g].known # file'[g].stamp
  BY <1>3, <1>4
<1>8. CachedOK(manager, file', watch, missed \cup torn)
  <2>1. \A h \in Handle : \A a : Good(file, watch, missed \cup torn, h, a) =>
                                   Good(file', watch, missed \cup torn, h, a)
    BY <1>4, <1>7 DEF Good
  <2>2. Map \in [Material -> Handle] /\ manager.failed \subseteq Handle
    BY AssetsAssumption, IInvManager, TypeFacts DEF Handle
  <2> QED
    BY <1>2, <2>1, <2>2 DEF ManagerOK, CachedOK
<1>9. \A j \in manager.jobs : JobOK(j, file', watch, missed, torn)
  <2> TAKE j \in manager.jobs
  <2>1. JobOK(j, file, watch, missed, torn) /\ j.handle \in Handle /\ j.stamp \in Nat
    BY <1>2 DEF ManagerOK, Job
  <2>2. CASE j.handle = g
    <3>1. j.stamp <= file'[g].stamp /\ j.stamp # file'[g].stamp
      BY <1>3, <1>4, <2>1, <2>2 DEF JobOK
    <3> QED
      BY <1>7, <2>1, <2>2, <3>1 DEF JobOK
  <2>3. CASE j.handle # g
    BY <1>4, <2>1, <2>3 DEF JobOK
  <2> QED
    BY <2>2, <2>3
<1>10. DiskOK(disk, manager, file', torn)
  <2> SUFFICES ASSUME NEW h \in Texture \ torn
               PROVE  FilesOK(disk[h], InsideOf(manager, h), file'[h])
    BY DEF DiskOK
  <2>1. FilesOK(disk[h], InsideOf(manager, h), file[h])
    BY <1>2 DEF ManagerOK, DiskOK
  <2>2. disk[h].stamp \in Nat /\ h \in Handle
    BY <1>2 DEF TypeOK, Files, Handle
  <2>3. CASE h = g
    <3>1. disk[h].stamp <= file'[h].stamp /\ disk[h].stamp # file'[h].stamp
      BY <1>3, <1>4, <2>1, <2>2, <2>3 DEF FilesOK
    <3> QED
      BY <2>1, <3>1 DEF FilesOK
  <2>4. CASE h # g
    BY <1>4, <2>1, <2>2, <2>4
  <2> QED
    BY <2>3, <2>4
<1> QED
  BY <1>1, <1>5, <1>6, <1>8, <1>9, <1>10 DEF IInv

LEMMA CrashStep ==
  ASSUME IInv, Crash
  PROVE  IInv'
<1>1. /\ manager' = NewManager /\ UNCHANGED <<file, disk>> /\ missed' = {}
      /\ watch' = [h \in Handle |-> [known |-> 0, candidate |-> 0]]
      /\ torn' = torn \cup {j.handle : j \in {j \in manager.jobs : j.at = "record"}}
  BY DEF Crash
<1>2. TypeOK /\ ManagerOK(manager) /\ manager.jobs \subseteq Job
  BY IInvManager, TypeFacts
<1>3. NewManager \in ManagerType
  BY DEF NewManager, ManagerType, NoObject, NoMap, Object, Shows
<1>4. TypeOK'
  <2>1. torn' \subseteq Handle
    BY <1>1, <1>2 DEF TypeOK, Job
  <2>2. watch' \in [Handle -> [known : Nat, candidate : Nat]]
    BY <1>1
  <2> QED
    BY <1>1, <1>2, <1>3, <2>1, <2>2 DEF TypeOK
<1>5. \A h \in Handle : watch'[h].known <= file[h].stamp
  BY <1>1, <1>2 DEF TypeOK
<1>6. CachedOK(manager', file', watch', missed' \cup torn')
  BY <1>1 DEF NewManager, CachedOK, NoObject, NoMap, Handle
<1>7. DiskOK(disk, manager', file, torn')
  <2> SUFFICES ASSUME NEW h \in Texture \ torn'
               PROVE  FilesOK(disk[h], InsideOf(manager', h), file[h])
    BY DEF DiskOK
  <2>1. FilesOK(disk[h], InsideOf(manager, h), file[h])
    BY <1>1, <1>2 DEF ManagerOK, DiskOK
  <2>2. \A j \in InsideOf(manager, h) : j.at # "record"
    BY <1>1 DEF InsideOf
  <2>3. InsideOf(manager', h) = {}
    BY <1>1 DEF NewManager, InsideOf
  <2> QED
    BY <2>1, <2>2, <2>3 DEF FilesOK
<1>8. manager'.jobs = {}
  BY <1>1 DEF NewManager
<1> QED
  BY <1>1, <1>4, <1>5, <1>6, <1>7, <1>8 DEF IInv

LEMMA NextKeeps == IInv /\ [Next]_vars => IInv'
<1> SUFFICES ASSUME IInv, [Next]_vars PROVE IInv'
  OBVIOUS
<1>1. CASE UpdateTextures \/ UpdateMaterials
  BY <1>1, UpdateStep DEF UpdateTextures, UpdateMaterials
<1>2. CASE Poll
  BY <1>2, PollStep
<1>3. CASE PollLater \/ EndFrame \/ ReloadOver
  BY <1>3, IInvManager, ManagerStep, ReloadOverStep DEF PollLater, EndFrame, IInv, TypeOK
<1>4. CASE WaitOver \/ \E h \in Handle : WaitFor(h)
  BY <1>4, WaitStep
<1>5. ASSUME NEW h \in Handle, Ask(h) \/ Drop(h) \/ Reload(h) PROVE IInv'
  BY <1>5, AskStep, DropStep, ReloadStep
<1>6. ASSUME NEW h \in Handle, Work(h) PROVE IInv'
  BY <1>6, BeginStep, LookStep, ServeStep, CompileStep, WriteStep, RenameStep, RecordStep DEF Work
<1>7. ASSUME NEW h \in Handle, NEW c \in Content \cup {"bad"}, Edit(h, c) PROVE IInv'
  BY <1>7, EditStep
<1>8. CASE Crash
  BY <1>8, CrashStep
<1>9. ASSUME NEW j \in manager.jobs, NotPersisted(j) PROVE IInv'
  BY <1>9, NotPersistedStep
<1>10. CASE UNCHANGED vars
  BY <1>10 DEF vars, IInv, TypeOK
<1> QED
  BY <1>1, <1>2, <1>3, <1>4, <1>5, <1>6, <1>7, <1>8, <1>9, <1>10 DEF Next, Main

\* IInv is inductive.
THEOREM Inductive == Spec => []IInv
<1>1. IInv /\ [Next]_vars => IInv'
  BY NextKeeps
<1> QED
  BY InitIInv, <1>1, PTL DEF Spec

\* Managers, disk and watcher keep their types.
THEOREM TypeCorrect == Spec => []TypeOK
<1>1. IInv => TypeOK
  BY DEF IInv
<1> QED
  BY <1>1, Inductive, PTL

\* Nothing made of bytes a file no longer has stays unnoticed, for any assets, any caps,
\* any number of edits, reloads and crashes, and workers at any moment between.
THEOREM NothingStaleStays == Spec => []StaleIsNoticed
<1>1. IInv => StaleIsNoticed
  <2> SUFFICES ASSUME IInv PROVE StaleIsNoticed
    OBVIOUS
  <2>1. \A h, c : Good(file, watch, missed \cup torn, h, c) <=> Accounted(h, c)
    BY DEF Good, Accounted
  <2>2. CachedOK(manager, file, watch, missed \cup torn)
    BY DEF IInv
  <2>3. \A j \in manager.jobs : j.pending /\ j.at = "done" => Accounted(j.handle, j.out)
    <3> SUFFICES ASSUME NEW j \in manager.jobs, j.pending, j.at = "done"
                 PROVE  Accounted(j.handle, j.out)
      OBVIOUS
    <3>1. j \in Job /\ JobOK(j, file, watch, missed, torn) /\ TypeOK
      BY JobTypes, IInvManager
    <3> QED
      BY <2>1, <3>1, DoneIsGood
  <2> QED
    BY <2>1, <2>2, <2>3 DEF CachedOK, StaleIsNoticed, Resident, Pending
<1> QED
  BY <1>1, Inductive, PTL

\* Unless two parses met in its files, or a record was not written or is of other bytes,
\* a compiled output whose record has the stamp of the source is the source's, however
\* many parses, failures, crashes and edits there were: the cache may be trusted by its
\* stamp.
CacheIsTrue ==
  \A h \in Texture \ torn :
    /\ \A j \in manager.jobs : j.handle = h => j.at # "record"
    /\ disk[h].out # "none" /\ disk[h].stamp # 0 /\ disk[h].stamp = file[h].stamp
    => disk[h].out = file[h].content

\* Workers, the watcher, Reload, edits and crashes all keep it so, at any moment between.
THEOREM CacheTellsTheTruth == Spec => []CacheIsTrue
<1>1. IInv => CacheIsTrue
  BY DEF IInv, DiskOK, FilesOK, InsideOf, CacheIsTrue
<1> QED
  BY <1>1, Inductive, PTL
=============================================================================
