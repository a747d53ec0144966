-------------------------- MODULE StartFormProofs --------------------------
(***************************************************************************)
(* Proofs about StartForm, for any number of visits, restarts and calls.   *)
(*                                                                         *)
(* Each property of the form is a property of the calls in service once    *)
(* the calls are part of it: first the relations that say what a step may  *)
(* do to them, then the types, then one inductive invariant per property.  *)
(***************************************************************************)
EXTENDS StartForm, FiniteSetTheorems, SequenceTheorems, TLAPS

-----------------------------------------------------------------------------
(* The invariant *)

Awaited(c) == c.kind = "acquire" /\ c.waits
Granted(c) == Awaited(c) /\ c.stage = "ok"
Returning(c) == c.kind = "release" /\ c.stage = "sent"
Running(c) == c.stage \in {"sent", "checked"}

\* The form that is shown waits for the post or the release of its inspection.
Ending(c, t) ==
  c.kind # "acquire" /\ c.waits /\ c.visit = t.visit /\ t.stage # "away"

\* What a call has to do with the tab: only a form that reserves the unit waits for
\* an acquire, and a form whose inspection is being ended has given up the lock.
CallOf(c, t) ==
  /\ c.visit <= t.visit
  /\ ~Running(c) => c.waits
  /\ c.stage = "checked" => c.kind = "create"
  /\ Awaited(c) => t.stage = "reserving" /\ c.visit = t.visit
  /\ Ending(c, t) => t.stage = "ready" /\ (c.kind = "release" => ~t.held)

\* Whatever releases the unit was sent before the acquire that is awaited.
CallsOf(cs, t) ==
  /\ \A i \in DOMAIN cs : CallOf(cs[i], t)
  /\ \A i, j \in DOMAIN cs : Awaited(cs[i]) /\ Awaited(cs[j]) => i = j
  /\ \A i, j \in DOMAIN cs : Awaited(cs[i]) /\ cs[j].kind = "release" => j < i

TabOf(t) ==
  /\ t.stage # "away" => t.visit \in Visits
  /\ t.held => t.stage = "ready"

\* A form waits for the end of one submit.
SubmitOf(cs, t) ==
  /\ \A i \in DOMAIN cs : Ending(cs[i], t) => t.submitting
  /\ \A i, j \in DOMAIN cs : Ending(cs[i], t) /\ Ending(cs[j], t) => i = j

AnyGranted(cs) == \E i \in DOMAIN cs : Granted(cs[i])
AnyReturning(cs) == \E i \in DOMAIN cs : Returning(cs[i])

\* From the answer to its acquire on a form holds the lock: no release is on its way.
HoldOf(cs, t, h, r) ==
  t.held \/ AnyGranted(cs) => ~AnyReturning(cs) /\ (h = "me" \/ r > 0)

AllAwaited(cs) == \A i \in DOMAIN cs : cs[i].kind = "acquire" => cs[i].waits

\* Somebody will return the lock.
ReturnOf(cs, t, h) ==
  /\ AllAwaited(cs)
  /\ h = "me" => t.held \/ AnyGranted(cs) \/ AnyReturning(cs)

\* There is one create, of the form that is shown; once it has been checked, the
\* lock is still held and nothing is recorded, because no release is on its way.
CreateOf(cs, t, h, r) ==
  /\ r <= 1
  /\ \A i \in DOMAIN cs : cs[i].kind = "create" => Ending(cs[i], t)
  /\ \A i, j \in DOMAIN cs : cs[i].kind = "create" /\ cs[j].kind = "release" => j < i
  /\ \A i \in DOMAIN cs : cs[i].stage = "checked" =>
       h = "me" /\ r = 0 /\ ~AnyReturning(cs)

HoldTrouble == {"expired", "overtaken"}
ReturnTrouble == {"aborted", "closed", "lost"}
CreateTrouble == {"expired", "closed", "lost", "overtaken", "left_posting"}

TypeInv == TypeOK /\ CallsOf(calls, tab) /\ TabOf(tab)
SubmitInv == SubmitOf(calls, tab)
HoldInv == Excused(HoldTrouble) \/ HoldOf(calls, tab, holder, recorded)
ReturnInv == Excused(ReturnTrouble) \/ ReturnOf(calls, tab, holder)
CreateInv == Excused(CreateTrouble) \/ CreateOf(calls, tab, holder, recorded)

\* Photos on their way, the draft and the form that is shown are of this epoch.
AnswersInv ==
  /\ \A e \in uploads : e <= epoch
  /\ \/ Excused({"late_upload"})
     \/ draft \subseteq {0, epoch} /\ (tab.stage # "away" => form \subseteq {epoch})

-----------------------------------------------------------------------------
(* Calls *)

LEMMA CallFields ==
  ASSUME NEW c \in Call
  PROVE  /\ c.kind \in {"acquire", "release", "create"} /\ c.visit \in Visits
         /\ c.waits \in BOOLEAN /\ c.visit \in Nat
         /\ c.stage \in {"sent", "checked", "ok", "held", "refused"}
  BY DEF Call, Visits

\* What has become of a call that was neither answered nor sent again.
Heir(c, d) ==
  /\ d.kind = c.kind /\ d.visit = c.visit /\ d.stage = c.stage
  /\ d.waits => c.waits
  /\ c.waits /\ ~Running(c) => d.waits

Rises(m) == \A j, k \in DOMAIN m : j < k => m[j] < m[k]

\* Some of the calls are gone, and of the others nobody awaits those in I.
Remains(cs, ds, I) ==
  \E m \in [DOMAIN ds -> DOMAIN cs] :
    /\ Rises(m)
    /\ \A k \in DOMAIN ds : Heir(cs[m[k]], ds[k]) /\ (m[k] \in I => ~ds[k].waits)

\* Call i is gone.
Removed(cs, ds, i) ==
  \E m \in [DOMAIN ds -> DOMAIN cs] :
    /\ Rises(m)
    /\ \A k \in DOMAIN ds : ds[k] = cs[m[k]] /\ m[k] # i
    /\ \A n \in DOMAIN cs : n = i \/ \E k \in DOMAIN ds : m[k] = n

\* Call i is in another stage.
Answered(cs, ds, i, stage) ==
  /\ DOMAIN ds = DOMAIN cs
  /\ \A k \in DOMAIN cs : k = i \/ ds[k] = cs[k]
  /\ ds[i].kind = cs[i].kind /\ ds[i].visit = cs[i].visit
  /\ ds[i].waits = cs[i].waits /\ ds[i].stage = stage

\* There is a last call, n.
Added(cs, ds, n, kind, visit, waits) ==
  /\ DOMAIN ds = DOMAIN cs \cup {n} /\ \A k \in DOMAIN cs : k < n /\ ds[k] = cs[k]
  /\ ds[n].kind = kind /\ ds[n].visit = visit
  /\ ds[n].waits = waits /\ ds[n].stage = "sent"

LEMMA RemoveAtIs ==
  ASSUME NEW cs \in Seq(Call), NEW i \in DOMAIN cs
  PROVE  /\ RemoveAt(cs, i) \in Seq(Call) /\ Removed(cs, RemoveAt(cs, i), i)
         /\ Len(RemoveAt(cs, i)) < Len(cs)
  <1> DEFINE ds == RemoveAt(cs, i)
             m == [k \in DOMAIN ds |-> IF k < i THEN k ELSE k + 1]
  <1>1. /\ ds \in Seq(Call) /\ Len(ds) = Len(cs) - 1 /\ Len(cs) \in Nat
        /\ \A k \in 1..Len(ds) : ds[k] = IF k < i THEN cs[k] ELSE cs[k + 1]
    <2> DEFINE b == SubSeq(cs, 1, i - 1)
               e == SubSeq(cs, i + 1, Len(cs))
    <2>1. Len(cs) \in Nat /\ i \in 1..Len(cs)
      OBVIOUS
    <2>2. /\ b \in Seq(Call) /\ Len(b) = i - 1
          /\ \A k \in 1..(i - 1) : b[k] = cs[k]
      BY <2>1
    <2>3. /\ e \in Seq(Call) /\ Len(e) = Len(cs) - i
          /\ \A k \in 1..(Len(cs) - i) : e[k] = cs[i + k]
      BY <2>1
    <2>4. ds = b \o e
      BY DEF RemoveAt
    <2> HIDE DEF b, e, ds
    <2>5. /\ ds \in Seq(Call) /\ Len(ds) = Len(cs) - 1
          /\ \A k \in 1..Len(ds) : ds[k] = IF k <= Len(b) THEN b[k] ELSE e[k - Len(b)]
      BY <2>1, <2>2, <2>3, <2>4
    <2>6. ASSUME NEW k \in 1..Len(ds)
          PROVE  ds[k] = IF k < i THEN cs[k] ELSE cs[k + 1]
      <3>1. CASE k < i
        <4>1. k \in 1..(i - 1) /\ k <= Len(b)
          BY <2>1, <2>2, <3>1
        <4> QED
          BY <2>2, <2>5, <3>1, <4>1
      <3>2. CASE ~(k < i)
        <4>1. /\ k - Len(b) \in 1..(Len(cs) - i) /\ ~(k <= Len(b))
              /\ i + (k - Len(b)) = k + 1
          BY <2>1, <2>2, <2>5, <3>2
        <4> QED
          BY <2>3, <2>5, <3>2, <4>1
      <3> QED
        BY <3>1, <3>2
    <2> QED
      BY <2>1, <2>5, <2>6
  <1>2. DOMAIN ds = 1..(Len(cs) - 1) /\ DOMAIN cs = 1..Len(cs) /\ i \in 1..Len(cs)
    BY <1>1
  <1> HIDE DEF ds
  <1>3. m \in [DOMAIN ds -> DOMAIN cs] /\ Rises(m)
    BY <1>2 DEF Rises
  <1>4. \A k \in DOMAIN ds : ds[k] = cs[m[k]] /\ m[k] # i
    BY <1>1, <1>2
  <1>5. ASSUME NEW n \in DOMAIN cs, n # i
        PROVE  \E k \in DOMAIN ds : m[k] = n
    <2>1. CASE n < i
      <3>1. n \in DOMAIN ds /\ m[n] = n
        BY <1>2, <2>1
      <3> QED
        BY <3>1
    <2>2. CASE n > i
      <3>1. n - 1 \in DOMAIN ds /\ m[n - 1] = n
        BY <1>2, <2>2
      <3> QED
        BY <3>1
    <2> QED
      BY <1>2, <1>5, <2>1, <2>2
  <1> HIDE DEF m
  <1>6. Removed(cs, ds, i)
    BY <1>3, <1>4, <1>5 DEF Removed
  <1> QED
    BY <1>1, <1>6 DEF ds

LEMMA RemovedRemains ==
  ASSUME NEW cs, NEW ds, NEW i, Removed(cs, ds, i)
  PROVE  Remains(cs, ds, {i})
  BY DEF Removed, Remains, Heir

LEMMA SelfRemains ==
  ASSUME NEW cs \in Seq(Call)
  PROVE  Remains(cs, cs, {})
  <1> DEFINE m == [k \in DOMAIN cs |-> k]
  <1>1. m \in [DOMAIN cs -> DOMAIN cs] /\ Rises(m)
    BY DEF Rises
  <1>2. \A k \in DOMAIN cs : Heir(cs[m[k]], cs[k])
    BY DEF Heir
  <1> HIDE DEF m
  <1> QED
    BY <1>1, <1>2 DEF Remains

LEMMA AnsweredIs ==
  ASSUME NEW cs \in Seq(Call), NEW i \in DOMAIN cs,
         NEW stage \in {"sent", "checked", "ok", "held", "refused"}
  PROVE  LET ds == [cs EXCEPT ![i].stage = stage] IN
         ds \in Seq(Call) /\ Answered(cs, ds, i, stage) /\ Len(ds) = Len(cs)
  <1> DEFINE d == [cs[i] EXCEPT !.stage = stage]
             ds == [cs EXCEPT ![i] = d]
  <1>1. cs[i] \in Call
    BY ElementOfSeq
  <1>2. /\ d \in Call /\ d.kind = cs[i].kind /\ d.visit = cs[i].visit
        /\ d.waits = cs[i].waits /\ d.stage = stage
    BY <1>1 DEF Call
  <1> HIDE DEF d
  <1>3. ds \in Seq(Call) /\ Len(ds) = Len(cs) /\ ds[i] = d
        /\ DOMAIN ds = DOMAIN cs /\ \A k \in DOMAIN cs : k = i \/ ds[k] = cs[k]
    BY <1>2, ExceptSeq
  <1>4. Answered(cs, ds, i, stage)
    BY <1>2, <1>3 DEF Answered
  <1>5. [cs EXCEPT ![i].stage = stage] = ds
    BY DEF d
  <1> QED
    BY <1>3, <1>4, <1>5, Zenon

LEMMA AddedIs ==
  ASSUME NEW cs \in Seq(Call), NEW kind \in {"acquire", "release", "create"},
         NEW visit \in Visits, NEW waits \in BOOLEAN
  PROVE  LET ds == Append(cs, Sent(kind, visit, waits)) IN
         /\ ds \in Seq(Call) /\ Added(cs, ds, Len(cs) + 1, kind, visit, waits)
         /\ Len(ds) = Len(cs) + 1
  <1> DEFINE c == Sent(kind, visit, waits)
             ds == Append(cs, c)
  <1>1. /\ c \in Call /\ c.kind = kind /\ c.visit = visit /\ c.waits = waits
        /\ c.stage = "sent"
    BY DEF Sent, Call
  <1> HIDE DEF c
  <1>2. /\ ds \in Seq(Call) /\ Len(ds) = Len(cs) + 1 /\ Len(cs) \in Nat
        /\ \A k \in 1..Len(cs) : ds[k] = cs[k]
        /\ ds[Len(cs) + 1] = c
    BY <1>1, AppendProperties
  <1>3. DOMAIN ds = 1..(Len(cs) + 1) /\ DOMAIN cs = 1..Len(cs)
    BY <1>2
  <1> HIDE DEF ds
  <1>4. Added(cs, ds, Len(cs) + 1, kind, visit, waits)
    BY <1>1, <1>2, <1>3 DEF Added
  <1>5. Append(cs, Sent(kind, visit, waits)) = ds
    BY DEF ds, c
  <1> QED
    BY <1>2, <1>4, <1>5, Zenon

\* A call whose sender no longer waits.
LEMMA GivenUpIs ==
  ASSUME calls \in Seq(Call), NEW i \in DOMAIN calls, GivenUp(i)
  PROVE  /\ calls' \in Seq(Call) /\ Remains(calls, calls', {i})
         /\ Len(calls') <= Len(calls)
  <1>0. Len(calls) \in Nat
    OBVIOUS
  <1>1. CASE calls' = RemoveAt(calls, i)
    <2>1. calls' \in Seq(Call) /\ Removed(calls, calls', i) /\ Len(calls') < Len(calls)
      BY <1>1, RemoveAtIs
    <2> QED
      BY <1>0, <2>1, RemovedRemains
  <1>2. CASE calls[i].stage \in {"sent", "checked"} /\ calls' = [calls EXCEPT ![i].waits = FALSE]
    <2> DEFINE d == [calls[i] EXCEPT !.waits = FALSE]
               m == [k \in DOMAIN calls |-> k]
    <2>1. calls[i] \in Call
      BY ElementOfSeq
    <2>2. d \in Call /\ Heir(calls[i], d) /\ ~d.waits
      BY <1>2, <2>1 DEF Call, Heir, Running
    <2>3. calls' = [calls EXCEPT ![i] = d]
      BY <1>2
    <2> HIDE DEF d
    <2>4. calls' \in Seq(Call) /\ Len(calls') = Len(calls) /\ calls'[i] = d
          /\ DOMAIN calls' = DOMAIN calls /\ \A k \in DOMAIN calls : k = i \/ calls'[k] = calls[k]
      BY <2>2, <2>3, ExceptSeq
    <2>5. m \in [DOMAIN calls' -> DOMAIN calls] /\ Rises(m) /\ \A k \in DOMAIN calls' : m[k] = k
      BY <2>4 DEF Rises
    <2> HIDE DEF m
    <2>6. \A k \in DOMAIN calls' :
            Heir(calls[m[k]], calls'[k]) /\ (m[k] \in {i} => ~calls'[k].waits)
      BY <2>2, <2>4, <2>5 DEF Heir
    <2> QED
      BY <1>0, <2>4, <2>5, <2>6 DEF Remains
  <1> QED
    BY <1>1, <1>2 DEF GivenUp

\* The calls that nobody awaits any longer.
LEMMA AbandonedIs ==
  ASSUME calls \in Seq(Call), Abandoned(calls')
  PROVE  /\ calls' \in Seq(Call) /\ Remains(calls, calls', DOMAIN calls)
         /\ Len(calls') <= Len(calls)
  <1> DEFINE n == Cardinality(InService)
  <1>1. /\ InService \subseteq DOMAIN calls /\ DOMAIN calls = 1..Len(calls)
        /\ Len(calls) \in Nat
    BY DEF InService
  <1>2. n \in Nat /\ n <= Len(calls)
    <2> DEFINE l == Len(calls)
    <2>0. l \in Nat
      BY <1>1
    <2>1. IsFiniteSet(1..l) /\ Cardinality(1..l) = l
      <3> HIDE DEF l
      <3> QED
        BY <2>0, FS_Interval
    <2>2. IsFiniteSet(InService) /\ n <= Cardinality(1..Len(calls))
      BY <1>1, <2>1, FS_Subset
    <2> QED
      BY <2>1, <2>2, FS_CardinalityType
  <1>3. PICK f \in [1..n -> InService] :
          /\ \A i, j \in DOMAIN f : i < j => f[i] < f[j]
          /\ calls' = [i \in DOMAIN f |-> [calls[f[i]] EXCEPT !.waits = FALSE]]
    BY DEF Abandoned
  <1> HIDE DEF n
  <1>4. \A i \in 1..n : f[i] \in DOMAIN calls /\ calls[f[i]] \in Call /\ Running(calls[f[i]])
    BY <1>1, ElementOfSeq DEF InService, Running
  <1>5. ASSUME NEW c \in Call, Running(c)
        PROVE  [c EXCEPT !.waits = FALSE] \in Call
               /\ Heir(c, [c EXCEPT !.waits = FALSE]) /\ ~[c EXCEPT !.waits = FALSE].waits
    BY <1>5 DEF Call, Heir
  <1>6. \A i \in 1..n : /\ calls'[i] \in Call /\ Heir(calls[f[i]], calls'[i])
                         /\ ~calls'[i].waits
    BY <1>3, <1>4, <1>5
  <1>7. DOMAIN calls' = 1..n /\ calls' = [i \in 1..n |-> calls'[i]]
    BY <1>3
  <1>8. calls' \in Seq(Call) /\ Len(calls') = n
    BY <1>2, <1>6, <1>7
  <1>9. f \in [DOMAIN calls' -> DOMAIN calls] /\ Rises(f)
    BY <1>1, <1>3, <1>7 DEF Rises
  <1> QED
    BY <1>2, <1>6, <1>7, <1>8, <1>9 DEF Remains

\* What is left of the calls is ordered as they were, and awaited as they were.
LEMMA CallsRemain ==
  ASSUME NEW cs \in Seq(Call), NEW ds \in Seq(Call), NEW I, NEW t,
         Remains(cs, ds, I), CallsOf(cs, t)
  PROVE  CallsOf(ds, t)
  <1>1. PICK m \in [DOMAIN ds -> DOMAIN cs] :
          Rises(m) /\ \A k \in DOMAIN ds : Heir(cs[m[k]], ds[k])
    BY DEF Remains
  <1>2. DOMAIN cs \subseteq Nat /\ DOMAIN ds \subseteq Nat
    OBVIOUS
  <1>3. \A k \in DOMAIN ds : CallOf(ds[k], t)
    <2> SUFFICES ASSUME NEW k \in DOMAIN ds
                 PROVE  CallOf(ds[k], t)
      OBVIOUS
    <2>1. m[k] \in DOMAIN cs /\ CallOf(cs[m[k]], t) /\ Heir(cs[m[k]], ds[k])
      BY <1>1 DEF CallsOf
    <2> QED
      BY <2>1 DEF CallOf, Heir, Awaited, Ending, Running
  <1>4. \A i, j \in DOMAIN ds : Awaited(ds[i]) /\ Awaited(ds[j]) => i = j
    <2> SUFFICES ASSUME NEW i \in DOMAIN ds, NEW j \in DOMAIN ds,
                        Awaited(ds[i]), Awaited(ds[j])
                 PROVE  i = j
      OBVIOUS
    <2>1. /\ m[i] \in DOMAIN cs /\ m[j] \in DOMAIN cs
          /\ Awaited(cs[m[i]]) /\ Awaited(cs[m[j]])
      BY <1>1 DEF Heir, Awaited
    <2>2. m[i] = m[j] /\ m[i] \in Nat
      BY <1>2, <2>1 DEF CallsOf
    <2> QED
      BY <1>1, <1>2, <2>2 DEF Rises
  <1>5. \A i, j \in DOMAIN ds : Awaited(ds[i]) /\ ds[j].kind = "release" => j < i
    <2> SUFFICES ASSUME NEW i \in DOMAIN ds, NEW j \in DOMAIN ds,
                        Awaited(ds[i]), ds[j].kind = "release"
                 PROVE  j < i
      OBVIOUS
    <2>1. /\ m[i] \in DOMAIN cs /\ m[j] \in DOMAIN cs
          /\ Awaited(cs[m[i]]) /\ cs[m[j]].kind = "release"
      BY <1>1 DEF Heir, Awaited
    <2>2. m[j] < m[i] /\ m[i] \in Nat /\ m[j] \in Nat
      BY <1>2, <2>1 DEF CallsOf
    <2>3. i \in Nat /\ j \in Nat /\ (i < j => m[i] < m[j])
      BY <1>1, <1>2 DEF Rises
    <2>4. i # j
      BY <2>2
    <2> QED
      BY <2>2, <2>3, <2>4
  <1> QED
    BY <1>3, <1>4, <1>5 DEF CallsOf

LEMMA CallsAnswered ==
  ASSUME NEW cs \in Seq(Call), NEW ds \in Seq(Call), NEW i \in DOMAIN cs, NEW stage, NEW t,
         Answered(cs, ds, i, stage), CallsOf(cs, t),
         cs[i].waits \/ stage = "checked", stage = "checked" => cs[i].kind = "create"
  PROVE  CallsOf(ds, t)
  <1>1. \A k \in DOMAIN cs : /\ ds[k].kind = cs[k].kind /\ ds[k].visit = cs[k].visit
                             /\ ds[k].waits = cs[k].waits
                             /\ Running(cs[k]) /\ k # i => Running(ds[k])
                             /\ ~Running(ds[k]) => k = i \/ ~Running(cs[k])
    BY DEF Answered, Running
  <1>2. \A k \in DOMAIN cs : Awaited(ds[k]) <=> Awaited(cs[k])
    BY <1>1 DEF Awaited
  <1>3. \A k \in DOMAIN cs : CallOf(ds[k], t)
    <2> SUFFICES ASSUME NEW k \in DOMAIN cs
                 PROVE  CallOf(ds[k], t)
      OBVIOUS
    <2>1. CallOf(cs[k], t)
      BY DEF CallsOf
    <2>2. ds[k].stage = "checked" => ds[k].kind = "create"
      BY <1>1, <2>1 DEF Answered, CallOf
    <2>3. ~Running(ds[k]) => ds[k].waits
      BY <1>1, <2>1 DEF Answered, CallOf, Running
    <2> QED
      BY <1>1, <1>2, <2>1, <2>2, <2>3 DEF CallOf, Ending
  <1> QED
    BY <1>1, <1>2, <1>3 DEF CallsOf, Answered

LEMMA CallsAdded ==
  ASSUME NEW cs \in Seq(Call), NEW ds \in Seq(Call), NEW t,
         NEW n \in Nat, NEW kind, NEW visit, NEW waits,
         Added(cs, ds, n, kind, visit, waits), CallsOf(cs, t), visit <= t.visit,
         Ending(ds[n], t) => t.stage = "ready" /\ (kind = "release" => ~t.held),
         kind = "acquire" => t.stage = "reserving" /\ visit = t.visit,
         kind \in {"acquire", "release"} => \A i \in DOMAIN cs : ~Awaited(cs[i])
  PROVE  CallsOf(ds, t)
  <1>1. \A k \in DOMAIN ds : (k \in DOMAIN cs /\ k < n /\ ds[k] = cs[k]) \/ k = n
    BY DEF Added
  <1>2. /\ ds[n].kind = kind /\ ds[n].visit = visit /\ ds[n].waits = waits /\ Running(ds[n])
        /\ Awaited(ds[n]) => kind = "acquire"
    BY DEF Added, Running, Awaited
  <1>3. \A k \in DOMAIN ds : CallOf(ds[k], t)
    <2>1. CallOf(ds[n], t)
      BY <1>2 DEF CallOf, Added, Awaited
    <2> QED
      BY <1>1, <2>1 DEF CallsOf
  <1>4. \A i, j \in DOMAIN ds : Awaited(ds[i]) /\ Awaited(ds[j]) => i = j
    BY <1>1, <1>2 DEF CallsOf
  <1>5. \A i, j \in DOMAIN ds : Awaited(ds[i]) /\ ds[j].kind = "release" => j < i
    BY <1>1, <1>2 DEF CallsOf
  <1> QED
    BY <1>3, <1>4, <1>5 DEF CallsOf

LEMMA CallsOfTab ==
  ASSUME NEW cs, NEW t, NEW u, CallsOf(cs, t), \A i \in DOMAIN cs : CallOf(cs[i], u)
  PROVE  CallsOf(cs, u)
  BY DEF CallsOf

\* The tab and its form may change in what its calls do not depend on.
LEMMA CallsOfSame ==
  ASSUME NEW cs, NEW t, NEW u, CallsOf(cs, t),
         u.stage = t.stage, u.visit = t.visit, u.held = t.held
  PROVE  CallsOf(cs, u)
  BY DEF CallsOf, CallOf, Ending

\* No acquire is awaited but while the unit is being reserved.
LEMMA NoneAwaited ==
  ASSUME NEW cs, NEW t, CallsOf(cs, t), t.stage # "reserving"
  PROVE  \A i \in DOMAIN cs : ~Awaited(cs[i])
  BY DEF CallsOf, CallOf

\* A form that is not ready waits for no post and no release.
LEMMA NoneEnding ==
  ASSUME NEW cs, NEW t, CallsOf(cs, t), t.stage # "ready"
  PROVE  \A i \in DOMAIN cs : ~Ending(cs[i], t)
  BY DEF CallsOf, CallOf, Ending

\* Nobody awaits an acquire, and the form that goes on waits for nothing else.
LEMMA CallsOfNext ==
  ASSUME NEW cs, NEW t, NEW u, CallsOf(cs, t), u.visit = t.visit,
         \A i \in DOMAIN cs : ~Awaited(cs[i]),
         u.stage = "away" \/ t.stage \notin {"away", "ready"}
  PROVE  CallsOf(cs, u)
  BY DEF CallsOf, CallOf, Ending

\* The one acquire that was awaited no longer is.
LEMMA NoneLeft ==
  ASSUME NEW cs, NEW ds, NEW t, NEW I, NEW i \in I, i \in DOMAIN cs,
         Remains(cs, ds, I), CallsOf(cs, t), Awaited(cs[i])
  PROVE  \A k \in DOMAIN ds : ~Awaited(ds[k])
  <1>1. PICK m \in [DOMAIN ds -> DOMAIN cs] :
          \A k \in DOMAIN ds : Heir(cs[m[k]], ds[k]) /\ (m[k] \in I => ~ds[k].waits)
    BY DEF Remains
  <1>2. ASSUME NEW k \in DOMAIN ds, Awaited(ds[k])
        PROVE  FALSE
    <2>1. m[k] \in DOMAIN cs /\ Awaited(cs[m[k]])
      BY <1>1, <1>2 DEF Heir, Awaited
    <2>2. m[k] = i
      BY <2>1 DEF CallsOf
    <2> QED
      BY <1>1, <1>2, <2>2 DEF Awaited
  <1> QED
    BY <1>2

-----------------------------------------------------------------------------
(* Types *)

LEMMA TabFields ==
  ASSUME NEW t \in Tab
  PROVE  /\ t.stage \in {"away", "loading", "reserving", "refused", "ready"}
         /\ t.visit \in {0} \cup Visits /\ t.visit \in Nat
         /\ t.held \in BOOLEAN /\ t.saving \in BOOLEAN /\ t.submitting \in BOOLEAN
  BY DEF Tab, Visits

LEMMA UnmountedIs ==
  ASSUME tab \in Tab
  PROVE  /\ Unmounted \in Tab /\ Unmounted.stage = "away" /\ Unmounted.visit = tab.visit
         /\ ~Unmounted.held
  BY DEF Unmounted, Tab

LEMMA SubmittingIs ==
  ASSUME tab \in Tab, NEW v, NEW yes \in BOOLEAN
  PROVE  LET t == Submitting(v, yes) IN
         /\ t \in Tab /\ t.stage = tab.stage /\ t.visit = tab.visit /\ t.held = tab.held
         /\ t.saving = tab.saving
         /\ t.submitting = IF Showing(v) THEN yes ELSE tab.submitting
  BY DEF Submitting, Tab

\* The number of visits and of epochs.
LEMMA Numbers == Visits \subseteq Nat /\ Epochs \subseteq Nat /\ 1 \in Epochs /\ 0 \notin Visits
  BY FormAssumption DEF Visits, Epochs

\* The calls and the tab are all that TypeInv adds to the types.
LEMMA Typed ==
  ASSUME TypeInv, holder' \in {"nobody", "me", "other"}, recorded' \in Nat,
         calls' \in Seq(Call), tab' \in Tab, form' \in Content,
         draft' \in Content \cup {NoDraft}, epoch' \in Epochs, uploads' \subseteq Epochs,
         geo' \in Geo, events' \subseteq Events,
         CallsOf(calls', tab'), TabOf(tab')
  PROVE  TypeInv'
  BY DEF TypeInv, TypeOK

LEMMA EventsGrow ==
  ASSUME TypeInv, NEW new \in SUBSET Events, Note(new)
  PROVE  events' \subseteq Events /\ events \subseteq events' /\ new \subseteq events'
  BY DEF Note, TypeInv, TypeOK

\* The form changes in what its calls do not depend on.
LEMMA QuietTyped ==
  ASSUME TypeInv, UNCHANGED <<server, calls>>, tab' \in Tab, tab'.stage = tab.stage,
         tab'.visit = tab.visit, tab'.held = tab.held,
         form' \in Content, draft' \in Content \cup {NoDraft}, epoch' \in Epochs,
         uploads' \subseteq Epochs, geo' \in Geo, events' \subseteq Events
  PROVE  TypeInv'
  <1>1. CallsOf(calls', tab')
    BY CallsOfSame DEF TypeInv
  <1>2. TabOf(tab')
    BY TabFields DEF TypeInv, TypeOK, TabOf
  <1> QED
    BY <1>1, <1>2, Typed DEF TypeInv, TypeOK, server

LEMMA DraftTyped ==
  ASSUME TypeInv, \/ Scan \/ Hydrate \/ Fill \/ Save \/ Pick \/ Restart
                  \/ \E e \in uploads : Uploaded(e) \/ UploadFails(e)
                  \/ \E e \in form : TakeBack(e)
  PROVE  TypeInv'
  <1> USE DEF TypeInv, TypeOK, page
  <1>0. /\ Blank \in Content /\ NoDraft \in {NoDraft} /\ epoch \in Nat
        /\ epoch < MaxEpochs => epoch + 1 \in Epochs
    BY Numbers, FormAssumption DEF Blank, Content, Epochs
  <1>1. CASE Scan
    BY <1>0, <1>1, QuietTyped DEF Scan
  <1>2. CASE Hydrate \/ Restart
    <2>1. ASSUME NEW b \in BOOLEAN, tab' = [tab EXCEPT !.saving = b]
          PROVE  /\ tab' \in Tab /\ tab'.stage = tab.stage /\ tab'.visit = tab.visit
                 /\ tab'.held = tab.held
      BY <2>1 DEF Tab
    <2>2. CASE Hydrate
      BY <2>1, <2>2, QuietTyped DEF Hydrate
    <2>3. CASE Restart
      BY <1>0, <2>1, <2>3, QuietTyped DEF Restart
    <2> QED
      BY <1>2, <2>2, <2>3
  <1>3. CASE Fill \/ Save \/ Pick
    BY <1>3, QuietTyped DEF Fill, Save, Pick, Content
  <1>4. ASSUME NEW e \in uploads, Uploaded(e) \/ UploadFails(e)
        PROVE  TypeInv'
    <2>1. events' \subseteq Events
      BY <1>4, EventsGrow DEF Uploaded, UploadFails, Events
    <2> QED
      BY <1>4, <2>1, QuietTyped DEF Uploaded, UploadFails, Content
  <1>5. ASSUME NEW e \in form, TakeBack(e)
        PROVE  TypeInv'
    BY <1>5, QuietTyped DEF TakeBack, Content
  <1> QED
    BY <1>1, <1>2, <1>3, <1>4, <1>5

LEMMA PositionTyped ==
  ASSUME TypeInv, Position
  PROVE  TypeInv'
  <1>0. geo \in Geo
    BY DEF TypeInv, TypeOK
  <1>1. geo' \in Geo
    <2>1. CASE Ask \/ Dismiss \/ AskAgain
      BY <1>0, <2>1 DEF Ask, Dismiss, AskAgain, Geo
    <2>2. CASE Located
      <3>1. geo.prompt \in BOOLEAN
        BY <1>0 DEF Geo
      <3>2. \E open \in BOOLEAN : geo' = [ready |-> TRUE, prompt |-> open]
        BY <2>2, <3>1 DEF Located
      <3> QED
        BY <3>2 DEF Geo
    <2> QED
      BY <2>1, <2>2 DEF Position
  <1> QED
    BY <1>1, QuietTyped DEF Position, Ask, Located, Dismiss, AskAgain, TypeInv, TypeOK, page

\* What an answer does to the calls.
LEMMA AnswerIs ==
  ASSUME calls \in Seq(Call), NEW i \in DOMAIN calls,
         NEW stage \in {"ok", "held", "refused"}, Answer(i, stage)
  PROVE  /\ calls' \in Seq(Call)
         /\ IF calls[i].waits THEN Answered(calls, calls', i, stage)
                              ELSE Removed(calls, calls', i)
  <1>1. CASE calls[i].waits
    BY <1>1, AnsweredIs DEF Answer
  <1>2. CASE ~calls[i].waits
    BY <1>2, RemoveAtIs DEF Answer
  <1> QED
    BY <1>1, <1>2

LEMMA AnswerTyped ==
  ASSUME calls \in Seq(Call), NEW i \in DOMAIN calls,
         NEW stage \in {"ok", "held", "refused"}, Answer(i, stage),
         NEW t, CallsOf(calls, t)
  PROVE  calls' \in Seq(Call) /\ CallsOf(calls', t)
  <1>1. CASE calls[i].waits
    BY <1>1, AnswerIs, CallsAnswered
  <1>2. CASE ~calls[i].waits
    BY <1>2, AnswerIs, RemovedRemains, CallsRemain
  <1> QED
    BY <1>1, <1>2

LEMMA ServerTyped ==
  ASSUME TypeInv, UNCHANGED <<page, geo>>,
         holder' \in {"nobody", "me", "other"}, recorded' \in Nat,
         calls' \in Seq(Call), CallsOf(calls', tab), events' \subseteq Events
  PROVE  TypeInv'
  BY Typed DEF TypeInv, TypeOK, page

LEMMA ArrivesIs ==
  ASSUME TypeInv, NEW i \in DOMAIN calls, NEW kind, Arrives(i, kind)
  PROVE  /\ calls[i].kind = kind /\ calls[i].stage = "sent"
         /\ events' \subseteq Events /\ events \subseteq events'
         /\ "overtaken" \in events' \/ \A j \in DOMAIN calls : j < i => calls[j].stage # "sent"
  <1> DEFINE new == IF \E j \in 1..i - 1 : calls[j].stage = "sent" THEN {"overtaken"} ELSE {}
  <1>1. new \in SUBSET Events
    BY DEF Events
  <1>2. events' \subseteq Events /\ events \subseteq events' /\ new \subseteq events'
    BY <1>1, EventsGrow DEF Arrives
  <1>3. CASE \E j \in 1..i - 1 : calls[j].stage = "sent"
    BY <1>2, <1>3 DEF Arrives
  <1>4. CASE ~\E j \in 1..i - 1 : calls[j].stage = "sent"
    <2>1. DOMAIN calls = 1..Len(calls) /\ Len(calls) \in Nat
      BY DEF TypeInv, TypeOK
    <2>2. \A j \in DOMAIN calls : j < i => j \in 1..i - 1
      BY <2>1
    <2> QED
      BY <1>2, <1>4, <2>2 DEF Arrives
  <1> QED
    BY <1>3, <1>4

LEMMA ServeTyped ==
  ASSUME TypeInv, NEW i \in DOMAIN calls, Serve(i)
  PROVE  TypeInv'
  <1>0. /\ calls \in Seq(Call) /\ CallsOf(calls, tab) /\ recorded \in Nat
        /\ holder \in {"nobody", "me", "other"}
    BY DEF TypeInv, TypeOK
  <1>1. CASE ServeAcquire(i)
    <2>1. calls' \in Seq(Call) /\ CallsOf(calls', tab)
      BY <1>0, <1>1, AnswerTyped DEF ServeAcquire
    <2> QED
      BY <1>0, <1>1, <2>1, ArrivesIs, ServerTyped DEF ServeAcquire
  <1>2. CASE ServeRelease(i)
    <2>1. calls' \in Seq(Call) /\ CallsOf(calls', tab)
      BY <1>0, <1>2, AnswerTyped DEF ServeRelease
    <2> QED
      BY <1>0, <1>2, <2>1, ArrivesIs, ServerTyped DEF ServeRelease
  <1>3. CASE ServeCreate(i)
    <2>1. calls[i].kind = "create" /\ events' \subseteq Events
      BY <1>3, ArrivesIs DEF ServeCreate
    <2>2. calls' \in Seq(Call) /\ CallsOf(calls', tab)
      <3>1. CASE calls' = [calls EXCEPT ![i].stage = "checked"]
        <4>1. calls' \in Seq(Call) /\ Answered(calls, calls', i, "checked")
          BY <1>0, <3>1, AnsweredIs
        <4> QED
          BY <1>0, <2>1, <4>1, CallsAnswered
      <3>2. CASE Answer(i, "refused")
        BY <1>0, <3>2, AnswerTyped
      <3> QED
        BY <1>3, <3>1, <3>2 DEF ServeCreate
    <2> QED
      BY <1>0, <1>3, <2>1, <2>2, ServerTyped DEF ServeCreate, server
  <1> QED
    BY <1>1, <1>2, <1>3 DEF Serve

LEMMA LockTyped ==
  ASSUME TypeInv, \/ \E i \in DOMAIN calls : Decide(i) \/ LoseCall(i)
                  \/ Expire \/ OtherTakes \/ OtherInspects
  PROVE  TypeInv'
  <1>0. /\ calls \in Seq(Call) /\ CallsOf(calls, tab) /\ recorded \in Nat
        /\ holder \in {"nobody", "me", "other"} /\ events \subseteq Events
    BY DEF TypeInv, TypeOK
  <1>1. ASSUME NEW i \in DOMAIN calls, CommitCreate(i)
        PROVE  TypeInv'
    <2>1. calls' \in Seq(Call) /\ CallsOf(calls', tab)
      BY <1>0, <1>1, AnswerTyped DEF CommitCreate
    <2> QED
      BY <1>0, <1>1, <2>1, ServerTyped DEF CommitCreate
  <1>2. ASSUME NEW i \in DOMAIN calls, RejectCreate(i)
        PROVE  TypeInv'
    <2>1. calls' \in Seq(Call) /\ CallsOf(calls', tab)
      BY <1>0, <1>2, AnswerTyped DEF RejectCreate
    <2> QED
      BY <1>0, <1>2, <2>1, ServerTyped DEF RejectCreate, server
  <1>3. ASSUME NEW i \in DOMAIN calls, LoseCall(i)
        PROVE  TypeInv'
    <2>1. calls' \in Seq(Call) /\ CallsOf(calls', tab)
      BY <1>0, <1>3, RemoveAtIs, RemovedRemains, CallsRemain DEF LoseCall
    <2>2. events' \subseteq Events
      BY <1>3, EventsGrow DEF LoseCall, Events
    <2> QED
      BY <1>0, <1>3, <2>1, <2>2, ServerTyped DEF LoseCall, server
  <1>4. CASE Expire
    <2>1. events' \subseteq Events
      BY <1>4, EventsGrow DEF Expire, Events
    <2> QED
      BY <1>0, <1>4, <2>1, ServerTyped DEF Expire
  <1>5. CASE OtherTakes \/ OtherInspects
    BY <1>0, <1>5, ServerTyped DEF OtherTakes, OtherInspects
  <1> QED
    BY <1>1, <1>2, <1>3, <1>4, <1>5 DEF Decide

\* The form goes.
LEMMA AwayTyped ==
  ASSUME TypeInv, tab' = Unmounted,
         calls' \in Seq(Call), CallsOf(calls', tab), \A k \in DOMAIN calls' : ~Awaited(calls'[k])
  PROVE  tab' \in Tab /\ TabOf(tab') /\ CallsOf(calls', tab')
  <1>1. /\ tab' \in Tab /\ tab'.stage = "away" /\ tab'.visit = tab.visit /\ ~tab'.held
    BY UnmountedIs DEF TypeInv, TypeOK
  <1> QED
    BY <1>1, CallsOfNext DEF TypeInv, TypeOK, TabOf

LEMMA FormTyped ==
  ASSUME TypeInv, UNCHANGED server,
         calls' \in Seq(Call), tab' \in Tab, form' \in Content,
         draft' \in Content \cup {NoDraft}, UNCHANGED epoch, uploads' \subseteq Epochs,
         geo' \in Geo, events' \subseteq Events,
         CallsOf(calls', tab'), TabOf(tab')
  PROVE  TypeInv'
  BY Typed DEF TypeInv, TypeOK, server

LEMMA OpenTyped ==
  ASSUME TypeInv, Open
  PROVE  TypeInv'
  <1>0. /\ tab \in Tab /\ tab.visit \in Nat /\ CallsOf(calls, tab) /\ TabOf(tab)
        /\ calls \in Seq(Call)
    BY TabFields DEF TypeInv, TypeOK
  <1>1. /\ tab' \in Tab /\ tab'.stage = "loading" /\ tab'.visit = tab.visit + 1
        /\ tab'.visit \in Visits /\ ~tab'.held
    <2>1. tab.visit + 1 \in Visits
      BY <1>0, FormAssumption DEF Open, Visits
    <2> QED
      BY <2>1 DEF Open, Tab
  <1>2. \A i \in DOMAIN calls : calls[i].visit \in Nat
    BY ElementOfSeq, CallFields, <1>0
  <1>3. CallsOf(calls', tab')
    <2>1. \A i \in DOMAIN calls : CallOf(calls[i], tab')
      <3> SUFFICES ASSUME NEW i \in DOMAIN calls
                   PROVE  CallOf(calls[i], tab')
        OBVIOUS
      <3>1. ~Awaited(calls[i])
        BY <1>0, NoneAwaited DEF Open
      <3>2. calls[i].visit <= tab.visit /\ CallOf(calls[i], tab)
        BY <1>0 DEF CallsOf, CallOf
      <3>3. calls[i].visit <= tab'.visit /\ calls[i].visit # tab'.visit
        BY <1>0, <1>1, <1>2, <3>2
      <3> QED
        BY <3>1, <3>2, <3>3 DEF CallOf, Ending
    <2> QED
      BY <1>0, <2>1, CallsOfTab DEF Open
  <1>4. TabOf(tab')
    BY <1>1 DEF TabOf
  <1> QED
    BY <1>0, <1>1, <1>3, <1>4, FormTyped DEF Open, TypeInv, TypeOK, Blank, Content

LEMMA ReserveTyped ==
  ASSUME TypeInv, Reserve
  PROVE  TypeInv'
  <1>0. /\ tab \in Tab /\ CallsOf(calls, tab) /\ TabOf(tab) /\ calls \in Seq(Call)
        /\ tab.stage = "loading" /\ tab.visit \in Visits /\ tab.visit \in Nat
    BY TabFields DEF TypeInv, TypeOK, Reserve, TabOf
  <1>1. /\ tab' \in Tab /\ tab'.stage = "reserving" /\ tab'.visit = tab.visit
        /\ tab'.held = tab.held
    BY <1>0 DEF Reserve, Tab
  <1>2. /\ calls' \in Seq(Call)
        /\ Added(calls, calls', Len(calls) + 1, "acquire", tab.visit, TRUE)
    BY <1>0, AddedIs DEF Reserve, Send
  <1>3. \A i \in DOMAIN calls : ~Awaited(calls[i])
    BY <1>0, NoneAwaited
  <1>4. CallsOf(calls, tab')
    BY <1>0, <1>1, <1>3, CallsOfNext
  <1>5. CallsOf(calls', tab')
    <2> DEFINE n == Len(calls) + 1
    <2>1. n \in Nat
      BY <1>0
    <2>2. ~Ending(calls'[n], tab')
      BY <1>2 DEF Ending, Added
    <2>3. tab.visit <= tab'.visit
      BY <1>0, <1>1
    <2> HIDE DEF n
    <2> QED
      BY <1>0, <1>1, <1>2, <1>3, <1>4, <2>1, <2>2, <2>3, CallsAdded DEF n
  <1>6. TabOf(tab')
    BY <1>0, <1>1 DEF TabOf, Reserve
  <1> QED
    BY <1>0, <1>1, <1>2, <1>5, <1>6, FormTyped DEF Reserve, TypeInv, TypeOK

LEMMA ReservedTyped ==
  ASSUME TypeInv, NEW i \in DOMAIN calls, Reserved(i)
  PROVE  /\ TypeInv'
         /\ Awaited(calls[i]) /\ tab.stage = "reserving" /\ Removed(calls, calls', i)
         /\ \A k \in DOMAIN calls' : ~Awaited(calls'[k])
         /\ tab'.visit = tab.visit
         /\ \/ calls[i].stage = "ok" /\ tab'.stage = "ready" /\ tab'.held
            \/ calls[i].stage # "ok" /\ tab'.stage \in {"away", "refused"} /\ ~tab'.held
  <1>0. /\ tab \in Tab /\ CallsOf(calls, tab) /\ TabOf(tab) /\ calls \in Seq(Call)
        /\ tab.held \in BOOLEAN
    BY TabFields DEF TypeInv, TypeOK
  <1>1. Awaited(calls[i]) /\ tab.stage = "reserving" /\ ~tab.held
    BY <1>0 DEF Reserved, CallsOf, CallOf, Running, Awaited, TabOf
  <1>2. calls' \in Seq(Call) /\ Removed(calls, calls', i)
    BY <1>0, RemoveAtIs DEF Reserved, Read
  <1>3. CallsOf(calls', tab) /\ \A k \in DOMAIN calls' : ~Awaited(calls'[k])
    BY <1>0, <1>1, <1>2, RemovedRemains, CallsRemain, NoneLeft
  <1>4. /\ tab' \in Tab /\ tab'.visit = tab.visit
        /\ \/ calls[i].stage = "ok" /\ tab'.stage = "ready" /\ tab'.held
           \/ calls[i].stage # "ok" /\ tab'.stage \in {"away", "refused"} /\ ~tab'.held
    <2>1. CASE calls[i].stage = "ok"
      BY <1>0, <2>1 DEF Reserved, Tab
    <2>2. CASE calls[i].stage = "held"
      <3>1. tab' = [tab EXCEPT !.stage = "refused"]
        BY <2>2 DEF Reserved
      <3> QED
        BY <1>0, <1>1, <2>2, <3>1 DEF Tab
    <2>3. CASE calls[i].stage = "refused"
      <3>1. tab' = Unmounted
        BY <2>3 DEF Reserved
      <3> QED
        BY <1>0, <2>3, <3>1, UnmountedIs
    <2> QED
      BY <2>1, <2>2, <2>3 DEF Reserved
  <1>5. CallsOf(calls', tab')
    BY <1>1, <1>3, <1>4, CallsOfNext
  <1>6. TabOf(tab')
    BY <1>0, <1>1, <1>4 DEF TabOf, Reserved
  <1>7. TypeInv'
    BY <1>0, <1>2, <1>4, <1>5, <1>6, FormTyped DEF Reserved, TypeInv, TypeOK
  <1> QED
    BY <1>1, <1>2, <1>3, <1>4, <1>7

LEMMA ReserveFailsTyped ==
  ASSUME TypeInv, NEW i \in DOMAIN calls, ReserveFails(i)
  PROVE  TypeInv' /\ events \subseteq events' /\ "lost" \in events' /\ tab.stage = "reserving"
  <1>0. /\ CallsOf(calls, tab) /\ calls \in Seq(Call)
    BY DEF TypeInv, TypeOK
  <1>1. Awaited(calls[i]) /\ tab.stage = "reserving"
    BY <1>0 DEF ReserveFails, CallsOf, CallOf, Awaited
  <1>2. calls' \in Seq(Call) /\ Remains(calls, calls', {i})
    BY <1>0, GivenUpIs DEF ReserveFails
  <1>3. CallsOf(calls', tab) /\ \A k \in DOMAIN calls' : ~Awaited(calls'[k])
    BY <1>0, <1>1, <1>2, CallsRemain, NoneLeft
  <1>4. events' \subseteq Events /\ events \subseteq events' /\ "lost" \in events'
    BY EventsGrow DEF ReserveFails, Events
  <1>5. tab' \in Tab /\ TabOf(tab') /\ CallsOf(calls', tab')
    BY <1>2, <1>3, AwayTyped DEF ReserveFails
  <1> QED
    BY <1>1, <1>2, <1>4, <1>5, FormTyped DEF ReserveFails, TypeInv, TypeOK

LEMMA LeftIs ==
  ASSUME TypeInv, Note(Left)
  PROVE  /\ events' \subseteq Events /\ events \subseteq events'
         /\ tab.stage = "reserving" => "aborted" \in events'
         /\ Waiting("create", tab.visit) # {} => "left_posting" \in events'
  <1>1. Left \in SUBSET Events
    BY DEF Left, Events
  <1>2. events' \subseteq Events /\ events \subseteq events' /\ Left \subseteq events'
    BY <1>1, EventsGrow
  <1> QED
    BY <1>2 DEF Left

LEMMA LeaveTyped ==
  ASSUME TypeInv, Leave
  PROVE  /\ TypeInv'
         /\ \/ tab.stage = "reserving" /\ \E i \in DOMAIN calls : Remains(calls, calls', {i})
            \/ /\ tab.held
               /\ Added(calls, calls', Len(calls) + 1, "release", tab.visit, FALSE)
            \/ tab.stage # "reserving" /\ ~tab.held /\ calls' = calls
  <1>0. /\ CallsOf(calls, tab) /\ calls \in Seq(Call) /\ TabOf(tab)
        /\ tab \in Tab /\ tab.visit \in Visits /\ tab.visit \in Nat
    BY TabFields DEF TypeInv, TypeOK, TabOf, Leave
  <1>1. ASSUME calls' \in Seq(Call), CallsOf(calls', tab'), tab' \in Tab, TabOf(tab')
        PROVE  TypeInv'
    <2>1. events' \subseteq Events
      BY LeftIs DEF Leave
    <2> QED
      BY <1>1, <2>1, FormTyped DEF Leave, TypeInv, TypeOK
  <1>2. ASSUME tab.stage = "reserving", NEW i \in Waiting("acquire", tab.visit), GivenUp(i)
        PROVE  TypeInv' /\ \E j \in DOMAIN calls : Remains(calls, calls', {j})
    <2>1. i \in DOMAIN calls /\ Awaited(calls[i])
      BY <1>2 DEF Waiting, Awaited
    <2>2. calls' \in Seq(Call) /\ Remains(calls, calls', {i})
      BY <1>0, <1>2, <2>1, GivenUpIs
    <2>3. CallsOf(calls', tab) /\ \A k \in DOMAIN calls' : ~Awaited(calls'[k])
      BY <1>0, <2>1, <2>2, CallsRemain, NoneLeft
    <2>4. tab' \in Tab /\ TabOf(tab') /\ CallsOf(calls', tab')
      BY <2>2, <2>3, AwayTyped DEF Leave
    <2> QED
      BY <1>1, <2>1, <2>2, <2>4
  <1>3. ASSUME tab.held, Send("release", tab.visit, FALSE)
        PROVE  TypeInv' /\ Added(calls, calls', Len(calls) + 1, "release", tab.visit, FALSE)
    <2>1. \A k \in DOMAIN calls : ~Awaited(calls[k])
      BY <1>0, <1>3, NoneAwaited DEF TabOf
    <2>2. tab' \in Tab /\ tab'.stage = "away" /\ tab'.visit = tab.visit /\ ~tab'.held
      BY <1>0, UnmountedIs DEF Leave
    <2>3. CallsOf(calls, tab')
      BY <1>0, <2>1, <2>2, CallsOfNext
    <2>4. /\ calls' \in Seq(Call)
          /\ Added(calls, calls', Len(calls) + 1, "release", tab.visit, FALSE)
      BY <1>0, <1>3, AddedIs DEF Send
    <2>5. CallsOf(calls', tab')
      <3> DEFINE n == Len(calls) + 1
      <3>1. n \in Nat /\ tab.visit <= tab'.visit
        BY <1>0, <2>2
      <3>2. ~Ending(calls'[n], tab')
        BY <2>2 DEF Ending
      <3> HIDE DEF n
      <3> QED
        BY <1>0, <2>1, <2>3, <2>4, <3>1, <3>2, CallsAdded DEF n
    <2>6. TabOf(tab')
      BY <1>0, <2>2 DEF TabOf, Leave
    <2> QED
      BY <1>1, <2>2, <2>4, <2>5, <2>6
  <1>4. ASSUME tab.stage # "reserving", UNCHANGED calls
        PROVE  TypeInv'
    <2>1. calls' \in Seq(Call) /\ CallsOf(calls', tab) /\ \A k \in DOMAIN calls' : ~Awaited(calls'[k])
      BY <1>0, <1>4, NoneAwaited
    <2>2. tab' \in Tab /\ TabOf(tab') /\ CallsOf(calls', tab')
      BY <2>1, AwayTyped DEF Leave
    <2> QED
      BY <1>1, <2>1, <2>2
  <1> QED
    BY <1>2, <1>3, <1>4 DEF Leave

LEMMA CloseTyped ==
  ASSUME TypeInv, Close
  PROVE  TypeInv' /\ "closed" \in events' /\ events \subseteq events' /\ Remains(calls, calls', DOMAIN calls)
  <1>0. CallsOf(calls, tab) /\ calls \in Seq(Call) /\ geo \in Geo
    BY DEF TypeInv, TypeOK
  <1>1. calls' \in Seq(Call) /\ Remains(calls, calls', DOMAIN calls)
    BY <1>0, AbandonedIs DEF Close
  <1>2. \A k \in DOMAIN calls' : ~Awaited(calls'[k])
    BY <1>1 DEF Remains, Awaited
  <1>3. tab' \in Tab /\ TabOf(tab') /\ CallsOf(calls', tab')
    BY <1>0, <1>1, <1>2, CallsRemain, AwayTyped DEF Close
  <1>4. events' \subseteq Events /\ events \subseteq events' /\ "closed" \in events'
    BY EventsGrow DEF Close, Events
  <1>5. geo' \in Geo
    BY DEF Close, Loaded, Geo
  <1> QED
    BY <1>1, <1>3, <1>4, <1>5, FormTyped DEF Close, TypeInv, TypeOK

LEMMA PressTyped ==
  ASSUME TypeInv, Press
  PROVE  /\ TypeInv' /\ tab.stage = "ready" /\ calls' \in Seq(Call)
         /\ Added(calls, calls', Len(calls) + 1, "create", tab.visit, TRUE)
         /\ tab'.stage = "ready" /\ tab'.visit = tab.visit /\ tab'.held = tab.held
         /\ tab'.submitting
  <1>0. /\ tab.stage = "ready" /\ tab.visit \in Visits /\ tab.visit \in Nat
        /\ CallsOf(calls, tab) /\ calls \in Seq(Call) /\ tab \in Tab /\ TabOf(tab)
    BY TabFields DEF TypeInv, TypeOK, Press, Shown, TabOf
  <1>1. /\ calls' \in Seq(Call)
        /\ Added(calls, calls', Len(calls) + 1, "create", tab.visit, TRUE)
    BY <1>0, AddedIs DEF Press, Post, Send
  <1>2. /\ tab' \in Tab /\ tab'.stage = tab.stage /\ tab'.visit = tab.visit
        /\ tab'.held = tab.held /\ tab'.submitting
    BY <1>0 DEF Press, Post, Tab
  <1>3. CallsOf(calls, tab')
    BY <1>0, <1>2, CallsOfSame
  <1>4. CallsOf(calls', tab')
    <2> DEFINE n == Len(calls) + 1
    <2>1. n \in Nat /\ tab.visit <= tab'.visit
      BY <1>0, <1>2
    <2>2. Added(calls, calls', n, "create", tab.visit, TRUE)
      BY <1>1
    <2>3. tab'.stage = "ready"
      BY <1>0, <1>2
    <2> HIDE DEF n
    <2> QED
      BY <1>0, <1>1, <1>3, <2>1, <2>2, <2>3, CallsAdded
  <1>5. TabOf(tab')
    BY <1>0, <1>2 DEF TabOf
  <1> QED
    BY <1>0, <1>1, <1>2, <1>4, <1>5, FormTyped DEF Press, TypeInv, TypeOK

LEMMA NavigateIs ==
  ASSUME tab \in Tab, NEW v, Navigate(v)
  PROVE  /\ tab' \in Tab /\ tab'.visit = tab.visit
         /\ \/ Showing(v) /\ tab' = Unmounted /\ tab'.stage = "away" /\ ~tab'.held /\ uploads' = {}
            \/ ~Showing(v) /\ tab' = tab /\ uploads' = uploads
  BY UnmountedIs DEF Navigate

\* The form goes when what it awaited at its end has been answered.
LEMMA EndedTyped ==
  ASSUME TypeInv, NEW i \in DOMAIN calls, calls[i].kind # "acquire", calls[i].waits,
         calls' \in Seq(Call), Remains(calls, calls', {i}), Navigate(calls[i].visit),
         UNCHANGED <<server, form, epoch, geo>>,
         draft' \in Content \cup {NoDraft}, events' \subseteq Events
  PROVE  TypeInv'
  <1> DEFINE v == calls[i].visit
  <1>0. /\ CallsOf(calls, tab) /\ calls \in Seq(Call) /\ TabOf(tab) /\ tab \in Tab
        /\ uploads \subseteq Epochs
    BY DEF TypeInv, TypeOK
  <1>1. CallsOf(calls', tab)
    BY <1>0, CallsRemain
  <1>2. CASE Showing(v)
    <2>1. tab.stage = "ready"
      BY <1>0, <1>2 DEF CallsOf, CallOf, Ending, Showing
    <2>2. \A k \in DOMAIN calls' : ~Awaited(calls'[k])
      BY <1>1, <2>1, NoneAwaited
    <2>3. tab' \in Tab /\ TabOf(tab') /\ CallsOf(calls', tab') /\ uploads' = {}
      BY <1>1, <1>2, <2>2, AwayTyped DEF Navigate
    <2> QED
      BY <2>3, FormTyped DEF TypeInv, TypeOK
  <1>3. CASE ~Showing(v)
    <2>1. tab' = tab /\ uploads' = uploads
      BY <1>3 DEF Navigate
    <2> QED
      BY <1>0, <1>1, <2>1, FormTyped DEF TypeInv, TypeOK
  <1> QED
    BY <1>2, <1>3

LEMMA RecordedTyped ==
  ASSUME TypeInv, NEW i \in DOMAIN calls, Recorded(i)
  PROVE  /\ TypeInv' /\ calls[i].waits
         /\ \/ /\ Showing(calls[i].visit) /\ tab.held /\ ~tab'.held
               /\ tab'.stage = tab.stage /\ tab'.visit = tab.visit
               /\ tab'.submitting = tab.submitting
               /\ \E ds \in Seq(Call) :
                    /\ Removed(calls, ds, i)
                    /\ Added(ds, calls', Len(ds) + 1, "release", tab.visit, TRUE)
            \/ /\ ~(Showing(calls[i].visit) /\ tab.held)
               /\ Removed(calls, calls', i) /\ Navigate(calls[i].visit)
  <1> DEFINE v == calls[i].visit
  <1>0. /\ CallsOf(calls, tab) /\ calls \in Seq(Call) /\ TabOf(tab) /\ tab \in Tab
        /\ calls[i].waits /\ calls[i] \in Call
    BY ElementOfSeq DEF TypeInv, TypeOK, CallsOf, CallOf, Recorded, Running
  <1>1. draft' = NoDraft
    BY DEF Recorded
  <1>2. CASE Showing(v) /\ tab.held
    <2> DEFINE ds == RemoveAt(calls, i)
    <2>1. ds \in Seq(Call) /\ Removed(calls, ds, i)
      BY <1>0, RemoveAtIs
    <2>2. calls' = Append(ds, Sent("release", v, TRUE)) /\ tab' = [tab EXCEPT !.held = FALSE]
          /\ uploads' = uploads
      BY <1>2 DEF Recorded
    <2> HIDE DEF ds
    <2>3. v = tab.visit /\ v \in Visits /\ v \in Nat /\ tab.stage = "ready"
      BY <1>0, <1>2, CallFields DEF Showing, TabOf
    <2>4. calls' \in Seq(Call) /\ Added(ds, calls', Len(ds) + 1, "release", v, TRUE)
      BY <2>1, <2>2, <2>3, AddedIs
    <2>5. /\ tab' \in Tab /\ tab'.stage = tab.stage /\ tab'.visit = tab.visit /\ ~tab'.held
          /\ tab'.submitting = tab.submitting
      BY <1>0, <2>2 DEF Tab
    <2>6. CallsOf(ds, tab) /\ \A k \in DOMAIN ds : ~Awaited(ds[k])
      BY <1>0, <2>1, <2>3, RemovedRemains, CallsRemain, NoneAwaited
    <2>7. CallsOf(ds, tab')
      <3>1. \A k \in DOMAIN ds : CallOf(ds[k], tab')
        BY <2>5, <2>6 DEF CallsOf, CallOf, Ending
      <3> QED
        BY <2>6, <3>1, CallsOfTab
    <2>8. CallsOf(calls', tab')
      <3> DEFINE n == Len(ds) + 1
      <3>1. n \in Nat /\ v <= tab'.visit
        BY <2>1, <2>3, <2>5
      <3> HIDE DEF n
      <3> QED
        BY <2>1, <2>3, <2>4, <2>5, <2>6, <2>7, <3>1, CallsAdded DEF n
    <2>9. TabOf(tab')
      BY <1>0, <2>3, <2>5 DEF TabOf, Recorded
    <2>10. TypeInv'
      BY <1>1, <2>2, <2>4, <2>5, <2>8, <2>9, FormTyped DEF Recorded, TypeInv, TypeOK
    <2> QED
      BY <1>0, <1>2, <2>1, <2>3, <2>4, <2>5, <2>10
  <1>3. CASE ~(Showing(v) /\ tab.held)
    <2>1. calls' = RemoveAt(calls, i) /\ Navigate(v)
      BY <1>3 DEF Recorded, Read
    <2>2. calls' \in Seq(Call) /\ Removed(calls, calls', i)
      BY <1>0, <2>1, RemoveAtIs
    <2>3. TypeInv'
      BY <1>0, <1>1, <2>1, <2>2, RemovedRemains, EndedTyped DEF Recorded, TypeInv, TypeOK
    <2> QED
      BY <1>0, <1>3, <2>1, <2>2, <2>3
  <1> QED
    BY <1>2, <1>3

LEMMA ReleasedTyped ==
  ASSUME TypeInv, NEW i \in DOMAIN calls, Released(i)
  PROVE  TypeInv' /\ calls[i].waits /\ Removed(calls, calls', i)
  <1>1. calls \in Seq(Call) /\ calls[i].waits
    BY DEF TypeInv, TypeOK, CallsOf, CallOf, Released, Running
  <1>2. calls' \in Seq(Call) /\ Removed(calls, calls', i)
    BY <1>1, RemoveAtIs DEF Released, Read
  <1>3. TypeInv'
    BY <1>1, <1>2, RemovedRemains, EndedTyped DEF Released, TypeInv, TypeOK
  <1> QED
    BY <1>1, <1>2, <1>3

LEMMA ReleaseFailsTyped ==
  ASSUME TypeInv, NEW i \in DOMAIN calls, ReleaseFails(i)
  PROVE  TypeInv' /\ Remains(calls, calls', {i}) /\ events \subseteq events' /\ "lost" \in events'
  <1>1. calls \in Seq(Call) /\ calls[i].waits
    BY DEF TypeInv, TypeOK, ReleaseFails
  <1>2. calls' \in Seq(Call) /\ Remains(calls, calls', {i})
    BY <1>1, GivenUpIs DEF ReleaseFails
  <1>3. events' \subseteq Events /\ events \subseteq events' /\ "lost" \in events'
    BY EventsGrow DEF ReleaseFails, Events
  <1>4. TypeInv'
    BY <1>1, <1>2, <1>3, EndedTyped DEF ReleaseFails, TypeInv, TypeOK
  <1> QED
    BY <1>2, <1>3, <1>4

\* The button is on again when the post has failed.
LEMMA AgainTyped ==
  ASSUME TypeInv, NEW i \in DOMAIN calls, calls' \in Seq(Call), Remains(calls, calls', {i}),
         tab' = Submitting(calls[i].visit, FALSE),
         UNCHANGED <<server, form, draft, epoch, uploads, geo>>, events' \subseteq Events
  PROVE  /\ TypeInv' /\ tab'.stage = tab.stage /\ tab'.visit = tab.visit /\ tab'.held = tab.held
         /\ tab'.submitting = (tab.submitting /\ ~Showing(calls[i].visit)) /\ tab'.saving = tab.saving
  <1>0. /\ CallsOf(calls, tab) /\ calls \in Seq(Call) /\ TabOf(tab) /\ tab \in Tab
        /\ tab.submitting \in BOOLEAN
    BY TabFields DEF TypeInv, TypeOK
  <1>1. /\ tab' \in Tab /\ tab'.stage = tab.stage /\ tab'.visit = tab.visit /\ tab'.held = tab.held
        /\ tab'.submitting = (tab.submitting /\ ~Showing(calls[i].visit)) /\ tab'.saving = tab.saving
    BY <1>0, SubmittingIs
  <1>2. CallsOf(calls', tab')
    BY <1>0, <1>1, CallsRemain, CallsOfSame
  <1>3. TabOf(tab')
    BY <1>0, <1>1 DEF TabOf
  <1> QED
    BY <1>1, <1>2, <1>3, FormTyped DEF TypeInv, TypeOK

LEMMA RefusedTyped ==
  ASSUME TypeInv, NEW i \in DOMAIN calls, Refused(i)
  PROVE  /\ TypeInv' /\ Removed(calls, calls', i) /\ calls[i].waits
         /\ tab'.stage = tab.stage /\ tab'.visit = tab.visit /\ tab'.held = tab.held
         /\ tab'.submitting = (tab.submitting /\ ~Showing(calls[i].visit)) /\ tab'.saving = tab.saving
  <1>1. calls \in Seq(Call) /\ calls[i].waits /\ events \subseteq Events
    BY DEF TypeInv, TypeOK, CallsOf, CallOf, Refused, Running
  <1>2. calls' \in Seq(Call) /\ Removed(calls, calls', i)
    BY <1>1, RemoveAtIs DEF Refused, Read
  <1> QED
    BY <1>1, <1>2, RemovedRemains, AgainTyped DEF Refused

LEMMA PostFailsTyped ==
  ASSUME TypeInv, NEW i \in DOMAIN calls, PostFails(i)
  PROVE  /\ TypeInv' /\ Remains(calls, calls', {i}) /\ events \subseteq events' /\ "lost" \in events'
         /\ tab'.stage = tab.stage /\ tab'.visit = tab.visit /\ tab'.held = tab.held
         /\ tab'.submitting = (tab.submitting /\ ~Showing(calls[i].visit)) /\ tab'.saving = tab.saving
  <1>1. calls \in Seq(Call)
    BY DEF TypeInv, TypeOK
  <1>2. calls' \in Seq(Call) /\ Remains(calls, calls', {i})
    BY <1>1, GivenUpIs DEF PostFails
  <1>3. events' \subseteq Events /\ events \subseteq events' /\ "lost" \in events'
    BY EventsGrow DEF PostFails, Events
  <1> QED
    BY <1>1, <1>2, <1>3, AgainTyped DEF PostFails

LEMMA TypeStep ==
  ASSUME TypeInv, [Next]_vars
  PROVE  TypeInv'
  <1>1. CASE UNCHANGED vars
    BY <1>1, Typed DEF vars, server, page, TypeInv, TypeOK
  <1>2. ASSUME NEW i \in DOMAIN calls, Serve(i) \/ Decide(i) \/ LoseCall(i)
        PROVE  TypeInv'
    BY <1>2, ServeTyped, LockTyped
  <1>3. ASSUME NEW i \in DOMAIN calls, Settle(i)
        PROVE  TypeInv'
    BY <1>3, ReservedTyped, RecordedTyped, ReleasedTyped, RefusedTyped DEF Settle
  <1>4. ASSUME NEW i \in DOMAIN calls, ReserveFails(i) \/ PostFails(i) \/ ReleaseFails(i)
        PROVE  TypeInv'
    BY <1>4, ReserveFailsTyped, PostFailsTyped, ReleaseFailsTyped
  <1>5. CASE Expire \/ OtherTakes \/ OtherInspects
    BY <1>5, LockTyped
  <1>6. CASE Open \/ Reserve \/ Leave \/ Close
    BY <1>6, OpenTyped, ReserveTyped, LeaveTyped, CloseTyped
  <1>7. CASE \/ Scan \/ Hydrate \/ Fill \/ Save \/ Pick \/ Restart
             \/ \E e \in uploads : Uploaded(e) \/ UploadFails(e)
             \/ \E e \in form : TakeBack(e)
    BY <1>7, DraftTyped
  <1>8. CASE Position
    BY <1>8, PositionTyped
  <1>9. CASE Press
    BY <1>9, PressTyped
  <1> QED
    BY <1>1, <1>2, <1>3, <1>4, <1>5, <1>6, <1>7, <1>8, <1>9 DEF Next, Fail

LEMMA TypeStart ==
  ASSUME Init
  PROVE  TypeInv
  <1>1. TypeOK
    <2>0. calls \in Seq(Call)
      BY DEF Init
    <2>1. tab \in Tab
      BY DEF Init, Tab
    <2>2. geo \in Geo
      BY DEF Init, Loaded, Geo
    <2>3. form \in Content /\ draft \in Content \cup {NoDraft} /\ epoch \in Epochs
      BY Numbers DEF Init, Content, Blank
    <2> QED
      BY <2>0, <2>1, <2>2, <2>3 DEF Init, TypeOK
  <1>2. CallsOf(calls, tab) /\ TabOf(tab)
    BY DEF Init, CallsOf, TabOf
  <1> QED
    BY <1>1, <1>2 DEF TypeInv

LEMMA TypeAlways == Spec => []TypeInv
  BY TypeStart, TypeStep, PTL DEF Spec

\* The state of the form, of its calls and of the server is always of its type.
THEOREM TypeCorrect == Spec => []TypeOK
  <1>1. TypeInv => TypeOK
    BY DEF TypeInv
  <1> QED
    BY <1>1, TypeAlways, PTL

\* What has happened is never forgotten.
LEMMA EventsKept ==
  ASSUME [Next]_vars
  PROVE  events \subseteq events'
  <1>0. ASSUME NEW new, Note(new)
        PROVE  events \subseteq events'
    BY <1>0 DEF Note
  <1>1. CASE UNCHANGED vars
    BY <1>1 DEF vars
  <1>2. ASSUME NEW i \in DOMAIN calls, Serve(i)
        PROVE  events \subseteq events'
    BY <1>0, <1>2 DEF Serve, ServeAcquire, ServeRelease, ServeCreate, Arrives
  <1>3. ASSUME NEW i \in DOMAIN calls, Decide(i) \/ Settle(i)
        PROVE  events \subseteq events'
    BY <1>3 DEF Decide, CommitCreate, RejectCreate, Settle, Reserved, Recorded, Released, Refused
  <1>4. ASSUME NEW i \in DOMAIN calls, Fail(i)
        PROVE  events \subseteq events'
    BY <1>0, <1>4 DEF Fail, LoseCall, ReserveFails, PostFails, ReleaseFails
  <1>5. CASE Expire \/ Leave \/ Close
    BY <1>0, <1>5 DEF Expire, Leave, Close
  <1>6. CASE OtherTakes \/ OtherInspects \/ Scan \/ Open \/ Reserve \/ Press
    BY <1>6 DEF OtherTakes, OtherInspects, Scan, Open, Reserve, Press
  <1>7. CASE \/ Hydrate \/ Fill \/ Save \/ Pick \/ Restart
             \/ \E e \in uploads : Uploaded(e) \/ UploadFails(e)
             \/ \E e \in form : TakeBack(e)
    BY <1>0, <1>7 DEF Hydrate, Fill, Save, Pick, Restart, Uploaded, UploadFails, TakeBack
  <1>8. CASE Position
    BY <1>8 DEF Position, Ask, Located, Dismiss, AskAgain
  <1> QED
    BY <1>1, <1>2, <1>3, <1>4, <1>5, <1>6, <1>7, <1>8 DEF Next

\* What is excused stays excused.
LEMMA ExcusedKept ==
  ASSUME events \subseteq events', NEW kinds, Excused(kinds)
  PROVE  Excused(kinds)'
  BY DEF Excused

-----------------------------------------------------------------------------
(* The lock *)

LEMMA RemainsGrants ==
  ASSUME NEW cs, NEW ds, NEW I, Remains(cs, ds, I)
  PROVE  /\ AnyGranted(ds) => AnyGranted(cs)
         /\ AnyReturning(ds) => AnyReturning(cs)
  <1>1. PICK m \in [DOMAIN ds -> DOMAIN cs] : \A k \in DOMAIN ds : Heir(cs[m[k]], ds[k])
    BY DEF Remains
  <1>2. \A k \in DOMAIN ds : /\ m[k] \in DOMAIN cs
                             /\ Granted(ds[k]) => Granted(cs[m[k]])
                             /\ Returning(ds[k]) => Returning(cs[m[k]])
    BY <1>1 DEF Heir, Granted, Returning, Awaited
  <1> QED
    BY <1>2 DEF AnyGranted, AnyReturning

LEMMA RemovedGrants ==
  ASSUME NEW cs, NEW ds, NEW i, Removed(cs, ds, i)
  PROVE  /\ AnyGranted(ds) => AnyGranted(cs)
         /\ AnyReturning(ds) => AnyReturning(cs)
         /\ AnyGranted(cs) => AnyGranted(ds) \/ Granted(cs[i])
         /\ AnyReturning(cs) => AnyReturning(ds) \/ Returning(cs[i])
  BY DEF Removed, AnyGranted, AnyReturning

LEMMA AnsweredGrants ==
  ASSUME NEW cs, NEW ds, NEW i \in DOMAIN cs, NEW stage, Answered(cs, ds, i, stage), stage # "sent"
  PROVE  /\ AnyReturning(ds) => AnyReturning(cs)
         /\ AnyReturning(cs) => AnyReturning(ds) \/ Returning(cs[i])
         /\ AnyGranted(ds) => AnyGranted(cs) \/ (stage = "ok" /\ Awaited(cs[i]))
         /\ AnyGranted(cs) => AnyGranted(ds) \/ Granted(cs[i])
         /\ stage = "ok" /\ Awaited(cs[i]) => AnyGranted(ds)
  <1>1. \A k \in DOMAIN cs : k = i \/ ds[k] = cs[k]
    BY DEF Answered
  <1>2. /\ ~Returning(ds[i])
        /\ Granted(ds[i]) <=> stage = "ok" /\ Awaited(cs[i])
    BY DEF Answered, Returning, Granted, Awaited
  <1>3. DOMAIN ds = DOMAIN cs
    BY DEF Answered
  <1> QED
    BY <1>1, <1>2, <1>3 DEF AnyGranted, AnyReturning

LEMMA AddedGrants ==
  ASSUME NEW cs, NEW ds, NEW n, NEW kind, NEW visit, NEW waits,
         Added(cs, ds, n, kind, visit, waits)
  PROVE  /\ AnyGranted(ds) <=> AnyGranted(cs)
         /\ AnyReturning(ds) <=> AnyReturning(cs) \/ kind = "release"
  <1>1. /\ \A k \in DOMAIN cs : k \in DOMAIN ds /\ ds[k] = cs[k]
        /\ \A k \in DOMAIN ds : k \in DOMAIN cs \/ k = n
        /\ n \in DOMAIN ds
    BY DEF Added
  <1>2. ~Granted(ds[n]) /\ (Returning(ds[n]) <=> kind = "release")
    BY DEF Added, Granted, Returning
  <1> QED
    BY <1>1, <1>2 DEF AnyGranted, AnyReturning

\* A call that is not a release has been sent.
LEMMA SentGrants ==
  ASSUME NEW kind, NEW visit, NEW waits, kind # "release",
         Added(calls, calls', Len(calls) + 1, kind, visit, waits)
  PROVE  /\ AnyGranted(calls') <=> AnyGranted(calls)
         /\ AnyReturning(calls') <=> AnyReturning(calls)
  <1> DEFINE n == Len(calls) + 1
  <1>1. Added(calls, calls', n, kind, visit, waits)
    OBVIOUS
  <1> HIDE DEF n
  <1> QED
    BY <1>1, AddedGrants

LEMMA HoldKept ==
  ASSUME HoldInv, events \subseteq events', UNCHANGED server,
         tab'.held \/ AnyGranted(calls') => tab.held \/ AnyGranted(calls),
         AnyReturning(calls') => AnyReturning(calls)
  PROVE  HoldInv'
  <1>1. CASE Excused(HoldTrouble)
    BY <1>1, ExcusedKept DEF HoldInv, HoldTrouble
  <1>2. CASE HoldOf(calls, tab, holder, recorded)
    BY <1>2 DEF HoldInv, HoldOf, server
  <1> QED
    BY <1>1, <1>2 DEF HoldInv

LEMMA ServeHolds ==
  ASSUME TypeInv, HoldInv, NEW i \in DOMAIN calls, Serve(i)
  PROVE  HoldInv'
  <1>0. /\ calls \in Seq(Call) /\ CallsOf(calls, tab) /\ holder \in {"nobody", "me", "other"}
    BY DEF TypeInv, TypeOK
  <1>1. CASE ServeAcquire(i)
    <2>0. PICK stage \in {"ok", "held", "refused"} :
            Answer(i, stage) /\ (holder' = IF stage = "ok" THEN "me" ELSE holder)
      BY <1>1 DEF ServeAcquire
    <2>1. /\ events \subseteq events' /\ calls[i].kind = "acquire" /\ calls[i].stage = "sent"
          /\ "overtaken" \in events' \/ \A j \in DOMAIN calls : j < i => calls[j].stage # "sent"
      BY <1>1, ArrivesIs DEF ServeAcquire
    <2>2. tab' = tab /\ recorded' = recorded
      BY <1>1 DEF ServeAcquire, page
    <2>3. CASE ~Awaited(calls[i])
      <3>1. Removed(calls, calls', i)
        BY <1>0, <2>0, <2>1, <2>3, AnswerIs DEF Awaited
      <3>2. holder' = holder \/ holder' = "me"
        BY <1>1 DEF ServeAcquire
      <3> QED
        BY <2>1, <2>2, <3>1, <3>2, RemovedGrants, ExcusedKept DEF HoldInv, HoldOf, HoldTrouble
    <2>4. CASE Awaited(calls[i]) /\ stage = "ok"
      <3>1. Answered(calls, calls', i, "ok")
        BY <1>0, <2>0, <2>4, AnswerIs DEF Awaited
      <3>2. CASE "overtaken" \in events'
        BY <3>2 DEF HoldInv, Excused, HoldTrouble
      <3>3. CASE \A j \in DOMAIN calls : j < i => calls[j].stage # "sent"
        <4>1. ~AnyReturning(calls)
          BY <1>0, <2>4, <3>3 DEF CallsOf, AnyReturning, Returning
        <4>2. ~AnyReturning(calls')
          BY <3>1, <4>1, AnsweredGrants
        <4> QED
          BY <2>0, <2>4, <4>2 DEF HoldInv, HoldOf
      <3> QED
        BY <2>1, <3>2, <3>3
    <2>5. CASE Awaited(calls[i]) /\ stage # "ok"
      <3>1. Answered(calls, calls', i, stage)
        BY <1>0, <2>0, <2>5, AnswerIs DEF Awaited
      <3> QED
        BY <2>0, <2>1, <2>2, <2>5, <3>1, AnsweredGrants, HoldKept DEF server
    <2> QED
      BY <2>3, <2>4, <2>5
  <1>2. CASE ServeRelease(i)
    <2>1. /\ events \subseteq events' /\ Returning(calls[i]) /\ ~Awaited(calls[i])
      BY <1>2, ArrivesIs DEF ServeRelease, Returning, Awaited
    <2>2. tab' = tab /\ Answer(i, "ok")
      BY <1>2 DEF ServeRelease, page
    <2>3. AnyGranted(calls') => AnyGranted(calls)
      BY <1>0, <2>1, <2>2, AnswerIs, AnsweredGrants, RemovedGrants
    <2>4. AnyReturning(calls)
      BY <2>1 DEF AnyReturning
    <2> QED
      BY <2>1, <2>2, <2>3, <2>4, ExcusedKept DEF HoldInv, HoldOf, HoldTrouble
  <1>3. CASE ServeCreate(i)
    <2>1. events \subseteq events' /\ ~Awaited(calls[i])
      BY <1>3, ArrivesIs DEF ServeCreate, Awaited
    <2>2. tab' = tab /\ UNCHANGED server
      BY <1>3 DEF ServeCreate, page
    <2>3. \/ Answered(calls, calls', i, "checked") \/ Answered(calls, calls', i, "refused")
          \/ Removed(calls, calls', i)
      BY <1>0, <1>3, AnsweredIs, AnswerIs DEF ServeCreate
    <2>4. /\ AnyGranted(calls') => AnyGranted(calls)
          /\ AnyReturning(calls') => AnyReturning(calls)
      BY <2>1, <2>3, AnsweredGrants, RemovedGrants
    <2> QED
      BY <2>1, <2>2, <2>4, HoldKept
  <1> QED
    BY <1>1, <1>2, <1>3 DEF Serve

LEMMA LockHolds ==
  ASSUME TypeInv, HoldInv, events \subseteq events',
         \/ \E i \in DOMAIN calls : Decide(i) \/ LoseCall(i)
         \/ Expire \/ OtherTakes \/ OtherInspects
  PROVE  HoldInv'
  <1>0. /\ calls \in Seq(Call) /\ CallsOf(calls, tab) /\ recorded \in Nat
        /\ holder \in {"nobody", "me", "other"}
    BY DEF TypeInv, TypeOK
  <1>1. ASSUME NEW i \in DOMAIN calls, Decide(i)
        PROVE  HoldInv'
    <2>1. tab' = tab /\ calls[i].kind = "create" /\ ~Awaited(calls[i])
      BY <1>0, <1>1 DEF Decide, CommitCreate, RejectCreate, page, Awaited, CallsOf, CallOf
    <2>2. PICK stage \in {"ok", "held", "refused"} : Answer(i, stage)
      BY <1>1 DEF Decide, CommitCreate, RejectCreate
    <2>3. /\ AnyGranted(calls') => AnyGranted(calls)
          /\ AnyReturning(calls') => AnyReturning(calls)
      BY <1>0, <2>1, <2>2, AnswerIs, AnsweredGrants, RemovedGrants
    <2>4. CASE CommitCreate(i)
      <3>1. recorded' > 0
        BY <1>0, <2>4 DEF CommitCreate
      <3> QED
        BY <2>1, <2>3, <3>1, ExcusedKept DEF HoldInv, HoldOf, HoldTrouble
    <2>5. CASE RejectCreate(i)
      BY <2>1, <2>3, <2>5, HoldKept DEF RejectCreate
    <2> QED
      BY <1>1, <2>4, <2>5 DEF Decide
  <1>2. ASSUME NEW i \in DOMAIN calls, LoseCall(i)
        PROVE  HoldInv'
    <2>1. Removed(calls, calls', i)
      BY <1>0, <1>2, RemoveAtIs DEF LoseCall
    <2> QED
      BY <1>2, <2>1, RemovedGrants, HoldKept DEF LoseCall, page
  <1>3. CASE Expire
    <2>1. tab' = tab /\ calls' = calls /\ recorded' = recorded
      BY <1>3 DEF Expire, page
    <2>2. CASE holder = "me"
      BY <1>3, <2>2 DEF Expire, Note, HoldInv, Excused, HoldTrouble
    <2>3. CASE holder # "me"
      BY <2>1, <2>3, ExcusedKept DEF HoldInv, HoldOf, HoldTrouble
    <2> QED
      BY <2>2, <2>3
  <1>4. CASE OtherTakes \/ OtherInspects
    <2>1. /\ tab' = tab /\ calls' = calls /\ holder # "me" /\ ~(recorded > 0)
      BY <1>0, <1>4 DEF OtherTakes, OtherInspects, page
    <2> QED
      BY <2>1, ExcusedKept DEF HoldInv, HoldOf, HoldTrouble
  <1> QED
    BY <1>1, <1>2, <1>3, <1>4

LEMMA FormHolds ==
  ASSUME TypeInv, HoldInv, events \subseteq events',
         \/ \E i \in DOMAIN calls : Settle(i) \/ ReserveFails(i) \/ PostFails(i) \/ ReleaseFails(i)
         \/ Open \/ Reserve \/ Leave \/ Close \/ Press
  PROVE  HoldInv'
  <1>0. /\ calls \in Seq(Call) /\ tab \in Tab /\ ~Unmounted.held /\ TabOf(tab)
        /\ CallsOf(calls, tab)
    BY UnmountedIs DEF TypeInv, TypeOK
  <1>n. ASSUME NEW v, Navigate(v), tab'.held
        PROVE  tab.held
    BY <1>0, <1>n, NavigateIs
  <1>1. ASSUME NEW i \in DOMAIN calls, Reserved(i)
        PROVE  HoldInv'
    <2>1. /\ Removed(calls, calls', i) /\ Awaited(calls[i])
          /\ tab'.held => calls[i].stage = "ok"
      BY <1>1, ReservedTyped
    <2>2. tab'.held => AnyGranted(calls)
      BY <2>1 DEF AnyGranted, Granted
    <2> QED
      BY <1>1, <2>1, <2>2, RemovedGrants, HoldKept DEF Reserved
  <1>2. ASSUME NEW i \in DOMAIN calls, Recorded(i)
        PROVE  HoldInv'
    <2>1. CASE Showing(calls[i].visit) /\ tab.held
      <3>1. PICK ds \in Seq(Call) : /\ Removed(calls, ds, i)
                                    /\ Added(ds, calls', Len(ds) + 1, "release", tab.visit, TRUE)
        BY <1>2, <2>1, RecordedTyped
      <3>2. AnyGranted(calls') => AnyGranted(calls)
        BY <3>1, RemovedGrants, AddedGrants
      <3>3. ~AnyGranted(calls) /\ ~tab'.held
        BY <1>0, <1>2, <2>1, NoneAwaited, RecordedTyped DEF TabOf, AnyGranted, Granted
      <3> QED
        BY <3>2, <3>3, ExcusedKept DEF HoldInv, HoldOf
    <2>2. CASE ~(Showing(calls[i].visit) /\ tab.held)
      <3>1. Removed(calls, calls', i) /\ Navigate(calls[i].visit)
        BY <1>2, <2>2, RecordedTyped
      <3> QED
        BY <1>2, <1>n, <3>1, RemovedGrants, HoldKept DEF Recorded
    <2> QED
      BY <2>1, <2>2
  <1>3. ASSUME NEW i \in DOMAIN calls, Released(i)
        PROVE  HoldInv'
    BY <1>3, <1>n, ReleasedTyped, RemovedGrants, HoldKept DEF Released
  <1>4. ASSUME NEW i \in DOMAIN calls, ReleaseFails(i)
        PROVE  HoldInv'
    BY <1>4, <1>n, ReleaseFailsTyped, RemainsGrants, HoldKept DEF ReleaseFails
  <1>5. ASSUME NEW i \in DOMAIN calls, Refused(i)
        PROVE  HoldInv'
    BY <1>5, RefusedTyped, RemovedGrants, HoldKept DEF Refused
  <1>6. ASSUME NEW i \in DOMAIN calls, PostFails(i)
        PROVE  HoldInv'
    BY <1>6, PostFailsTyped, RemainsGrants, HoldKept DEF PostFails
  <1>7. ASSUME NEW i \in DOMAIN calls, ReserveFails(i)
        PROVE  HoldInv'
    <2>1. Remains(calls, calls', {i}) /\ ~tab'.held
      BY <1>0, <1>7, GivenUpIs DEF ReserveFails
    <2> QED
      BY <1>7, <2>1, RemainsGrants, HoldKept DEF ReserveFails
  <1>8. CASE Open
    BY <1>8, HoldKept DEF Open
  <1>9. CASE Reserve
    <2>0. tab.visit \in Visits
      BY <1>0, <1>9 DEF Reserve, TabOf
    <2>1. Added(calls, calls', Len(calls) + 1, "acquire", tab.visit, TRUE)
      BY <1>0, <1>9, <2>0, AddedIs DEF Reserve, Send
    <2>2. tab'.held = tab.held
      BY <1>0, <1>9 DEF Reserve, Tab
    <2>3. /\ AnyGranted(calls') <=> AnyGranted(calls)
          /\ AnyReturning(calls') <=> AnyReturning(calls)
      BY <2>1, SentGrants
    <2> QED
      BY <1>9, <2>2, <2>3, HoldKept DEF Reserve
  <1>10. CASE Leave
    <2>1. ~tab'.held
      BY <1>0, <1>10 DEF Leave
    <2>2. CASE \/ calls' = calls \/ \E i \in DOMAIN calls : Remains(calls, calls', {i})
      BY <1>10, <2>1, <2>2, RemainsGrants, HoldKept DEF Leave
    <2>3. CASE tab.held /\ Added(calls, calls', Len(calls) + 1, "release", tab.visit, FALSE)
      <3>1. ~AnyGranted(calls)
        BY <1>0, <2>3, NoneAwaited DEF TabOf, AnyGranted, Granted
      <3>2. ~AnyGranted(calls')
        BY <2>3, <3>1, AddedGrants
      <3> QED
        BY <2>1, <3>2 DEF HoldInv, HoldOf
    <2> QED
      BY <1>10, <2>2, <2>3, LeaveTyped
  <1>11. CASE Close
    BY <1>0, <1>11, CloseTyped, RemainsGrants, HoldKept DEF Close
  <1>12. CASE Press
    <2>1. Added(calls, calls', Len(calls) + 1, "create", tab.visit, TRUE)
      BY <1>12, PressTyped
    <2>2. /\ AnyGranted(calls') <=> AnyGranted(calls)
          /\ AnyReturning(calls') <=> AnyReturning(calls)
      BY <2>1, SentGrants
    <2> QED
      BY <1>12, <2>2, PressTyped, HoldKept DEF Press
  <1> QED
    BY <1>1, <1>2, <1>3, <1>4, <1>5, <1>6, <1>7, <1>8, <1>9, <1>10, <1>11, <1>12 DEF Settle

\* What the operator does with the draft and the position touches neither the
\* lock nor the calls.
QuietNext ==
  \/ UNCHANGED vars \/ Scan
  \/ Hydrate \/ Fill \/ Save \/ Pick \/ Restart
  \/ \E e \in uploads : Uploaded(e) \/ UploadFails(e)
  \/ \E e \in form : TakeBack(e)
  \/ Position

LEMMA QuietIs ==
  ASSUME TypeInv, QuietNext
  PROVE  /\ UNCHANGED <<server, calls>> /\ tab'.stage = tab.stage
         /\ tab'.visit = tab.visit /\ tab'.held = tab.held
         /\ tab'.submitting = tab.submitting
  BY DEF QuietNext, TypeInv, TypeOK, Tab, vars, page, Scan, Hydrate, Fill, Save, Pick, Restart,
         Uploaded, UploadFails, TakeBack, Position, Ask, Located, Dismiss, AskAgain

LEMMA HoldStep ==
  ASSUME TypeInv, HoldInv, [Next]_vars
  PROVE  HoldInv'
  <1>0. events \subseteq events'
    BY EventsKept
  <1>1. CASE QuietNext
    BY <1>0, <1>1, QuietIs, HoldKept
  <1>2. CASE \E i \in DOMAIN calls : Serve(i) \/ Decide(i) \/ LoseCall(i)
    BY <1>0, <1>2, ServeHolds, LockHolds
  <1>3. CASE Expire \/ OtherTakes \/ OtherInspects
    BY <1>0, <1>3, LockHolds
  <1>4. CASE \/ \E i \in DOMAIN calls : \/ Settle(i) \/ ReserveFails(i)
                                         \/ PostFails(i) \/ ReleaseFails(i)
             \/ Open \/ Reserve \/ Leave \/ Close \/ Press
    BY <1>0, <1>4, FormHolds
  <1> QED
    BY <1>1, <1>2, <1>3, <1>4 DEF Next, Fail, QuietNext

LEMMA HoldAlways == Spec => []HoldInv
  <1>1. Init => HoldInv
    BY DEF Init, HoldInv, HoldOf, AnyGranted
  <1> QED
    BY <1>1, TypeAlways, HoldStep, PTL DEF Spec

\* A form that has been granted its unit holds the lock until it gives it up or
\* has its inspection, if calls are served in order and the lock does not run out.
THEOREM ReadyFormsHoldTheLock == Spec => []ReadyHoldsLock
  <1>1. TypeInv /\ HoldInv => ReadyHoldsLock
    BY DEF TypeInv, TypeOK, HoldInv, HoldOf, ReadyHoldsLock, HoldTrouble
  <1> QED
    BY <1>1, TypeAlways, HoldAlways, PTL

-----------------------------------------------------------------------------
(* The lock is returned *)

LEMMA ReturnKept ==
  ASSUME ReturnInv, events \subseteq events',
         AllAwaited(calls) => AllAwaited(calls'),
         AllAwaited(calls) /\ holder' = "me" =>
           \/ tab'.held \/ AnyGranted(calls') \/ AnyReturning(calls')
           \/ holder = "me" /\ ~(tab.held \/ AnyGranted(calls) \/ AnyReturning(calls))
  PROVE  ReturnInv'
  <1>1. CASE Excused(ReturnTrouble)
    BY <1>1, ExcusedKept DEF ReturnInv, ReturnTrouble
  <1>2. CASE ReturnOf(calls, tab, holder)
    BY <1>2 DEF ReturnInv, ReturnOf
  <1> QED
    BY <1>1, <1>2 DEF ReturnInv

LEMMA RemovedAwaited ==
  ASSUME NEW cs, NEW ds, NEW i, Removed(cs, ds, i), AllAwaited(cs)
  PROVE  AllAwaited(ds)
  BY DEF Removed, AllAwaited

LEMMA AnsweredAwaited ==
  ASSUME NEW cs, NEW ds, NEW i, NEW stage, Answered(cs, ds, i, stage), AllAwaited(cs)
  PROVE  AllAwaited(ds)
  BY DEF Answered, AllAwaited

LEMMA AddedAwaited ==
  ASSUME NEW cs, NEW ds, NEW n, NEW kind, NEW visit, NEW waits,
         Added(cs, ds, n, kind, visit, waits), AllAwaited(cs), kind = "acquire" => waits
  PROVE  AllAwaited(ds)
  BY DEF Added, AllAwaited

LEMMA SentAwaited ==
  ASSUME NEW kind, NEW visit, NEW waits, kind = "acquire" => waits, AllAwaited(calls),
         Added(calls, calls', Len(calls) + 1, kind, visit, waits)
  PROVE  AllAwaited(calls')
  <1> DEFINE n == Len(calls) + 1
  <1>1. Added(calls, calls', n, kind, visit, waits)
    OBVIOUS
  <1> HIDE DEF n
  <1> QED
    BY <1>1, AddedAwaited

LEMMA ServeReturns ==
  ASSUME TypeInv, ReturnInv, events \subseteq events', NEW i \in DOMAIN calls, Serve(i)
  PROVE  ReturnInv'
  <1>0. calls \in Seq(Call) /\ holder \in {"nobody", "me", "other"}
    BY DEF TypeInv, TypeOK
  <1>1. CASE ServeAcquire(i)
    <2>1. PICK stage \in {"ok", "held", "refused"} :
            Answer(i, stage) /\ (holder' = IF stage = "ok" THEN "me" ELSE holder)
      BY <1>1 DEF ServeAcquire
    <2>2. tab' = tab /\ calls[i].kind = "acquire" /\ ~Granted(calls[i]) /\ ~Returning(calls[i])
      BY <1>1 DEF ServeAcquire, Arrives, page, Granted, Returning
    <2>3. AllAwaited(calls) => Answered(calls, calls', i, stage) /\ Awaited(calls[i])
      BY <1>0, <2>1, <2>2, AnswerIs DEF AllAwaited, Awaited
    <2>4. AllAwaited(calls) =>
            /\ AllAwaited(calls')
            /\ AnyGranted(calls) => AnyGranted(calls')
            /\ AnyReturning(calls) => AnyReturning(calls')
            /\ stage = "ok" => AnyGranted(calls')
      BY <2>2, <2>3, AnsweredAwaited, AnsweredGrants
    <2> QED
      BY <2>1, <2>2, <2>4, ReturnKept
  <1>2. CASE ServeRelease(i)
    <2>1. holder' # "me" /\ Answer(i, "ok")
      BY <1>2 DEF ServeRelease
    <2>2. AllAwaited(calls) => AllAwaited(calls')
      BY <1>0, <2>1, AnswerIs, AnsweredAwaited, RemovedAwaited
    <2> QED
      BY <2>1, <2>2, ReturnKept
  <1>3. CASE ServeCreate(i)
    <2>1. tab' = tab /\ holder' = holder /\ ~Granted(calls[i]) /\ ~Returning(calls[i])
      BY <1>3 DEF ServeCreate, Arrives, page, server, Granted, Returning
    <2>2. PICK stage \in {"checked", "refused"} :
            Answered(calls, calls', i, stage) \/ Removed(calls, calls', i)
      BY <1>0, <1>3, AnsweredIs, AnswerIs DEF ServeCreate
    <2>3. /\ AllAwaited(calls) => AllAwaited(calls')
          /\ AnyGranted(calls) => AnyGranted(calls')
          /\ AnyReturning(calls) => AnyReturning(calls')
      BY <2>1, <2>2, AnsweredAwaited, AnsweredGrants, RemovedAwaited, RemovedGrants
    <2> QED
      BY <2>1, <2>3, ReturnKept
  <1> QED
    BY <1>1, <1>2, <1>3 DEF Serve

LEMMA LockReturns ==
  ASSUME TypeInv, ReturnInv, events \subseteq events',
         (\E i \in DOMAIN calls : Decide(i)) \/ Expire \/ OtherTakes \/ OtherInspects
  PROVE  ReturnInv'
  <1>0. calls \in Seq(Call)
    BY DEF TypeInv, TypeOK
  <1>1. ASSUME NEW i \in DOMAIN calls, Decide(i)
        PROVE  ReturnInv'
    <2>1. PICK stage \in {"ok", "held", "refused"} : Answer(i, stage)
      BY <1>1 DEF Decide, CommitCreate, RejectCreate
    <2>2. Answered(calls, calls', i, stage) \/ Removed(calls, calls', i)
      BY <1>0, <2>1, AnswerIs
    <2>3. tab' = tab /\ ~Granted(calls[i]) /\ ~Returning(calls[i])
      BY <1>1 DEF Decide, CommitCreate, RejectCreate, page, Granted, Returning
    <2>4. /\ AllAwaited(calls) => AllAwaited(calls')
          /\ AnyGranted(calls) => AnyGranted(calls')
          /\ AnyReturning(calls) => AnyReturning(calls')
      BY <2>2, <2>3, AnsweredAwaited, AnsweredGrants, RemovedAwaited, RemovedGrants
    <2>5. holder' = "me" => holder = "me"
      BY <1>1 DEF Decide, CommitCreate, RejectCreate, server
    <2> QED
      BY <2>3, <2>4, <2>5, ReturnKept
  <1>2. CASE Expire \/ OtherTakes \/ OtherInspects
    BY <1>2, ReturnKept DEF Expire, OtherTakes, OtherInspects
  <1> QED
    BY <1>1, <1>2

LEMMA FormReturns ==
  ASSUME TypeInv, ReturnInv, events \subseteq events',
         \/ \E i \in DOMAIN calls : Settle(i)
         \/ Open \/ Reserve \/ Leave \/ Close \/ Press
  PROVE  ReturnInv'
  <1>0. /\ calls \in Seq(Call) /\ tab \in Tab /\ TabOf(tab) /\ CallsOf(calls, tab)
    BY DEF TypeInv, TypeOK
  <1>1. ASSUME NEW i \in DOMAIN calls, Reserved(i)
        PROVE  ReturnInv'
    <2>1. /\ Removed(calls, calls', i) /\ tab.stage = "reserving" /\ ~tab.held
          /\ Granted(calls[i]) => tab'.held
      BY <1>0, <1>1, ReservedTyped DEF Granted, TabOf
    <2>2. ~Returning(calls[i]) /\ holder' = holder
      BY <1>1 DEF Reserved, Returning, server
    <2> QED
      BY <2>1, <2>2, RemovedGrants, RemovedAwaited, ReturnKept
  <1>2. ASSUME NEW i \in DOMAIN calls, Recorded(i)
        PROVE  ReturnInv'
    <2>1. ~Granted(calls[i]) /\ ~Returning(calls[i]) /\ holder' = holder
      BY <1>2 DEF Recorded, Granted, Awaited, Returning, server
    <2>2. CASE Showing(calls[i].visit) /\ tab.held
      <3>1. PICK ds \in Seq(Call) : /\ Removed(calls, ds, i)
                                    /\ Added(ds, calls', Len(ds) + 1, "release", tab.visit, TRUE)
        BY <1>2, <2>2, RecordedTyped
      <3>2. AnyReturning(calls') /\ (AllAwaited(calls) => AllAwaited(calls'))
        <4> DEFINE n == Len(ds) + 1
        <4>1. Added(ds, calls', n, "release", tab.visit, TRUE)
          BY <3>1
        <4> HIDE DEF n
        <4>2. AnyReturning(calls')
          BY <4>1, AddedGrants
        <4>3. AllAwaited(ds) => AllAwaited(calls')
          BY <4>1, AddedAwaited
        <4>4. AllAwaited(calls) => AllAwaited(ds)
          BY <3>1, RemovedAwaited
        <4> QED
          BY <4>2, <4>3, <4>4
      <3> QED
        BY <3>2, ReturnKept
    <2>3. CASE ~(Showing(calls[i].visit) /\ tab.held)
      <3>1. Removed(calls, calls', i) /\ Navigate(calls[i].visit)
        BY <1>2, <2>3, RecordedTyped
      <3>2. tab.held => tab'.held
        BY <1>0, <2>3, <3>1, NavigateIs
      <3> QED
        BY <2>1, <3>1, <3>2, RemovedGrants, RemovedAwaited, ReturnKept
    <2> QED
      BY <2>2, <2>3
  <1>3. ASSUME NEW i \in DOMAIN calls, Released(i)
        PROVE  ReturnInv'
    <2>1. /\ Removed(calls, calls', i) /\ calls[i].waits /\ calls[i].kind = "release"
          /\ ~Granted(calls[i]) /\ ~Returning(calls[i]) /\ holder' = holder
      BY <1>3, ReleasedTyped DEF Released, Granted, Awaited, Returning, server
    <2>2. tab.held => tab'.held
      <3>1. Showing(calls[i].visit) => ~tab.held
        BY <1>0, <2>1 DEF CallsOf, CallOf, Ending, Showing
      <3> QED
        BY <1>0, <1>3, <3>1, NavigateIs DEF Released
    <2> QED
      BY <2>1, <2>2, RemovedGrants, RemovedAwaited, ReturnKept
  <1>4. ASSUME NEW i \in DOMAIN calls, Refused(i)
        PROVE  ReturnInv'
    <2>1. /\ Removed(calls, calls', i) /\ tab'.held = tab.held
          /\ ~Granted(calls[i]) /\ ~Returning(calls[i]) /\ holder' = holder
      BY <1>4, RefusedTyped DEF Refused, Granted, Awaited, Returning, server
    <2> QED
      BY <2>1, RemovedGrants, RemovedAwaited, ReturnKept
  <1>5. CASE Open
    <2>1. ~tab.held /\ calls' = calls /\ holder' = holder
      BY <1>0, <1>5 DEF Open, TabOf, server
    <2> QED
      BY <2>1, ReturnKept
  <1>6. CASE Reserve
    <2>0. tab.visit \in Visits
      BY <1>0, <1>6 DEF Reserve, TabOf
    <2>1. Added(calls, calls', Len(calls) + 1, "acquire", tab.visit, TRUE)
      BY <1>0, <1>6, <2>0, AddedIs DEF Reserve, Send
    <2>2. tab'.held = tab.held /\ holder' = holder
      BY <1>0, <1>6 DEF Reserve, Tab, server
    <2>3. /\ AnyGranted(calls') <=> AnyGranted(calls)
          /\ AnyReturning(calls') <=> AnyReturning(calls)
          /\ AllAwaited(calls) => AllAwaited(calls')
      BY <2>1, SentGrants, SentAwaited
    <2> QED
      BY <2>2, <2>3, ReturnKept
  <1>7. CASE Leave
    <2>1. CASE tab.stage = "reserving"
      BY <1>7, <2>1, LeftIs DEF Leave, ReturnInv, Excused, ReturnTrouble
    <2>2. CASE Added(calls, calls', Len(calls) + 1, "release", tab.visit, FALSE)
      <3>1. AnyReturning(calls') /\ (AllAwaited(calls) => AllAwaited(calls'))
        <4> DEFINE n == Len(calls) + 1
        <4>1. Added(calls, calls', n, "release", tab.visit, FALSE)
          BY <2>2
        <4> HIDE DEF n
        <4>2. AnyReturning(calls')
          BY <4>1, AddedGrants
        <4>3. AllAwaited(calls) => AllAwaited(calls')
          BY <4>1 DEF Added, AllAwaited
        <4> QED
          BY <4>2, <4>3
      <3> QED
        BY <3>1, ReturnKept
    <2>3. CASE ~tab.held /\ calls' = calls
      BY <1>7, <2>3, ReturnKept DEF Leave, server
    <2> QED
      BY <1>7, <2>1, <2>2, <2>3, LeaveTyped
  <1>8. CASE Close
    BY <1>8, CloseTyped DEF ReturnInv, Excused, ReturnTrouble
  <1>9. CASE Press
    <2>1. /\ tab'.held = tab.held /\ holder' = holder
          /\ Added(calls, calls', Len(calls) + 1, "create", tab.visit, TRUE)
      BY <1>9, PressTyped DEF Press, server
    <2>2. /\ AnyGranted(calls') <=> AnyGranted(calls)
          /\ AnyReturning(calls') <=> AnyReturning(calls)
          /\ AllAwaited(calls) => AllAwaited(calls')
      BY <2>1, SentGrants, SentAwaited
    <2> QED
      BY <2>1, <2>2, ReturnKept
  <1> QED
    BY <1>1, <1>2, <1>3, <1>4, <1>5, <1>6, <1>7, <1>8, <1>9 DEF Settle

LEMMA ReturnStep ==
  ASSUME TypeInv, ReturnInv, [Next]_vars
  PROVE  ReturnInv'
  <1>0. events \subseteq events'
    BY EventsKept
  <1>1. CASE QuietNext
    BY <1>0, <1>1, QuietIs, ReturnKept DEF server
  <1>2. CASE \E i \in DOMAIN calls : Serve(i) \/ Decide(i)
    BY <1>0, <1>2, ServeReturns, LockReturns
  <1>3. CASE \E i \in DOMAIN calls : Fail(i)
    BY <1>3 DEF Fail, LoseCall, ReserveFails, PostFails, ReleaseFails, Note,
                ReturnInv, Excused, ReturnTrouble
  <1>4. CASE Expire \/ OtherTakes \/ OtherInspects
    BY <1>0, <1>4, LockReturns
  <1>5. CASE \/ \E i \in DOMAIN calls : Settle(i)
             \/ Open \/ Reserve \/ Leave \/ Close \/ Press
    BY <1>0, <1>5, FormReturns
  <1> QED
    BY <1>1, <1>2, <1>3, <1>4, <1>5 DEF Next, QuietNext

LEMMA ReturnAlways == Spec => []ReturnInv
  <1>1. Init => ReturnInv
    BY DEF Init, ReturnInv, ReturnOf, AllAwaited
  <1> QED
    BY <1>1, TypeAlways, ReturnStep, PTL DEF Spec

\* When no form is open and nothing is in service the lock is not this operator's,
\* unless a reservation was broken off, the tab was closed, or a call was lost.
THEOREM LocksAreReturned == Spec => []NoLockLeftBehind
  <1>1. TypeInv /\ ReturnInv => NoLockLeftBehind
    BY DEF TypeInv, TabOf, ReturnInv, ReturnOf, NoLockLeftBehind, ReturnTrouble,
           AnyGranted, AnyReturning
  <1> QED
    BY <1>1, TypeAlways, ReturnAlways, PTL

-----------------------------------------------------------------------------
(* The submit *)

LEMMA RemainsSubmits ==
  ASSUME NEW cs \in Seq(Call), NEW ds \in Seq(Call), NEW I, NEW t,
         Remains(cs, ds, I), SubmitOf(cs, t)
  PROVE  SubmitOf(ds, t)
  <1>1. PICK m \in [DOMAIN ds -> DOMAIN cs] :
          Rises(m) /\ \A k \in DOMAIN ds : Heir(cs[m[k]], ds[k])
    BY DEF Remains
  <1>2. DOMAIN cs \subseteq Nat /\ DOMAIN ds \subseteq Nat
    OBVIOUS
  <1>3. \A k \in DOMAIN ds : m[k] \in DOMAIN cs /\ (Ending(ds[k], t) => Ending(cs[m[k]], t))
    BY <1>1 DEF Heir, Ending
  <1>4. \A i, j \in DOMAIN ds : Ending(ds[i], t) /\ Ending(ds[j], t) => i = j
    <2> SUFFICES ASSUME NEW i \in DOMAIN ds, NEW j \in DOMAIN ds,
                        Ending(ds[i], t), Ending(ds[j], t)
                 PROVE  i = j
      OBVIOUS
    <2>1. m[i] = m[j] /\ m[i] \in Nat
      BY <1>2, <1>3 DEF SubmitOf
    <2> QED
      BY <1>1, <1>2, <2>1 DEF Rises
  <1> QED
    BY <1>3, <1>4 DEF SubmitOf

\* What the form waited for has been answered, or it no longer waits.
LEMMA NoneEndingLeft ==
  ASSUME NEW cs, NEW ds, NEW i \in DOMAIN cs, NEW t,
         Remains(cs, ds, {i}), SubmitOf(cs, t), Ending(cs[i], t)
  PROVE  \A k \in DOMAIN ds : ~Ending(ds[k], t)
  <1>1. PICK m \in [DOMAIN ds -> DOMAIN cs] :
          \A k \in DOMAIN ds : Heir(cs[m[k]], ds[k]) /\ (m[k] \in {i} => ~ds[k].waits)
    BY DEF Remains
  <1>2. ASSUME NEW k \in DOMAIN ds, Ending(ds[k], t)
        PROVE  FALSE
    <2>1. m[k] \in DOMAIN cs /\ Ending(cs[m[k]], t)
      BY <1>1, <1>2 DEF Heir, Ending
    <2>2. m[k] = i
      BY <2>1 DEF SubmitOf
    <2> QED
      BY <1>1, <1>2, <2>2 DEF Ending
  <1> QED
    BY <1>2

LEMMA AnsweredSubmits ==
  ASSUME NEW cs, NEW ds, NEW i \in DOMAIN cs, NEW stage, NEW t,
         Answered(cs, ds, i, stage), SubmitOf(cs, t)
  PROVE  SubmitOf(ds, t)
  <1>1. \A k \in DOMAIN cs : Ending(ds[k], t) <=> Ending(cs[k], t)
    BY DEF Answered, Ending
  <1> QED
    BY <1>1 DEF Answered, SubmitOf

LEMMA AddedSubmits ==
  ASSUME NEW cs, NEW ds, NEW n, NEW kind, NEW visit, NEW waits, NEW t,
         Added(cs, ds, n, kind, visit, waits),
         \/ SubmitOf(cs, t) /\ ~Ending(ds[n], t)
         \/ t.submitting /\ \A k \in DOMAIN cs : ~Ending(cs[k], t)
  PROVE  SubmitOf(ds, t)
  <1>1. \A k \in DOMAIN ds : k = n \/ (k \in DOMAIN cs /\ ds[k] = cs[k])
    BY DEF Added
  <1> QED
    BY <1>1 DEF SubmitOf

\* The form waits for nothing new.
LEMMA SubmitOfTab ==
  ASSUME NEW cs, NEW t, NEW u, SubmitOf(cs, t), u.visit = t.visit,
         u.stage # "away" => t.stage # "away",
         u.submitting = t.submitting \/ \A k \in DOMAIN cs : ~Ending(cs[k], u)
  PROVE  SubmitOf(cs, u)
  BY DEF SubmitOf, Ending

LEMMA NoneEndingSubmits ==
  ASSUME NEW cs, NEW t, \A k \in DOMAIN cs : ~Ending(cs[k], t)
  PROVE  SubmitOf(cs, t)
  BY DEF SubmitOf

\* What the server does with a call.
LEMMA ServerCalls ==
  ASSUME TypeInv, NEW i \in DOMAIN calls, Serve(i) \/ Decide(i) \/ LoseCall(i)
  PROVE  /\ UNCHANGED <<page, geo>> /\ calls' \in Seq(Call)
         /\ \/ \E stage \in {"checked", "ok", "held", "refused"} :
                 Answered(calls, calls', i, stage)
            \/ Removed(calls, calls', i)
  <1>0. calls \in Seq(Call)
    BY DEF TypeInv, TypeOK
  <1>1. \/ \E stage \in {"ok", "held", "refused"} : Answer(i, stage)
        \/ calls' = [calls EXCEPT ![i].stage = "checked"]
        \/ calls' = RemoveAt(calls, i)
    BY DEF Serve, ServeAcquire, ServeRelease, ServeCreate, Decide, CommitCreate, RejectCreate,
           LoseCall
  <1>2. UNCHANGED <<page, geo>>
    BY DEF Serve, ServeAcquire, ServeRelease, ServeCreate, Decide, CommitCreate, RejectCreate,
           LoseCall
  <1>3. CASE \E stage \in {"ok", "held", "refused"} : Answer(i, stage)
    BY <1>0, <1>2, <1>3, AnswerIs
  <1>4. CASE calls' = [calls EXCEPT ![i].stage = "checked"]
    BY <1>0, <1>2, <1>4, AnsweredIs
  <1>5. CASE calls' = RemoveAt(calls, i)
    BY <1>0, <1>2, <1>5, RemoveAtIs
  <1> QED
    BY <1>1, <1>3, <1>4, <1>5

LEMMA ServerSubmits ==
  ASSUME TypeInv, SubmitInv,
         \/ \E i \in DOMAIN calls : Serve(i) \/ Decide(i) \/ LoseCall(i)
         \/ Expire \/ OtherTakes \/ OtherInspects
  PROVE  SubmitInv'
  <1>0. calls \in Seq(Call) /\ SubmitOf(calls, tab)
    BY DEF TypeInv, TypeOK, SubmitInv
  <1>1. ASSUME NEW i \in DOMAIN calls, Serve(i) \/ Decide(i) \/ LoseCall(i)
        PROVE  UNCHANGED <<page, geo>> /\ SubmitOf(calls', tab)
    <2>1. /\ UNCHANGED <<page, geo>> /\ calls' \in Seq(Call)
          /\ (\E stage : Answered(calls, calls', i, stage)) \/ Removed(calls, calls', i)
      BY <1>1, ServerCalls
    <2>2. CASE \E stage : Answered(calls, calls', i, stage)
      BY <1>0, <2>1, <2>2, AnsweredSubmits
    <2>3. CASE Removed(calls, calls', i)
      BY <1>0, <2>1, <2>3, RemovedRemains, RemainsSubmits
    <2> QED
      BY <2>1, <2>2, <2>3
  <1>2. UNCHANGED <<page, geo>> /\ SubmitOf(calls', tab)
    BY <1>0, <1>1 DEF Expire, OtherTakes, OtherInspects
  <1> QED
    BY <1>2 DEF SubmitInv, page

LEMMA QuietSubmits ==
  ASSUME TypeInv, SubmitInv, QuietNext
  PROVE  SubmitInv'
  BY QuietIs, SubmitOfTab DEF SubmitInv

\* No form is shown that waits for anything.
LEMMA NothingAwaited ==
  ASSUME \A k \in DOMAIN calls' : ~Ending(calls'[k], tab')
  PROVE  SubmitInv'
  BY NoneEndingSubmits DEF SubmitInv

LEMMA OpeningSubmits ==
  ASSUME TypeInv, SubmitInv,
         \/ \E i \in DOMAIN calls : Reserved(i) \/ ReserveFails(i)
         \/ Open \/ Reserve \/ Close
  PROVE  SubmitInv'
  <1>0. /\ calls \in Seq(Call) /\ CallsOf(calls, tab)
        /\ tab \in Tab /\ Unmounted.stage = "away"
    BY UnmountedIs DEF TypeInv, TypeOK, SubmitInv
  <1>1. ASSUME NEW i \in DOMAIN calls, Reserved(i)
        PROVE  SubmitInv'
    <2>1. /\ tab.stage = "reserving" /\ tab'.visit = tab.visit /\ Removed(calls, calls', i)
      BY <1>1, ReservedTyped
    <2>2. \A k \in DOMAIN calls : ~Ending(calls[k], tab)
      BY <1>0, <2>1, NoneEnding
    <2>3. \A k \in DOMAIN calls' : ~Ending(calls'[k], tab')
      BY <2>1, <2>2 DEF Removed, Ending
    <2> QED
      BY <2>3, NothingAwaited
  <1>2. CASE (\E i \in DOMAIN calls : ReserveFails(i)) \/ Close
    <2>1. tab'.stage = "away"
      BY <1>0, <1>2 DEF ReserveFails, Close
    <2> QED
      BY <2>1, NothingAwaited DEF Ending
  <1>3. CASE Open
    <2>1. tab'.visit = tab.visit + 1 /\ calls' = calls
      BY <1>3 DEF Open
    <2>3. \A k \in DOMAIN calls : calls[k].visit \in Nat /\ calls[k].visit <= tab.visit
      BY <1>0, ElementOfSeq, CallFields DEF CallsOf, CallOf
    <2>4. \A k \in DOMAIN calls : calls[k].visit # tab'.visit
      BY <1>0, <2>1, <2>3, TabFields
    <2> QED
      BY <2>1, <2>4, NothingAwaited DEF Ending
  <1>4. CASE Reserve
    <2>0. tab.visit \in Visits /\ tab.stage = "loading"
      BY <1>4 DEF Reserve, TypeInv, TabOf
    <2>1. Added(calls, calls', Len(calls) + 1, "acquire", tab.visit, TRUE)
      BY <1>0, <1>4, <2>0, AddedIs DEF Reserve, Send
    <2>2. tab'.visit = tab.visit /\ tab'.stage = "reserving"
      BY <1>0, <1>4 DEF Reserve, Tab
    <2>4. \A k \in DOMAIN calls : ~Ending(calls[k], tab)
      BY <1>0, <2>0, NoneEnding
    <2>5. \A k \in DOMAIN calls' : ~Ending(calls'[k], tab')
      <3> DEFINE n == Len(calls) + 1
      <3>1. Added(calls, calls', n, "acquire", tab.visit, TRUE)
        BY <2>1
      <3> HIDE DEF n
      <3> QED
        BY <2>0, <2>2, <2>4, <3>1 DEF Added, Ending
    <2> QED
      BY <2>5, NothingAwaited
  <1> QED
    BY <1>1, <1>2, <1>3, <1>4

LEMMA LeaveSubmits ==
  ASSUME TypeInv, Leave
  PROVE  SubmitInv'
  <1>1. tab'.stage = "away"
    BY UnmountedIs DEF Leave, TypeInv, TypeOK
  <1> QED
    BY <1>1, NothingAwaited DEF Ending

LEMMA PressSubmits ==
  ASSUME TypeInv, SubmitInv, Press
  PROVE  SubmitInv'
  <1> DEFINE n == Len(calls) + 1
  <1>1. /\ ~tab.submitting /\ tab.stage = "ready" /\ tab'.visit = tab.visit /\ tab'.submitting
        /\ Added(calls, calls', n, "create", tab.visit, TRUE)
    BY PressTyped DEF Press
  <1> HIDE DEF n
  <1>2. \A k \in DOMAIN calls : ~Ending(calls[k], tab')
    BY <1>1 DEF SubmitInv, SubmitOf, Ending
  <1> QED
    BY <1>1, <1>2, AddedSubmits DEF SubmitInv

\* A form whose submit is at its end is that of the call.
LEMMA EndedSubmits ==
  ASSUME TypeInv, SubmitInv, NEW i \in DOMAIN calls, calls[i].kind # "acquire", calls[i].waits,
         calls' \in Seq(Call), Remains(calls, calls', {i}),
         \/ Navigate(calls[i].visit)
         \/ /\ tab'.stage = tab.stage /\ tab'.visit = tab.visit /\ tab'.saving = tab.saving
            /\ tab'.submitting = (tab.submitting /\ ~Showing(calls[i].visit))
  PROVE  SubmitInv'
  <1>0. /\ calls \in Seq(Call) /\ SubmitOf(calls, tab)
        /\ tab \in Tab /\ tab.submitting \in BOOLEAN
    BY TabFields DEF TypeInv, TypeOK, SubmitInv
  <1>1. CASE Showing(calls[i].visit)
    <2>1. Ending(calls[i], tab)
      BY <1>1 DEF Ending, Showing
    <2>2. tab.submitting
      BY <1>0, <2>1 DEF SubmitOf
    <2>4. \A k \in DOMAIN calls' : ~Ending(calls'[k], tab)
      BY <1>0, <2>1, NoneEndingLeft
    <2>5. tab'.visit = tab.visit /\ (tab'.stage # "away" => tab.stage # "away")
      BY <1>0, NavigateIs
    <2>6. \A k \in DOMAIN calls' : ~Ending(calls'[k], tab')
      BY <2>4, <2>5 DEF Ending
    <2> QED
      BY <2>6, NothingAwaited
  <1>2. CASE ~Showing(calls[i].visit)
    <2>1. /\ tab'.stage = tab.stage /\ tab'.visit = tab.visit /\ tab'.saving = tab.saving
          /\ tab'.submitting = tab.submitting
      BY <1>0, <1>2, NavigateIs
    <2>2. SubmitOf(calls', tab)
      BY <1>0, RemainsSubmits
    <2>3. SubmitOf(calls', tab')
      BY <2>1, <2>2, SubmitOfTab
    <2> QED
      BY <2>3 DEF SubmitInv
  <1> QED
    BY <1>1, <1>2

LEMMA RecordedSubmits ==
  ASSUME TypeInv, SubmitInv, NEW i \in DOMAIN calls, Recorded(i)
  PROVE  SubmitInv'
  <1>0. /\ calls \in Seq(Call) /\ SubmitOf(calls, tab)
        /\ calls[i].waits /\ calls[i].kind = "create"
    BY RecordedTyped DEF TypeInv, TypeOK, SubmitInv, Recorded
  <1>1. CASE Showing(calls[i].visit) /\ tab.held
    <2>1. PICK ds \in Seq(Call) : /\ Removed(calls, ds, i)
                                  /\ Added(ds, calls', Len(ds) + 1, "release", tab.visit, TRUE)
      BY <1>1, RecordedTyped
    <2>2. /\ tab'.stage = tab.stage /\ tab'.visit = tab.visit
          /\ tab'.submitting = tab.submitting
      BY <1>1, RecordedTyped
    <2>3. Ending(calls[i], tab) /\ tab.submitting
      BY <1>0, <1>1 DEF Ending, Showing, SubmitOf
    <2>4. \A k \in DOMAIN ds : ~Ending(ds[k], tab)
      <3>1. Removed(calls, ds, i)
        BY <2>1
      <3> QED
        BY <1>0, <2>3, <3>1, RemovedRemains, NoneEndingLeft
    <2>5. \A k \in DOMAIN ds : ~Ending(ds[k], tab')
      BY <2>2, <2>4 DEF Ending
    <2>6. SubmitOf(calls', tab')
      <3> DEFINE n == Len(ds) + 1
      <3>1. Added(ds, calls', n, "release", tab.visit, TRUE)
        BY <2>1
      <3> HIDE DEF n
      <3> QED
        BY <2>2, <2>3, <2>5, <3>1, AddedSubmits
    <2> QED
      BY <2>6 DEF SubmitInv
  <1>2. CASE ~(Showing(calls[i].visit) /\ tab.held)
    <2>1. Removed(calls, calls', i) /\ Navigate(calls[i].visit)
      BY <1>2, RecordedTyped
    <2>2. calls' \in Seq(Call)
      BY RecordedTyped DEF TypeInv, TypeOK
    <2> QED
      BY <1>0, <2>1, <2>2, RemovedRemains, EndedSubmits DEF Recorded
  <1> QED
    BY <1>1, <1>2

LEMMA EndingSubmits ==
  ASSUME TypeInv, SubmitInv, NEW i \in DOMAIN calls,
         Released(i) \/ ReleaseFails(i) \/ Refused(i) \/ PostFails(i)
  PROVE  SubmitInv'
  <1>1. calls' \in Seq(Call)
    BY ReleasedTyped, ReleaseFailsTyped, RefusedTyped, PostFailsTyped DEF TypeInv, TypeOK
  <1>2. CASE Released(i)
    BY <1>1, <1>2, ReleasedTyped, RemovedRemains, EndedSubmits DEF Released
  <1>3. CASE ReleaseFails(i)
    BY <1>1, <1>3, ReleaseFailsTyped, EndedSubmits DEF ReleaseFails
  <1>4. CASE Refused(i)
    BY <1>1, <1>4, RefusedTyped, RemovedRemains, EndedSubmits DEF Refused
  <1>5. CASE PostFails(i)
    BY <1>1, <1>5, PostFailsTyped, EndedSubmits DEF PostFails
  <1> QED
    BY <1>2, <1>3, <1>4, <1>5

LEMMA SubmitStep ==
  ASSUME TypeInv, SubmitInv, [Next]_vars
  PROVE  SubmitInv'
  <1>1. CASE QuietNext
    BY <1>1, QuietSubmits
  <1>2. CASE \/ \E i \in DOMAIN calls : Serve(i) \/ Decide(i) \/ LoseCall(i)
             \/ Expire \/ OtherTakes \/ OtherInspects
    BY <1>2, ServerSubmits
  <1>3. CASE \/ \E i \in DOMAIN calls : Reserved(i) \/ ReserveFails(i)
             \/ Open \/ Reserve \/ Close
    BY <1>3, OpeningSubmits
  <1>4. CASE Leave
    BY <1>4, LeaveSubmits
  <1>5. CASE Press
    BY <1>5, PressSubmits
  <1>6. ASSUME NEW i \in DOMAIN calls, \/ Recorded(i) \/ Released(i) \/ ReleaseFails(i)
                                       \/ Refused(i) \/ PostFails(i)
        PROVE  SubmitInv'
    BY <1>6, RecordedSubmits, EndingSubmits
  <1> QED
    BY <1>1, <1>2, <1>3, <1>4, <1>5, <1>6 DEF Next, QuietNext, Fail, Settle

LEMMA SubmitAlways == Spec => []SubmitInv
  <1>1. Init => SubmitInv
    BY DEF Init, SubmitInv, SubmitOf
  <1> QED
    BY <1>1, TypeAlways, SubmitStep, PTL DEF Spec

-----------------------------------------------------------------------------
(* The answers *)

LEMMA AnswersStep ==
  ASSUME TypeInv, AnswersInv, [Next]_vars
  PROVE  AnswersInv'
  <1>0. events \subseteq events' /\ epoch \in Nat /\ epoch \in Epochs /\ uploads \subseteq Nat
        /\ draft \in Content \cup {NoDraft} /\ 0 \notin Epochs /\ tab \in Tab
    BY EventsKept, Numbers DEF TypeInv, TypeOK, Epochs
  <1>1. ASSUME uploads' \subseteq uploads, epoch' = epoch, form' = form,
               draft' = draft \/ draft' = NoDraft,
               tab'.stage # "away" => tab.stage # "away"
        PROVE  AnswersInv'
    <2>1. Excused({"late_upload"}) => Excused({"late_upload"})'
      BY <1>0, ExcusedKept
    <2> QED
      BY <1>1, <2>1 DEF AnswersInv, NoDraft
  <1>2. CASE \E i \in DOMAIN calls : Serve(i) \/ Decide(i) \/ LoseCall(i)
    BY <1>1, <1>2, ServerCalls DEF page
  <1>3. CASE \/ \E i \in DOMAIN calls : \/ Settle(i) \/ ReserveFails(i)
                                         \/ PostFails(i) \/ ReleaseFails(i)
    <2>1. ASSUME NEW i \in DOMAIN calls, Reserved(i) \/ ReserveFails(i)
          PROVE  AnswersInv'
      BY <1>1, <2>1, ReservedTyped, ReserveFailsTyped DEF Reserved, ReserveFails
    <2>2. ASSUME NEW i \in DOMAIN calls, Refused(i) \/ PostFails(i)
          PROVE  AnswersInv'
      BY <1>1, <2>2, RefusedTyped, PostFailsTyped DEF Refused, PostFails
    <2>3. ASSUME NEW i \in DOMAIN calls, Released(i) \/ ReleaseFails(i)
          PROVE  AnswersInv'
      BY <1>0, <1>1, <2>3, NavigateIs DEF Released, ReleaseFails
    <2>4. ASSUME NEW i \in DOMAIN calls, Recorded(i)
          PROVE  AnswersInv'
      <3>1. CASE Showing(calls[i].visit) /\ tab.held
        BY <1>1, <2>4, <3>1, RecordedTyped DEF Recorded
      <3>2. CASE ~(Showing(calls[i].visit) /\ tab.held)
        BY <1>0, <1>1, <2>4, <3>2, NavigateIs DEF Recorded
      <3> QED
        BY <3>1, <3>2
    <2> QED
      BY <1>3, <2>1, <2>2, <2>3, <2>4 DEF Settle
  <1>4. CASE Expire \/ OtherTakes \/ OtherInspects
    BY <1>1, <1>4 DEF Expire, OtherTakes, OtherInspects, page
  <1>5. CASE Reserve \/ Leave \/ Close
    <2>1. Leave \/ Close => tab'.stage = "away"
      BY <1>0, UnmountedIs DEF Leave, Close
    <2> QED
      BY <1>1, <1>5, <2>1 DEF Reserve, Leave, Close
  <1>6. CASE Press
    BY <1>1, <1>6, PressTyped DEF Press
  <1>7. CASE Position \/ UNCHANGED vars
    BY <1>1, <1>7 DEF Position, Ask, Located, Dismiss, AskAgain, page, vars
  <1>8. CASE Scan
    <2>1. tab'.stage = "away" /\ epoch < epoch' /\ epoch' \in Nat /\ draft' = {0} /\ uploads' = uploads
      BY <1>0, <1>8 DEF Scan, NoDraft
    <2>2. \A e \in uploads : e <= epoch'
      BY <1>0, <2>1 DEF AnswersInv
    <2> QED
      BY <2>1, <2>2 DEF AnswersInv
  <1>9. CASE Open
    BY <1>9, <1>0, ExcusedKept DEF Open, Blank, AnswersInv
  <1>10. CASE Restart
    <2>1. /\ form' = {} /\ epoch < epoch' /\ epoch' \in Nat /\ draft' = {0} /\ uploads' = uploads
      BY <1>0, <1>10 DEF Restart, NoDraft, Blank
    <2>2. \A e \in uploads : e <= epoch'
      BY <1>0, <2>1 DEF AnswersInv
    <2> QED
      BY <2>1, <2>2 DEF AnswersInv
  <1>11. CASE \E e \in uploads : Uploaded(e)
    <2>1. PICK e \in uploads : Uploaded(e)
      BY <1>11
    <2>2. /\ uploads' \subseteq uploads /\ epoch' = epoch /\ draft' = draft /\ tab' = tab
          /\ form' = form \cup {e}
      BY <2>1 DEF Uploaded
    <2>3. CASE e < epoch
      BY <2>1, <2>2, <2>3 DEF Uploaded, Note, AnswersInv, Excused
    <2>4. CASE ~(e < epoch)
      <3>1. e = epoch
        BY <1>0, <2>4 DEF AnswersInv
      <3> QED
        BY <1>0, <2>2, <3>1, ExcusedKept DEF AnswersInv
    <2> QED
      BY <2>3, <2>4
  <1>12. CASE (\E e \in uploads : UploadFails(e)) \/ (\E e \in form : TakeBack(e))
    BY <1>0, <1>12, ExcusedKept DEF UploadFails, TakeBack, AnswersInv
  <1>13. CASE Fill \/ Pick
    <2>1. Excused({"late_upload"}) => Excused({"late_upload"})'
      BY <1>0, ExcusedKept
    <2>2. CASE Fill
      BY <2>1, <2>2 DEF Fill, AnswersInv
    <2>3. CASE Pick
      <3>1. epoch <= epoch
        BY <1>0
      <3> QED
        BY <2>1, <2>3, <3>1 DEF Pick, AnswersInv
    <2> QED
      BY <1>13, <2>2, <2>3
  <1>14. CASE Save
    BY <1>0, <1>14, ExcusedKept DEF Save, AnswersInv
  <1>15. CASE Hydrate
    <2>1. tab'.stage = tab.stage /\ tab.stage # "away"
      BY <1>0, <1>15 DEF Hydrate, Tab
    <2>2. /\ uploads' = uploads /\ epoch' = epoch
          /\ form' = IF draft = NoDraft THEN form ELSE draft
          /\ draft' = draft \/ draft' = form'
      BY <1>15 DEF Hydrate
    <2>3. draft # NoDraft => 0 \notin draft
      BY <1>0 DEF Content
    <2> QED
      BY <1>0, <2>1, <2>2, <2>3, ExcusedKept DEF AnswersInv
  <1> QED
    BY <1>2, <1>3, <1>4, <1>5, <1>6, <1>7, <1>8, <1>9, <1>10, <1>11, <1>12, <1>13, <1>14, <1>15
    DEF Next, Fail

LEMMA AnswersAlways == Spec => []AnswersInv
  <1>1. Init => AnswersInv
    BY DEF Init, AnswersInv, NoDraft, Blank
  <1> QED
    BY <1>1, TypeAlways, AnswersStep, PTL DEF Spec

\* Nothing given before a restart or a new scan is in the form or in the draft,
\* but a photo that was on its way.
THEOREM OldAnswersAreGone == Spec => []OldAnswersStayOut
  <1>1. AnswersInv => OldAnswersStayOut
    BY DEF AnswersInv, OldAnswersStayOut
  <1> QED
    BY <1>1, AnswersAlways, PTL

-----------------------------------------------------------------------------
(* The inspection *)

NoCreate(cs) == \A i \in DOMAIN cs : cs[i].kind # "create"

LEMMA NoCreates ==
  ASSUME NEW cs \in Seq(Call), NEW t, NEW h, NEW r, CallsOf(cs, t), NoCreate(cs), r <= 1
  PROVE  CreateOf(cs, t, h, r)
  BY DEF CallsOf, CallOf, NoCreate, CreateOf

\* A form that is not shown has no create, and is not the one that has been checked.
LEMMA NotEnding ==
  ASSUME NEW cs, NEW t, NEW h, NEW r, CreateOf(cs, t, h, r), \A i \in DOMAIN cs : ~Ending(cs[i], t)
  PROVE  NoCreate(cs)
  BY DEF CreateOf, NoCreate

LEMMA RemainsNoCreate ==
  ASSUME NEW cs, NEW ds, NEW I, Remains(cs, ds, I), NoCreate(cs)
  PROVE  NoCreate(ds)
  <1>1. PICK m \in [DOMAIN ds -> DOMAIN cs] : \A k \in DOMAIN ds : Heir(cs[m[k]], ds[k])
    BY DEF Remains
  <1> QED
    BY <1>1 DEF Heir, NoCreate

\* A call is gone.
LEMMA RemovedCreates ==
  ASSUME NEW cs \in Seq(Call), NEW ds \in Seq(Call), NEW i, NEW t, NEW h, NEW r,
         Removed(cs, ds, i), CreateOf(cs, t, h, r)
  PROVE  CreateOf(ds, t, h, r)
  <1>1. PICK m \in [DOMAIN ds -> DOMAIN cs] :
          Rises(m) /\ \A k \in DOMAIN ds : ds[k] = cs[m[k]]
    BY DEF Removed
  <1>2. DOMAIN cs \subseteq Nat /\ DOMAIN ds \subseteq Nat
    OBVIOUS
  <1>3. ~AnyReturning(cs) => ~AnyReturning(ds)
    BY RemovedGrants
  <1>4. \A k, l \in DOMAIN ds : ds[k].kind = "create" /\ ds[l].kind = "release" => l < k
    <2> SUFFICES ASSUME NEW k \in DOMAIN ds, NEW l \in DOMAIN ds,
                        ds[k].kind = "create", ds[l].kind = "release"
                 PROVE  l < k
      OBVIOUS
    <2>1. m[l] < m[k] /\ m[l] \in Nat /\ m[k] \in Nat
      BY <1>1, <1>2 DEF CreateOf
    <2>2. k \in Nat /\ l \in Nat /\ (k < l => m[k] < m[l])
      BY <1>1, <1>2 DEF Rises
    <2>3. k # l
      BY <2>1
    <2> QED
      BY <2>1, <2>2, <2>3
  <1> QED
    BY <1>1, <1>3, <1>4 DEF CreateOf

\* A call is answered, and the lock is not lost by it.
LEMMA AnsweredCreates ==
  ASSUME NEW cs \in Seq(Call), NEW ds \in Seq(Call), NEW i \in DOMAIN cs, NEW stage,
         NEW t, NEW h, NEW r, NEW g, NEW q,
         Answered(cs, ds, i, stage), CreateOf(cs, t, h, r), stage # "sent", q <= 1,
         (\E k \in DOMAIN cs : ds[k].stage = "checked") => g = "me" /\ q = 0 /\ ~AnyReturning(cs)
  PROVE  CreateOf(ds, t, g, q)
  <1>1. \A k \in DOMAIN cs : /\ ds[k].kind = cs[k].kind
                             /\ Ending(ds[k], t) <=> Ending(cs[k], t)
    BY DEF Answered, Ending
  <1>2. ~AnyReturning(cs) => ~AnyReturning(ds)
    BY AnsweredGrants
  <1>3. DOMAIN ds = DOMAIN cs
    BY DEF Answered
  <1> QED
    BY <1>1, <1>2, <1>3 DEF CreateOf

LEMMA ServeCreates ==
  ASSUME TypeInv, CreateOf(calls, tab, holder, recorded), SubmitOf(calls, tab),
         NEW i \in DOMAIN calls, Serve(i)
  PROVE  CreateInv'
  <1>0. /\ calls \in Seq(Call) /\ calls' \in Seq(Call) /\ tab' = tab /\ recorded \in Nat
        /\ recorded' = recorded /\ recorded <= 1 /\ CallsOf(calls, tab)
    BY ServerCalls DEF TypeInv, TypeOK, page, server, CreateOf, Serve, ServeAcquire, ServeRelease, ServeCreate
  <1>1. CASE ServeAcquire(i)
    <2>1. PICK stage \in {"ok", "held", "refused"} :
            /\ Answer(i, stage)
            /\ holder' = IF stage = "ok" THEN "me" ELSE holder
      BY <1>1 DEF ServeAcquire
    <2>2. \A k \in DOMAIN calls : calls[k].stage = "checked" =>
            holder' = "me" /\ recorded' = 0 /\ ~AnyReturning(calls)
      BY <1>0, <2>1 DEF CreateOf
    <2>3. CASE Answered(calls, calls', i, stage)
      <3>1. \A k \in DOMAIN calls : calls'[k].stage = "checked" => calls[k].stage = "checked"
        BY <2>3 DEF Answered
      <3>2. CreateOf(calls', tab, holder', recorded')
        BY <1>0, <2>2, <2>3, <3>1, AnsweredCreates
      <3> QED
        BY <1>0, <3>2 DEF CreateInv
    <2>4. CASE Removed(calls, calls', i)
      <3>1. CreateOf(calls, tab, holder', recorded')
        BY <1>0, <2>2 DEF CreateOf
      <3>2. CreateOf(calls', tab, holder', recorded')
        BY <1>0, <2>4, <3>1, RemovedCreates
      <3> QED
        BY <1>0, <3>2 DEF CreateInv
    <2> QED
      BY <1>0, <2>1, <2>3, <2>4, AnswerIs
  <1>2. CASE ServeRelease(i)
    <2>1. AnyReturning(calls)
      BY <1>2 DEF ServeRelease, Arrives, AnyReturning, Returning
    <2>2. \A k \in DOMAIN calls : calls[k].stage # "checked"
      BY <2>1 DEF CreateOf
    <2>3. Answer(i, "ok")
      BY <1>2 DEF ServeRelease
    <2>4. CASE Answered(calls, calls', i, "ok")
      <3>1. \A k \in DOMAIN calls : calls'[k].stage # "checked"
        BY <2>2, <2>4 DEF Answered
      <3>2. CreateOf(calls', tab, holder', recorded')
        BY <1>0, <2>4, <3>1, AnsweredCreates
      <3> QED
        BY <1>0, <3>2 DEF CreateInv
    <2>5. CASE Removed(calls, calls', i)
      <3>1. CreateOf(calls, tab, holder', recorded')
        BY <1>0, <2>2 DEF CreateOf
      <3>2. CreateOf(calls', tab, holder', recorded')
        BY <1>0, <2>5, <3>1, RemovedCreates
      <3> QED
        BY <1>0, <3>2 DEF CreateInv
    <2> QED
      BY <1>0, <2>3, <2>4, <2>5, AnswerIs
  <1>3. CASE ServeCreate(i)
    <2>1. /\ calls[i].kind = "create" /\ Ending(calls[i], tab) /\ calls[i].waits /\ holder' = holder
          /\ "overtaken" \in events' \/ \A j \in DOMAIN calls : j < i => calls[j].stage # "sent"
      BY <1>3, ArrivesIs DEF ServeCreate, CreateOf, Ending, server
    <2>2. CASE "overtaken" \in events'
      BY <2>2 DEF CreateInv, Excused, CreateTrouble
    <2>3. CASE \A j \in DOMAIN calls : j < i => calls[j].stage # "sent"
      <3>1. ~AnyReturning(calls)
        BY <2>1, <2>3 DEF AnyReturning, Returning, CreateOf
      <3>2. CASE calls' = [calls EXCEPT ![i].stage = "checked"]
        <4>1. Answered(calls, calls', i, "checked")
          BY <1>0, <3>2, AnsweredIs
        <4>2. CASE holder = "me" /\ recorded = 0
          <5>1. CreateOf(calls', tab, holder', recorded')
            BY <1>0, <2>1, <3>1, <4>1, <4>2, AnsweredCreates
          <5> QED
            BY <1>0, <5>1 DEF CreateInv
        <4>3. CASE ~(holder = "me" /\ recorded = 0)
          <5>1. Answer(i, "refused")
            BY <1>3, <4>3 DEF ServeCreate
          <5>2. Answered(calls, calls', i, "refused")
            BY <1>0, <2>1, <5>1, AnswerIs
          <5> QED
            BY <4>1, <5>2 DEF Answered
        <4> QED
          BY <4>2, <4>3
      <3>3. CASE Answer(i, "refused")
        <4>1. Answered(calls, calls', i, "refused")
          BY <1>0, <2>1, <3>3, AnswerIs
        <4>2. \A k \in DOMAIN calls : calls'[k].stage = "checked" => calls[k].stage = "checked"
          BY <4>1 DEF Answered
        <4>3. \A k \in DOMAIN calls : calls[k].stage = "checked" => holder = "me" /\ recorded = 0
          BY DEF CreateOf
        <4>4. (\E k \in DOMAIN calls : calls'[k].stage = "checked") =>
                holder' = "me" /\ recorded' = 0 /\ ~AnyReturning(calls)
          BY <1>0, <2>1, <3>1, <4>2, <4>3
        <4>5. CreateOf(calls', tab, holder', recorded')
          BY <1>0, <4>1, <4>4, AnsweredCreates
        <4> QED
          BY <1>0, <4>5 DEF CreateInv
      <3> QED
        BY <1>3, <3>2, <3>3 DEF ServeCreate
    <2> QED
      BY <2>1, <2>2, <2>3
  <1> QED
    BY <1>1, <1>2, <1>3 DEF Serve

LEMMA LockCreates ==
  ASSUME TypeInv, CreateOf(calls, tab, holder, recorded), SubmitOf(calls, tab),
         (\E i \in DOMAIN calls : Decide(i)) \/ Expire \/ OtherTakes \/ OtherInspects
  PROVE  CreateInv'
  <1>0. /\ calls \in Seq(Call) /\ recorded \in Nat /\ recorded <= 1 /\ CallsOf(calls, tab)
    BY DEF TypeInv, TypeOK, CreateOf
  <1>1. ASSUME NEW i \in DOMAIN calls, Decide(i)
        PROVE  CreateInv'
    <2>1. calls' \in Seq(Call) /\ tab' = tab
      BY <1>1, ServerCalls DEF page
    <2>2. calls[i].kind = "create" /\ calls[i].stage = "checked"
      BY <1>0, <1>1 DEF Decide, CommitCreate, RejectCreate, CallsOf, CallOf
    <2>3. Ending(calls[i], tab) /\ calls[i].waits /\ recorded = 0
      BY <2>2 DEF CreateOf, Ending
    <2>4. \A k \in DOMAIN calls : calls[k].stage = "checked" => k = i
      BY <1>0, <2>3 DEF CallsOf, CallOf, CreateOf, SubmitOf
    <2>5. PICK stage \in {"ok", "refused"} : Answer(i, stage) /\ recorded' \in {0, 1}
      BY <1>0, <1>1, <2>3 DEF Decide, CommitCreate, RejectCreate, server
    <2>6. Answered(calls, calls', i, stage)
      BY <1>0, <2>3, <2>5, AnswerIs
    <2>7. \A k \in DOMAIN calls : calls'[k].stage # "checked"
      BY <2>4, <2>6 DEF Answered
    <2>8. recorded' <= 1
      BY <2>5
    <2>9. CreateOf(calls', tab, holder', recorded')
      BY <1>0, <2>1, <2>6, <2>7, <2>8, AnsweredCreates
    <2> QED
      BY <2>1, <2>9 DEF CreateInv
  <1>2. CASE Expire
    <2>1. calls' = calls /\ tab' = tab /\ recorded' = recorded
      BY <1>2 DEF Expire, page
    <2>2. CASE holder = "me"
      BY <1>2, <2>2 DEF Expire, Note, CreateInv, Excused, CreateTrouble
    <2>3. CASE holder # "me"
      BY <2>1, <2>3 DEF CreateInv, CreateOf
    <2> QED
      BY <2>2, <2>3
  <1>3. CASE OtherTakes \/ OtherInspects
    <2>1. calls' = calls /\ tab' = tab /\ holder # "me" /\ recorded' \in {0, 1}
      BY <1>3 DEF OtherTakes, OtherInspects, page
    <2>2. recorded' <= 1
      BY <2>1
    <2> QED
      BY <2>1, <2>2 DEF CreateInv, CreateOf
  <1> QED
    BY <1>1, <1>2, <1>3

LEMMA FormCreates ==
  ASSUME TypeInv, SubmitInv, CreateOf(calls, tab, holder, recorded), TypeInv',
         \/ \E i \in DOMAIN calls : Reserved(i) \/ Recorded(i) \/ Refused(i) \/ Released(i)
         \/ Open \/ Reserve \/ Leave
  PROVE  CreateInv'
  <1>0. /\ calls \in Seq(Call) /\ calls' \in Seq(Call) /\ CallsOf(calls, tab) /\ CallsOf(calls', tab')
        /\ SubmitOf(calls, tab) /\ recorded <= 1 /\ TabOf(tab) /\ tab \in Tab
    BY DEF TypeInv, TypeOK, SubmitInv, CreateOf
  <1>1. ASSUME NoCreate(calls'), recorded' = recorded
        PROVE  CreateInv'
    BY <1>0, <1>1, NoCreates DEF CreateInv
  <1>2. tab.stage # "ready" => NoCreate(calls)
    BY <1>0, NoneEnding, NotEnding
  <1>3. ASSUME NEW i \in DOMAIN calls, Reserved(i)
        PROVE  CreateInv'
    <2>1. Removed(calls, calls', i) /\ tab.stage = "reserving" /\ recorded' = recorded
      BY <1>3, ReservedTyped DEF Reserved, server
    <2> QED
      BY <1>1, <1>2, <2>1, RemovedRemains, RemainsNoCreate
  <1>4. ASSUME NEW i \in DOMAIN calls, Recorded(i) \/ Refused(i)
        PROVE  CreateInv'
    <2>1. calls[i].kind = "create" /\ Ending(calls[i], tab) /\ recorded' = recorded
      BY <1>4 DEF Recorded, Refused, CreateOf, server
    <2>2. \A k \in DOMAIN calls : calls[k].kind = "create" => k = i
      BY <1>0, <2>1 DEF CreateOf, SubmitOf
    <2>3. ASSUME NEW ds, Removed(calls, ds, i)
          PROVE  NoCreate(ds)
      BY <2>2, <2>3 DEF Removed, NoCreate
    <2>4. CASE Removed(calls, calls', i)
      BY <1>1, <2>1, <2>3, <2>4
    <2>5. CASE \E ds \in Seq(Call) : /\ Removed(calls, ds, i)
                                    /\ Added(ds, calls', Len(ds) + 1, "release", tab.visit, TRUE)
      <3>1. PICK ds \in Seq(Call) : /\ Removed(calls, ds, i)
                                    /\ Added(ds, calls', Len(ds) + 1, "release", tab.visit, TRUE)
        BY <2>5
      <3>2. NoCreate(ds)
        BY <2>3, <3>1
      <3>3. NoCreate(calls')
        <4> DEFINE n == Len(ds) + 1
        <4>1. Added(ds, calls', n, "release", tab.visit, TRUE)
          BY <3>1
        <4> HIDE DEF n
        <4> QED
          BY <3>2, <4>1 DEF Added, NoCreate
      <3> QED
        BY <1>1, <2>1, <3>3
    <2> QED
      BY <1>4, <2>4, <2>5, RecordedTyped, RefusedTyped
  <1>5. ASSUME NEW i \in DOMAIN calls, Released(i)
        PROVE  CreateInv'
    <2>1. /\ Removed(calls, calls', i) /\ calls[i].waits /\ calls[i].kind = "release"
          /\ UNCHANGED server /\ Navigate(calls[i].visit)
      BY <1>5, ReleasedTyped DEF Released
    <2>2. CASE Showing(calls[i].visit)
      <3>1. Ending(calls[i], tab)
        BY <2>1, <2>2 DEF Ending, Showing
      <3>2. NoCreate(calls)
        BY <1>0, <2>1, <3>1 DEF CreateOf, SubmitOf, NoCreate
      <3> QED
        BY <1>1, <2>1, <3>2, RemovedRemains, RemainsNoCreate DEF server
    <2>3. CASE ~Showing(calls[i].visit)
      <3>1. tab' = tab
        BY <1>0, <2>1, <2>3, NavigateIs
      <3>2. CreateOf(calls', tab, holder, recorded)
        BY <1>0, <2>1, RemovedCreates
      <3> QED
        BY <2>1, <3>1, <3>2 DEF CreateInv, server
    <2> QED
      BY <2>2, <2>3
  <1>6. CASE Open
    BY <1>1, <1>2, <1>6 DEF Open, server
  <1>7. CASE Reserve
    <2>0. tab.visit \in Visits /\ tab.stage # "ready" /\ recorded' = recorded
      BY <1>0, <1>7 DEF Reserve, TabOf, server
    <2>1. NoCreate(calls')
      <3> DEFINE n == Len(calls) + 1
      <3>1. Added(calls, calls', n, "acquire", tab.visit, TRUE)
        BY <1>0, <1>7, <2>0, AddedIs DEF Reserve, Send
      <3> HIDE DEF n
      <3> QED
        BY <1>2, <2>0, <3>1 DEF Added, NoCreate
    <2> QED
      BY <1>1, <2>0, <2>1
  <1>8. CASE Leave
    <2>0. recorded' = recorded /\ tab.stage # "away"
      BY <1>8 DEF Leave, server
    <2>1. CASE NoCreate(calls)
      <3>1. CASE calls' = calls \/ \E i \in DOMAIN calls : Remains(calls, calls', {i})
        BY <1>1, <2>0, <2>1, <3>1, RemainsNoCreate
      <3>2. CASE Added(calls, calls', Len(calls) + 1, "release", tab.visit, FALSE)
        <4> DEFINE n == Len(calls) + 1
        <4>1. Added(calls, calls', n, "release", tab.visit, FALSE)
          BY <3>2
        <4> HIDE DEF n
        <4>2. NoCreate(calls')
          BY <2>1, <4>1 DEF Added, NoCreate
        <4> QED
          BY <1>1, <2>0, <4>2
      <3> QED
        BY <1>8, <3>1, <3>2, LeaveTyped
    <2>2. CASE ~NoCreate(calls)
      <3>1. PICK i \in DOMAIN calls : calls[i].kind = "create"
        BY <2>2 DEF NoCreate
      <3>2. i \in Waiting("create", tab.visit)
        BY <3>1 DEF CreateOf, Ending, Waiting
      <3> QED
        BY <1>8, <3>2, LeftIs DEF Leave, CreateInv, Excused, CreateTrouble
    <2> QED
      BY <2>1, <2>2
  <1> QED
    BY <1>3, <1>4, <1>5, <1>6, <1>7, <1>8

LEMMA PressCreates ==
  ASSUME TypeInv, SubmitInv, CreateOf(calls, tab, holder, recorded), Press
  PROVE  CreateOf(calls, tab, holder, recorded)'
  <1> DEFINE n == Len(calls) + 1
  <1>1. /\ ~tab.submitting /\ tab.stage = "ready" /\ tab'.stage = "ready" /\ tab'.visit = tab.visit
        /\ Added(calls, calls', n, "create", tab.visit, TRUE) /\ UNCHANGED server
        /\ CallsOf(calls, tab) /\ SubmitOf(calls, tab)
    BY PressTyped DEF Press, TypeInv, SubmitInv
  <1> HIDE DEF n
  <1>2. \A k \in DOMAIN calls : ~Ending(calls[k], tab)
    BY <1>1 DEF SubmitOf
  <1>3. NoCreate(calls)
    BY <1>2, NotEnding
  <1>4. /\ \A k \in DOMAIN calls' : k = n \/ (k \in DOMAIN calls /\ k < n /\ calls'[k] = calls[k])
        /\ calls'[n].kind = "create" /\ calls'[n].stage = "sent" /\ Ending(calls'[n], tab')
    BY <1>1 DEF Added, Ending
  <1>5. \A k \in DOMAIN calls' : calls'[k].stage # "checked"
    BY <1>1, <1>3, <1>4 DEF CallsOf, CallOf, NoCreate
  <1>6. \A k \in DOMAIN calls' : calls'[k].kind = "create" => k = n
    BY <1>3, <1>4 DEF NoCreate
  <1>7. \A k, l \in DOMAIN calls' : calls'[k].kind = "create" /\ calls'[l].kind = "release" => l < k
    BY <1>4, <1>6
  <1>8. recorded' <= 1
    BY <1>1 DEF CreateOf, server
  <1> QED
    BY <1>4, <1>5, <1>6, <1>7, <1>8 DEF CreateOf

LEMMA CreateStep ==
  ASSUME TypeInv, SubmitInv, CreateInv, [Next]_vars
  PROVE  CreateInv'
  <1>0. events \subseteq events' /\ TypeInv'
    BY EventsKept, TypeStep
  <1>1. CASE Excused(CreateTrouble)
    BY <1>0, <1>1, ExcusedKept DEF CreateInv, CreateTrouble
  <1>2. CASE CreateOf(calls, tab, holder, recorded)
    <2>0. SubmitOf(calls, tab)
      BY DEF SubmitInv
    <2>1. CASE QuietNext
      <3>1. CreateOf(calls, tab', holder, recorded)
        BY <1>2, <2>1, QuietIs DEF CreateOf, Ending
      <3> QED
        BY <2>1, <3>1, QuietIs DEF CreateInv, server
    <2>2. CASE \E i \in DOMAIN calls : Serve(i) \/ Decide(i)
      BY <1>2, <2>0, <2>2, ServeCreates, LockCreates
    <2>3. CASE \/ \E i \in DOMAIN calls : Fail(i)
               \/ Close
      BY <2>3, CloseTyped DEF Fail, LoseCall, ReserveFails, PostFails, ReleaseFails, Note,
                              CreateInv, Excused, CreateTrouble
    <2>4. CASE Expire \/ OtherTakes \/ OtherInspects
      BY <1>2, <2>0, <2>4, LockCreates
    <2>5. CASE \/ \E i \in DOMAIN calls : Settle(i)
               \/ Open \/ Reserve \/ Leave
      BY <1>0, <1>2, <2>5, FormCreates DEF Settle
    <2>6. CASE Press
      BY <1>2, <2>6, PressCreates DEF CreateInv
    <2> QED
      BY <2>1, <2>2, <2>3, <2>4, <2>5, <2>6 DEF Next, QuietNext
  <1> QED
    BY <1>1, <1>2 DEF CreateInv

LEMMA CreateAlways == Spec => []CreateInv
  <1>1. Init => CreateInv
    BY DEF Init, CreateInv, CreateOf
  <1> QED
    BY <1>1, TypeAlways, SubmitAlways, CreateStep, PTL DEF Spec

\* However often submit is pressed and whatever the other operator does, the unit
\* is inspected once, unless one of the events that OneInspection names has happened.
THEOREM OneInspectionPerUnit == Spec => []OneInspection
  <1>1. CreateInv => OneInspection
    BY DEF CreateInv, CreateOf, CreateTrouble, OneInspection
  <1> QED
    BY <1>1, CreateAlways, PTL
=============================================================================
