----------------------- MODULE InspectionReviewProofs -----------------------
(***************************************************************************)
(* Proofs about InspectionReview, for every set of inspections, leads and  *)
(* runs of the job and for every bound.                                    *)
(***************************************************************************)
EXTENDS InspectionReview, FiniteSetTheorems, SequenceTheorems, TLAPS

\* A run approves a row at a time: what it has staged is finite.
TypeInv == TypeOK /\ \A j \in Jobs : IsFiniteSet(job[j].staged)

-----------------------------------------------------------------------------
(* Types *)

\* What a run of the job holds.
LEMMA JobFields ==
  ASSUME TypeOK, NEW j \in Jobs
  PROVE  /\ job[j] \in JobState
         /\ job[j].pc \in {"idle", "next", "wait", "log"}
         /\ job[j].cands \subseteq Inspections
         /\ job[j].held \subseteq Inspections
         /\ job[j].staged \subseteq Inspections \X Statuses
         /\ job[j].rows \in Nat
  BY DEF TypeOK, JobState

LEMMA IdleJobTyped == IdleJob \in JobState /\ IsFiniteSet(IdleJob.staged)
  BY FS_EmptySet DEF IdleJob, JobState

\* A run goes over to another state.
Turns(j, q) == job' = [job EXCEPT ![j] = q]

\* A run in another state, with finitely many rows staged, keeps the invariant.
LEMMA JobTyped ==
  ASSUME TypeInv, NEW j \in Jobs, NEW q \in JobState, IsFiniteSet(q.staged),
         Turns(j, q),
         queue' \in [Inspections -> Seq(Jobs)],
         row' \in [Inspections -> Row], events' \in [Inspections -> Seq(Event)],
         logged' \in Nat, decided' \in Nat, faults' \in Nat
  PROVE  TypeInv'
  <1>1. job' \in [Jobs -> JobState] /\ \A k \in Jobs : job'[k] = IF k = j THEN q ELSE job[k]
    BY DEF Turns, TypeInv, TypeOK
  <1> QED
    BY <1>1 DEF TypeInv, TypeOK

\* A run that has locked another row.
LEMMA TakenTyped ==
  ASSUME TypeInv, NEW j \in Jobs, NEW i \in Inspections
  PROVE  /\ Taken(j, i) \in JobState
         /\ Taken(j, i).pc = "next" /\ Taken(j, i).rows = job[j].rows
         /\ Taken(j, i).cands = job[j].cands \ {i}
         /\ Taken(j, i).held = job[j].held \cup {i}
         /\ Taken(j, i).staged = IF StillDue(i)
                                 THEN job[j].staged \cup {<<i, row[i].status>>}
                                 ELSE job[j].staged
         /\ IsFiniteSet(Taken(j, i).staged)
  <1>1. job[j] \in JobState /\ row[i].status \in Statuses
    BY JobFields DEF TypeInv, TypeOK, Row
  <1> DEFINE s == IF StillDue(i) THEN job[j].staged \cup {<<i, row[i].status>>}
                  ELSE job[j].staged
  <1>2. s \in SUBSET (Inspections \X Statuses)
    BY <1>1, JobFields DEF TypeInv
  <1>3. IsFiniteSet(s)
    BY FS_AddElement DEF TypeInv
  <1>4. Taken(j, i) = [job[j] EXCEPT !.pc = "next", !.cands = @ \ {i},
                                     !.held = @ \cup {i}, !.staged = s]
    BY DEF Taken
  <1> HIDE DEF s
  <1> DEFINE h == job[j].held \cup {i}
             c == job[j].cands \ {i}
  <1>5. h \in SUBSET Inspections /\ c \in SUBSET Inspections
    BY JobFields DEF TypeInv
  <1>6. Taken(j, i) = [job[j] EXCEPT !.pc = "next", !.cands = c, !.held = h, !.staged = s]
    BY <1>4
  <1> HIDE DEF h, c
  <1>7. /\ Taken(j, i).pc = "next" /\ Taken(j, i).rows = job[j].rows
        /\ Taken(j, i).cands = c /\ Taken(j, i).held = h /\ Taken(j, i).staged = s
        /\ Taken(j, i) \in JobState
    BY <1>1, <1>2, <1>5, <1>6 DEF JobState
  <1> QED
    BY <1>3, <1>7 DEF s, h, c

\* What a decision makes of a row.
LEMMA DecidedTyped ==
  ASSUME NEW r \in Row, NEW l \in Leads, NEW s \in Statuses, NEW c \in BOOLEAN
  PROVE  /\ Decided(r, l, s, c) \in Row
         /\ Decided(r, l, s, c).status = s /\ Decided(r, l, s, c).reviewer = l
         /\ Decided(r, l, s, c).is_under_review <=> s \in PENDING_REVIEW_STATUSES
         /\ Decided(r, l, s, c).reviewed <=> s \in FinalStatuses
  <1> DEFINE k == IF c THEN "lead" ELSE r.comment
             u == s \in PENDING_REVIEW_STATUSES
             f == s \in FinalStatuses
  <1>1. k \in {"none", "lead", "job"} /\ u \in BOOLEAN /\ f \in BOOLEAN
    BY DEF Row
  <1>2. Decided(r, l, s, c) =
          [r EXCEPT !.status = s, !.reviewer = l, !.comment = k,
                    !.is_under_review = u, !.reviewed = f]
    BY DEF Decided
  <1> HIDE DEF k, u, f
  <1>3. /\ Decided(r, l, s, c) \in Row
        /\ Decided(r, l, s, c).status = s /\ Decided(r, l, s, c).reviewer = l
        /\ Decided(r, l, s, c).is_under_review = u /\ Decided(r, l, s, c).reviewed = f
    BY <1>1, <1>2 DEF Row
  <1> QED
    BY <1>3 DEF u, f

\* The rows and the events after a commit of the job.
LEMMA CommitTyped ==
  ASSUME TypeInv, NEW j \in Jobs, JobCommit(j)
  PROVE  /\ row' \in [Inspections -> Row]
         /\ events' \in [Inspections -> Seq(Event)]
         /\ \A i \in Inspections : EventsOf(j, i) \in Seq(Event)
  <1>1. row' \in [Inspections -> Row]
    <2>1. ASSUME NEW i \in Inspections PROVE AutoApproved(row[i]) \in Row
      BY DEF TypeInv, TypeOK, Row, AutoApproved, Statuses, FinalStatuses
    <2> QED
      BY <2>1 DEF JobCommit, TypeInv, TypeOK
  <1>2. ASSUME NEW i \in Inspections PROVE EventsOf(j, i) \in Seq(Event)
    <2>1. CASE i \in Staged(j)
      <3>1. \E s \in Statuses : <<i, s>> \in job[j].staged
        <4>1. PICK s \in job[j].staged : i = s[1]
          BY <2>1 DEF Staged
        <4>2. s \in Inspections \X Statuses
          BY JobFields DEF TypeInv
        <4> QED
          BY <4>1, <4>2
      <3> DEFINE from == CHOOSE s \in Statuses : <<i, s>> \in job[j].staged
      <3>2. from \in Statuses
        BY <3>1
      <3> HIDE DEF from
      <3>3. [from |-> from, to |-> "APPROVED", actor |-> JobActor] \in Event
        BY <3>2 DEF Event, Statuses, FinalStatuses
      <3> QED
        BY <2>1, <3>3 DEF EventsOf, from
    <2> QED
      BY <2>1 DEF EventsOf
  <1>3. events' \in [Inspections -> Seq(Event)]
    BY <1>2 DEF JobCommit, TypeInv, TypeOK
  <1> QED
    BY <1>1, <1>2, <1>3

\* Whoever leaves a queue, those who wait in it stay.
LEMMA QueuesWithout ==
  ASSUME TypeInv, NEW j \in Jobs, GivesUp(j)
  PROVE  queue' \in [Inspections -> Seq(Jobs)]
  <1>1. ASSUME NEW i \in Inspections, i \in Waiting(j)
        PROVE  RemoveAt(queue[i], Place(j, i)) \in Seq(Jobs)
    <2>1. queue[i] \in Seq(Jobs)
      BY DEF TypeInv, TypeOK
    <2>2. \E n \in DOMAIN queue[i] : queue[i][n] = j
      BY <1>1 DEF Waiting, Range
    <2>3. Place(j, i) \in DOMAIN queue[i]
      BY <2>2 DEF Place
    <2> QED
      BY <2>1, <2>3 DEF RemoveAt
  <1> QED
    BY <1>1 DEF GivesUp, TypeInv, TypeOK

LEMMA TypeInit == Init => TypeInv
  BY IdleJobTyped DEF Init, TypeInv, TypeOK, Row, Statuses, PENDING_REVIEW_STATUSES

LEMMA TypeStep == TypeInv /\ [Next]_vars => TypeInv'
  <1> SUFFICES ASSUME TypeInv, [Next]_vars PROVE TypeInv'
    OBVIOUS
  <1>0. /\ row \in [Inspections -> Row] /\ events \in [Inspections -> Seq(Event)]
        /\ queue \in [Inspections -> Seq(Jobs)] /\ job \in [Jobs -> JobState]
        /\ logged \in Nat /\ decided \in Nat /\ faults \in Nat /\ TypeOK
        /\ \A j \in Jobs : IsFiniteSet(job[j].staged)
    BY DEF TypeInv, TypeOK
  <1>1. ASSUME NEW l \in Leads, NEW i \in Inspections, NEW s \in Statuses,
               NEW c \in BOOLEAN, LeadDecides(l, i, s, c)
        PROVE  TypeInv'
    <2>1. Decided(row[i], l, s, c) \in Row
      BY <1>0, DecidedTyped
    <2>2. row' \in [Inspections -> Row]
      BY <1>0, <1>1, <2>1 DEF LeadDecides
    <2>3. [from |-> row[i].status, to |-> s, actor |-> l] \in Event
      BY <1>0 DEF Row, Event
    <2>4. events' \in [Inspections -> Seq(Event)]
      BY <1>0, <1>1, <2>3 DEF LeadDecides
    <2> QED
      BY <1>0, <1>1, <2>2, <2>4 DEF LeadDecides, TypeInv, TypeOK
  <1>2. ASSUME NEW i \in Inspections, Deactivate(i) \/ GrowOld(i)
        PROVE  TypeInv'
    <2>1. /\ [row[i] EXCEPT !.active = FALSE] \in Row
          /\ [row[i] EXCEPT !.aged = TRUE] \in Row
      BY <1>0 DEF Row
    <2>2. \/ row' = [row EXCEPT ![i] = [row[i] EXCEPT !.active = FALSE]]
          \/ row' = [row EXCEPT ![i] = [row[i] EXCEPT !.aged = TRUE]]
      BY <1>2 DEF Deactivate, GrowOld
    <2>3. row' \in [Inspections -> Row]
      BY <1>0, <2>1, <2>2
    <2> QED
      BY <1>0, <1>2, <2>3 DEF Deactivate, GrowOld, TypeInv, TypeOK
  <1>3. ASSUME NEW j \in Jobs, JobSelect(j)
        PROVE  TypeInv'
    <2> DEFINE cands == {i \in Inspections : row[i].active /\ row[i].aged /\ Open(i)}
               q == [job[j] EXCEPT !.pc = "next", !.cands = cands]
    <2>1. q \in JobState /\ q.staged = job[j].staged
      BY <1>0, JobFields DEF JobState
    <2>2. Turns(j, q)
      BY <1>3 DEF JobSelect, Turns
    <2> HIDE DEF q
    <2> QED
      BY <1>0, <1>3, <2>1, <2>2, JobTyped DEF JobSelect
  <1>4. ASSUME NEW j \in Jobs, JobLock(j) \/ JobGranted(j)
        PROVE  TypeInv'
    <2>1. PICK i \in Inspections :
            /\ Turns(j, Taken(j, i))
            /\ \/ UNCHANGED queue
               \/ /\ i \in Waiting(j) /\ queue' = [queue EXCEPT ![i] = Tail(@)]
      BY <1>0, <1>4, JobFields DEF JobLock, JobGranted, Waiting, TakesRow, Turns
    <2>2. queue' \in [Inspections -> Seq(Jobs)]
      <3>1. CASE i \in Waiting(j) /\ queue' = [queue EXCEPT ![i] = Tail(@)]
        <4>1. queue[i] \in Seq(Jobs) /\ queue[i] # <<>>
          BY <1>0, <3>1 DEF Waiting, Range
        <4>2. Tail(queue[i]) \in Seq(Jobs)
          BY <4>1
        <4> QED
          BY <1>0, <3>1, <4>2
      <3> QED
        BY <1>0, <2>1, <3>1
    <2> QED
      BY <1>0, <1>4, <2>1, <2>2, TakenTyped, JobTyped DEF JobLock, JobGranted
  <1>5. ASSUME NEW j \in Jobs, JobWait(j)
        PROVE  TypeInv'
    <2> DEFINE q == [job[j] EXCEPT !.pc = "wait"]
    <2>1. q \in JobState /\ q.staged = job[j].staged
      BY <1>0, JobFields DEF JobState
    <2>2. Turns(j, q)
      BY <1>5 DEF JobWait, Turns
    <2>3. queue' \in [Inspections -> Seq(Jobs)]
      <3>1. \A i \in Inspections : Append(queue[i], j) \in Seq(Jobs)
        BY <1>0
      <3>2. PICK i \in job[j].cands : queue' = [queue EXCEPT ![i] = Append(queue[i], j)]
        BY <1>5 DEF JobWait
      <3> QED
        BY <1>0, <3>1, <3>2, JobFields
    <2> HIDE DEF q
    <2> QED
      BY <1>0, <1>5, <2>1, <2>2, <2>3, JobTyped DEF JobWait
  <1>6. ASSUME NEW j \in Jobs, JobCommit(j)
        PROVE  TypeInv'
    <2> DEFINE q == [IdleJob EXCEPT !.pc = "log", !.rows = Cardinality(job[j].staged)]
    <2>1. Cardinality(job[j].staged) \in Nat
      BY <1>0, FS_CardinalityType
    <2>2. q \in JobState /\ q.staged = {}
      BY <2>1 DEF IdleJob, JobState
    <2>3. Turns(j, q)
      BY <1>6 DEF JobCommit, Turns
    <2> HIDE DEF q
    <2> QED
      BY <1>0, <1>6, <2>2, <2>3, CommitTyped, JobTyped, FS_EmptySet DEF JobCommit
  <1>7. ASSUME NEW j \in Jobs, JobLog(j)
        PROVE  TypeInv'
    <2>1. Turns(j, IdleJob)
      BY <1>7 DEF JobLog, Turns
    <2>2. logged' \in Nat
      BY <1>0, <1>7, JobFields DEF JobLog
    <2> QED
      BY <1>0, <1>7, <2>1, <2>2, IdleJobTyped, JobTyped DEF JobLog
  <1>8. ASSUME NEW j \in Jobs, JobDeadlocked(j) \/ JobFails(j)
        PROVE  TypeInv'
    <2>1. GivesUp(j)
      BY <1>8 DEF JobDeadlocked, JobFails
    <2>2. Turns(j, IdleJob)
      BY <2>1 DEF GivesUp, Turns
    <2>3. queue' \in [Inspections -> Seq(Jobs)]
      BY <2>1, QueuesWithout
    <2>4. UNCHANGED <<row, events, logged, decided>> /\ faults' \in Nat
      BY <1>0, <1>8 DEF JobDeadlocked, JobFails
    <2> QED
      BY <1>0, <2>2, <2>3, <2>4, IdleJobTyped, JobTyped
  <1>9. CASE UNCHANGED vars
    BY <1>9 DEF vars, TypeInv, TypeOK
  <1> QED
    BY <1>1, <1>2, <1>3, <1>4, <1>5, <1>6, <1>7, <1>8, <1>9 DEF Next, JobStep

LEMMA TypeInvariant == Spec => []TypeInv
  BY TypeInit, TypeStep, PTL DEF Spec

\* The columns stay within their enums, and each run of the job is in its place.
THEOREM TypeCorrect == Spec => []TypeOK
  <1>1. TypeInv => TypeOK
    BY DEF TypeInv
  <1> QED
    BY <1>1, TypeInvariant, PTL

-----------------------------------------------------------------------------
(* Row locks *)

\* The row a run has approved, and not committed, stands as it read it, because
\* the run holds its lock, and no other does.
OneHolder ==
  \A j, k \in Jobs : \A i \in Inspections :
    (i \in job[j].held /\ i \in job[k].held) => j = k

StagedStand ==
  \A j \in Jobs : \A s \in job[j].staged :
    /\ s[1] \in job[j].held
    /\ s[2] = row[s[1]].status
    /\ s[2] \in PENDING_REVIEW_STATUSES

\* A run between transactions has nothing locked, and only one that is to write
\* its log knows how many rows it committed.
EmptyOutside ==
  \A j \in Jobs :
    /\ job[j].pc \in {"idle", "log"} => job[j].held = {} /\ job[j].staged = {}
    /\ job[j].pc # "log" => job[j].rows = 0

LockInv == OneHolder /\ StagedStand /\ EmptyOutside

\* One run changes its state, and nobody else the status of a row.
LEMMA RunKeepsLocks ==
  ASSUME TypeInv, LockInv, NEW j \in Jobs, NEW q, Turns(j, q),
         \A i \in Inspections : row'[i].status = row[i].status,
         \A i \in q.held : \A k \in Jobs \ {j} : i \notin job[k].held,
         q.held \subseteq Inspections,
         \A s \in q.staged : /\ s[1] \in q.held /\ s[2] = row[s[1]].status
                             /\ s[2] \in PENDING_REVIEW_STATUSES,
         q.pc \in {"idle", "log"} => q.held = {} /\ q.staged = {},
         q.pc # "log" => q.rows = 0
  PROVE  LockInv'
  <1>1. \A k \in Jobs : job'[k] = IF k = j THEN q ELSE job[k]
    BY DEF Turns, TypeInv, TypeOK
  <1>2. OneHolder'
    BY <1>1 DEF LockInv, OneHolder
  <1>3. StagedStand'
    <2> SUFFICES ASSUME NEW k \in Jobs, NEW s \in job'[k].staged
                 PROVE  (/\ s[1] \in job[k].held
                         /\ s[2] = row[s[1]].status
                         /\ s[2] \in PENDING_REVIEW_STATUSES)'
      BY DEF StagedStand
    <2>1. /\ s[1] \in job'[k].held /\ s[2] = row[s[1]].status
          /\ s[2] \in PENDING_REVIEW_STATUSES
      BY <1>1 DEF LockInv, StagedStand
    <2>2. s[1] \in Inspections
      BY <1>1, <2>1, JobFields DEF TypeInv
    <2> QED
      BY <2>1, <2>2
  <1>4. EmptyOutside'
    BY <1>1 DEF LockInv, EmptyOutside
  <1> QED
    BY <1>2, <1>3, <1>4 DEF LockInv

\* A row nobody has locked may change: what is staged stays as it is.
LEMMA FreeRowMoves ==
  ASSUME TypeInv, LockInv, NEW i \in Inspections, Free(i), UNCHANGED job,
         \A k \in Inspections \ {i} : row'[k].status = row[k].status
  PROVE  LockInv'
  <1>1. StagedStand'
    <2> SUFFICES ASSUME NEW j \in Jobs, NEW s \in job[j].staged
                 PROVE  s[2] = row'[s[1]].status
      BY DEF LockInv, StagedStand
    <2>1. s[1] \in job[j].held /\ s[2] = row[s[1]].status
      BY DEF LockInv, StagedStand
    <2>2. s[1] \in Inspections /\ s[1] # i
      BY <2>1, JobFields DEF TypeInv, Free, Locked
    <2> QED
      BY <2>1, <2>2
  <1> QED
    BY <1>1 DEF LockInv, OneHolder, EmptyOutside

\* A run takes a row nobody holds.
LEMMA TakingKeepsLocks ==
  ASSUME TypeInv, LockInv, NEW j \in Jobs, NEW i \in Inspections,
         TakesRow(j, i), ~Locked(i), job[j].pc # "log", UNCHANGED row
  PROVE  LockInv'
  <1> DEFINE q == Taken(j, i)
  <1>1. /\ q \in JobState /\ q.pc = "next" /\ q.rows = job[j].rows
        /\ q.held = job[j].held \cup {i}
        /\ q.staged = IF StillDue(i) THEN job[j].staged \cup {<<i, row[i].status>>}
                      ELSE job[j].staged
    BY TakenTyped
  <1>2. Turns(j, q)
    BY DEF TakesRow, Turns
  <1> HIDE DEF q
  <1>3. q.held \subseteq Inspections
    BY <1>1 DEF JobState
  <1>4. \A h \in q.held : \A k \in Jobs \ {j} : h \notin job[k].held
    BY <1>1, <1>3 DEF LockInv, OneHolder, Locked
  <1>5. ASSUME NEW s \in q.staged
        PROVE  /\ s[1] \in q.held /\ s[2] = row[s[1]].status
               /\ s[2] \in PENDING_REVIEW_STATUSES
    BY <1>1, <1>5 DEF LockInv, StagedStand, StillDue, Open
  <1>6. q.pc \notin {"idle", "log"} /\ q.rows = 0
    BY <1>1 DEF LockInv, EmptyOutside
  <1> QED
    BY <1>2, <1>3, <1>4, <1>5, <1>6, RunKeepsLocks

LEMMA IdleKeepsLocks ==
  ASSUME TypeInv, LockInv, NEW j \in Jobs, Turns(j, IdleJob), UNCHANGED row
  PROVE  LockInv'
  <1>1. /\ IdleJob.held = {} /\ IdleJob.staged = {} /\ IdleJob.rows = 0
    BY DEF IdleJob
  <1> QED
    BY <1>1, RunKeepsLocks

LEMMA LockStep == TypeInv /\ LockInv /\ [Next]_vars => LockInv'
  <1> SUFFICES ASSUME TypeInv, LockInv, [Next]_vars PROVE LockInv'
    OBVIOUS
  <1>0. row \in [Inspections -> Row] /\ TypeOK
    BY DEF TypeInv, TypeOK
  <1>1. ASSUME NEW l \in Leads, NEW i \in Inspections, NEW s \in Statuses,
               NEW c \in BOOLEAN, LeadDecides(l, i, s, c)
        PROVE  LockInv'
    BY <1>0, <1>1, FreeRowMoves DEF LeadDecides
  <1>2. ASSUME NEW i \in Inspections, Deactivate(i)
        PROVE  LockInv'
    BY <1>0, <1>2, FreeRowMoves DEF Deactivate
  <1>3. ASSUME NEW i \in Inspections, GrowOld(i)
        PROVE  LockInv'
    <2>1. UNCHANGED job /\ \A k \in Inspections : row'[k].status = row[k].status
      BY <1>0, <1>3 DEF GrowOld, Row
    <2>2. StagedStand'
      <3> SUFFICES ASSUME NEW j \in Jobs, NEW s \in job[j].staged
                   PROVE  s[2] = row'[s[1]].status
        BY <2>1 DEF LockInv, StagedStand
      <3>1. s[1] \in Inspections
        BY <1>0, JobFields DEF LockInv, StagedStand
      <3> QED
        BY <2>1, <3>1 DEF LockInv, StagedStand
    <2> QED
      BY <2>1, <2>2 DEF LockInv, OneHolder, EmptyOutside
  <1>4. ASSUME NEW j \in Jobs, JobSelect(j)
        PROVE  LockInv'
    <2> DEFINE cands == {i \in Inspections : row[i].active /\ row[i].aged /\ Open(i)}
               q == [job[j] EXCEPT !.pc = "next", !.cands = cands]
    <2>1. /\ q.pc = "next" /\ q.held = job[j].held /\ q.staged = job[j].staged
          /\ q.rows = job[j].rows
      BY <1>0, JobFields DEF JobState
    <2>2. Turns(j, q) /\ UNCHANGED row /\ job[j].pc = "idle"
      BY <1>4 DEF JobSelect, Turns
    <2> HIDE DEF q
    <2>3. q.held = {} /\ q.staged = {} /\ q.rows = 0
      BY <2>1, <2>2 DEF LockInv, EmptyOutside
    <2> QED
      BY <2>1, <2>2, <2>3, RunKeepsLocks
  <1>5. ASSUME NEW j \in Jobs, JobLock(j) \/ JobGranted(j)
        PROVE  LockInv'
    <2>1. PICK i \in Inspections : TakesRow(j, i) /\ ~Locked(i)
      BY <1>0, <1>5, JobFields DEF JobLock, JobGranted, Waiting, Free
    <2>2. job[j].pc # "log" /\ UNCHANGED row
      BY <1>5 DEF JobLock, JobGranted
    <2> QED
      BY <2>1, <2>2, TakingKeepsLocks
  <1>6. ASSUME NEW j \in Jobs, JobWait(j)
        PROVE  LockInv'
    <2> DEFINE q == [job[j] EXCEPT !.pc = "wait"]
    <2>1. /\ q.pc = "wait" /\ q.held = job[j].held /\ q.staged = job[j].staged
          /\ q.rows = job[j].rows
      BY <1>0, JobFields DEF JobState
    <2>2. Turns(j, q) /\ UNCHANGED row /\ job[j].pc = "next"
      BY <1>6 DEF JobWait, Turns
    <2> HIDE DEF q
    <2>3. q.rows = 0
      BY <2>1, <2>2 DEF LockInv, EmptyOutside
    <2>4. \A i \in q.held : \A k \in Jobs \ {j} : i \notin job[k].held
      BY <2>1, <1>0, JobFields DEF LockInv, OneHolder
    <2>5. \A s \in q.staged : /\ s[1] \in q.held /\ s[2] = row[s[1]].status
                              /\ s[2] \in PENDING_REVIEW_STATUSES
      BY <2>1 DEF LockInv, StagedStand
    <2>6. q.held \subseteq Inspections
      BY <1>0, <2>1, JobFields
    <2> QED
      BY <2>1, <2>2, <2>3, <2>4, <2>5, <2>6, RunKeepsLocks
  <1>7. ASSUME NEW j \in Jobs, JobCommit(j)
        PROVE  LockInv'
    <2> DEFINE q == [IdleJob EXCEPT !.pc = "log", !.rows = Cardinality(job[j].staged)]
    <2>1. q.pc = "log" /\ q.held = {} /\ q.staged = {}
      BY DEF IdleJob
    <2>2. \A k \in Jobs : job'[k] = IF k = j THEN q ELSE job[k]
      BY <1>0, <1>7 DEF JobCommit, TypeOK
    <2> HIDE DEF q
    <2>3. OneHolder'
      BY <2>1, <2>2 DEF LockInv, OneHolder
    <2>4. EmptyOutside'
      BY <2>1, <2>2 DEF LockInv, EmptyOutside
    <2>5. StagedStand'
      <3> SUFFICES ASSUME NEW k \in Jobs, k # j, NEW s \in job[k].staged
                   PROVE  row'[s[1]] = row[s[1]]
        BY <2>1, <2>2 DEF LockInv, StagedStand
      <3>1. s[1] \in job[k].held /\ s[1] \in Inspections
        BY <1>0, JobFields DEF LockInv, StagedStand
      <3>2. s[1] \notin Staged(j)
        BY <3>1 DEF LockInv, StagedStand, OneHolder, Staged
      <3> QED
        BY <1>7, <3>1, <3>2 DEF JobCommit
    <2> QED
      BY <2>3, <2>4, <2>5 DEF LockInv
  <1>8. ASSUME NEW j \in Jobs, JobLog(j) \/ JobDeadlocked(j) \/ JobFails(j)
        PROVE  LockInv'
    <2>1. Turns(j, IdleJob) /\ UNCHANGED row
      BY <1>8 DEF JobLog, JobDeadlocked, JobFails, GivesUp, Turns
    <2> QED
      BY <2>1, IdleKeepsLocks
  <1>9. CASE UNCHANGED vars
    BY <1>9 DEF vars, LockInv, OneHolder, StagedStand, EmptyOutside
  <1> QED
    BY <1>1, <1>2, <1>3, <1>4, <1>5, <1>6, <1>7, <1>8, <1>9 DEF Next, JobStep

LEMMA LockInit == Init => LockInv
  BY DEF Init, IdleJob, LockInv, OneHolder, StagedStand, EmptyOutside

LEMMA LockInvariant == Spec => [](TypeInv /\ LockInv)
  BY TypeInit, TypeStep, LockInit, LockStep, PTL DEF Spec

-----------------------------------------------------------------------------
(* The history of an inspection *)

\* The part of HistoryExplainsRow about one inspection.
History(i) ==
  LET h == events[i] IN
  /\ \A n \in 1..Len(h) : h[n].from = IF n = 1 THEN "IN_REVIEW" ELSE h[n - 1].to
  /\ row[i].status = IF h = <<>> THEN "IN_REVIEW" ELSE h[Len(h)].to
  /\ row[i].reviewer = IF h = <<>> THEN Nobody ELSE h[Len(h)].actor
  /\ row[i].is_under_review <=> Open(i)
  /\ row[i].reviewed <=> ~Open(i)

LEMMA HistoryByInspection == HistoryExplainsRow <=> \A i \in Inspections : History(i)
  BY DEF HistoryExplainsRow, History

\* An event that starts from the standing status explains the row it leads to.
LEMMA EventExplains ==
  ASSUME TypeInv, NEW i \in Inspections, History(i), NEW e \in Event,
         e.from = row[i].status, events'[i] = Append(events[i], e),
         row'[i].status = e.to, row'[i].reviewer = e.actor,
         row'[i].is_under_review <=> e.to \in PENDING_REVIEW_STATUSES,
         row'[i].reviewed <=> e.to \notin PENDING_REVIEW_STATUSES
  PROVE  History(i)'
  <1> DEFINE h == events[i]
             g == events'[i]
  <1>1. h \in Seq(Event)
    BY DEF TypeInv, TypeOK
  <1>2. /\ Len(h) \in Nat /\ Len(g) = Len(h) + 1 /\ g # <<>> /\ g[Len(g)] = e
        /\ \A n \in 1..Len(h) : g[n] = h[n]
        /\ h = <<>> <=> Len(h) = 0
    BY <1>1
  <1>3. ASSUME NEW n \in 1..Len(g)
        PROVE  g[n].from = IF n = 1 THEN "IN_REVIEW" ELSE g[n - 1].to
    <2>1. CASE n \in 1..Len(h)
      <3>1. n = 1 \/ n - 1 \in 1..Len(h)
        BY <1>2, <2>1
      <3> QED
        BY <1>2, <2>1, <3>1 DEF History
    <2>2. CASE n = Len(h) + 1
      <3>1. g[n].from = row[i].status
        BY <1>2, <2>2
      <3>2. CASE Len(h) = 0
        BY <1>2, <2>2, <3>1, <3>2 DEF History
      <3>3. CASE Len(h) # 0
        <4>1. g[n - 1] = h[Len(h)] /\ n # 1
          BY <1>2, <2>2, <3>3
        <4> QED
          BY <1>2, <3>1, <3>3, <4>1 DEF History
      <3> QED
        BY <3>2, <3>3
    <2> QED
      BY <1>2, <2>1, <2>2
  <1> HIDE DEF h
  <1>4. /\ row'[i].status = g[Len(g)].to /\ row'[i].reviewer = g[Len(g)].actor
    BY <1>2
  <1>5. Open(i)' <=> e.to \in PENDING_REVIEW_STATUSES
    BY DEF Open
  <1> QED
    BY <1>2, <1>3, <1>4, <1>5 DEF History

LEMMA AutoApprovedFields ==
  ASSUME NEW r \in Row
  PROVE  /\ AutoApproved(r).status = "APPROVED" /\ AutoApproved(r).reviewer = JobActor
         /\ ~AutoApproved(r).is_under_review /\ AutoApproved(r).reviewed
  BY DEF AutoApproved, Row

\* What a commit of the job adds: to the rows it has staged an event each, which
\* starts from the status that stands, and to no other.
LEMMA CommitAppends ==
  ASSUME TypeInv, LockInv, NEW j \in Jobs, JobCommit(j), NEW i \in Inspections
  PROVE  /\ i \in Staged(j) =>
              /\ row[i].status \in PENDING_REVIEW_STATUSES
              /\ row'[i] = AutoApproved(row[i])
              /\ events'[i] = Append(events[i],
                   [from |-> row[i].status, to |-> "APPROVED", actor |-> JobActor])
         /\ i \notin Staged(j) => row'[i] = row[i] /\ events'[i] = events[i]
  <1>0. events[i] \in Seq(Event) /\ row[i] \in Row
    BY DEF TypeInv, TypeOK
  <1>1. events'[i] = events[i] \o EventsOf(j, i)
    BY DEF JobCommit, TypeInv, TypeOK
  <1>2. row'[i] = IF i \in Staged(j) THEN AutoApproved(row[i]) ELSE row[i]
    BY DEF JobCommit
  <1>3. CASE i \in Staged(j)
    <2> DEFINE from == CHOOSE s \in Statuses : <<i, s>> \in job[j].staged
    <2>1. PICK s \in Statuses : <<i, s>> \in job[j].staged
      <3>1. PICK t \in job[j].staged : i = t[1]
        BY <1>3 DEF Staged
      <3>2. t \in Inspections \X Statuses
        BY JobFields DEF TypeInv
      <3> QED
        BY <3>1, <3>2
    <2>2. from \in Statuses /\ <<i, from>> \in job[j].staged
      BY <2>1
    <2> HIDE DEF from
    <2>3. from = row[i].status /\ from \in PENDING_REVIEW_STATUSES
      BY <2>2 DEF LockInv, StagedStand
    <2> DEFINE e == [from |-> from, to |-> "APPROVED", actor |-> JobActor]
    <2>4. EventsOf(j, i) = <<e>>
      BY <1>3 DEF EventsOf, from
    <2>5. e \in Event
      BY <2>2 DEF Event, Statuses, FinalStatuses
    <2> HIDE DEF e
    <2>6. events[i] \o <<e>> = Append(events[i], e)
      BY <1>0, <2>5
    <2> QED
      BY <1>1, <1>2, <1>3, <2>3, <2>4, <2>6 DEF e
  <1>4. CASE i \notin Staged(j)
    <2>1. EventsOf(j, i) = <<>>
      BY <1>4 DEF EventsOf
    <2>2. events[i] \o <<>> = events[i]
      BY <1>0
    <2> QED
      BY <1>1, <1>2, <1>4, <2>1, <2>2
  <1> QED
    BY <1>3, <1>4

LEMMA HistoryStep ==
  TypeInv /\ LockInv /\ HistoryExplainsRow /\ [Next]_vars => HistoryExplainsRow'
  <1> SUFFICES ASSUME TypeInv, LockInv, \A i \in Inspections : History(i), [Next]_vars,
                      NEW i \in Inspections
               PROVE  History(i)'
    BY HistoryByInspection DEF HistoryExplainsRow, History
  <1>0. row \in [Inspections -> Row] /\ events \in [Inspections -> Seq(Event)]
    BY DEF TypeInv, TypeOK
  <1>1. ASSUME events'[i] = events[i], row'[i].status = row[i].status,
               row'[i].reviewer = row[i].reviewer,
               row'[i].is_under_review = row[i].is_under_review,
               row'[i].reviewed = row[i].reviewed
        PROVE  History(i)'
    BY <1>1 DEF History, Open
  <1>2. ASSUME NEW l \in Leads, NEW k \in Inspections, NEW s \in Statuses,
               NEW c \in BOOLEAN, LeadDecides(l, k, s, c)
        PROVE  History(i)'
    <2> DEFINE e == [from |-> row[k].status, to |-> s, actor |-> l]
    <2>1. events' = [events EXCEPT ![k] = Append(@, e)]
          /\ row' = [row EXCEPT ![k] = Decided(@, l, s, c)]
      BY <1>2 DEF LeadDecides
    <2>2. e \in Event /\ e.from = row[k].status /\ e.to = s /\ e.actor = l
      BY <1>0 DEF Event, Row
    <2> HIDE DEF e
    <2>3. CASE k = i
      <3>1. row'[i] = Decided(row[i], l, s, c) /\ events'[i] = Append(events[i], e)
        BY <1>0, <2>1, <2>3
      <3>2. row[i] \in Row
        BY <1>0
      <3>3. s \in FinalStatuses <=> s \notin PENDING_REVIEW_STATUSES
        BY DEF Statuses, FinalStatuses, PENDING_REVIEW_STATUSES
      <3>4. /\ row'[i].status = s /\ row'[i].reviewer = l
            /\ row'[i].is_under_review <=> s \in PENDING_REVIEW_STATUSES
            /\ row'[i].reviewed <=> s \notin PENDING_REVIEW_STATUSES
        <4>1. /\ Decided(row[i], l, s, c).status = s
              /\ Decided(row[i], l, s, c).reviewer = l
              /\ Decided(row[i], l, s, c).is_under_review <=> s \in PENDING_REVIEW_STATUSES
              /\ Decided(row[i], l, s, c).reviewed <=> s \in FinalStatuses
          BY <3>2, DecidedTyped
        <4> QED
          BY <3>1, <3>3, <4>1
      <3> QED
        BY <2>2, <2>3, <3>1, <3>4, EventExplains
    <2>4. CASE k # i
      BY <1>0, <1>1, <2>1, <2>4
    <2> QED
      BY <2>3, <2>4
  <1>3. ASSUME NEW k \in Inspections, Deactivate(k) \/ GrowOld(k)
        PROVE  History(i)'
    BY <1>0, <1>1, <1>3 DEF Deactivate, GrowOld, Row
  <1>4. ASSUME NEW j \in Jobs, JobCommit(j)
        PROVE  History(i)'
    <2> DEFINE e == [from |-> row[i].status, to |-> "APPROVED", actor |-> JobActor]
    <2>1. CASE i \in Staged(j)
      <3>1. row'[i] = AutoApproved(row[i]) /\ events'[i] = Append(events[i], e)
        BY <1>4, <2>1, CommitAppends
      <3>2. row[i] \in Row
        BY <1>0
      <3>3. /\ row'[i].status = "APPROVED" /\ row'[i].reviewer = JobActor
            /\ ~row'[i].is_under_review /\ row'[i].reviewed
        BY <3>1, <3>2, AutoApprovedFields
      <3>4. e \in Event /\ e.from = row[i].status /\ e.to = "APPROVED" /\ e.actor = JobActor
        BY <3>2 DEF Event, Row, Statuses, FinalStatuses
      <3> HIDE DEF e
      <3> QED
        BY <3>1, <3>3, <3>4, EventExplains DEF PENDING_REVIEW_STATUSES
    <2>2. CASE i \notin Staged(j)
      BY <1>1, <1>4, <2>2, CommitAppends
    <2> QED
      BY <2>1, <2>2
  <1>5. ASSUME NEW j \in Jobs,
               \/ JobSelect(j) \/ JobLock(j) \/ JobWait(j) \/ JobGranted(j)
               \/ JobLog(j) \/ JobDeadlocked(j) \/ JobFails(j)
        PROVE  History(i)'
    BY <1>1, <1>5 DEF JobSelect, JobLock, JobWait, JobGranted, JobLog, JobDeadlocked, JobFails
  <1>6. CASE UNCHANGED vars
    BY <1>1, <1>6 DEF vars
  <1> QED
    BY <1>2, <1>3, <1>4, <1>5, <1>6 DEF Next, JobStep

LEMMA HistoryInit == Init => HistoryExplainsRow
  <1> SUFFICES ASSUME Init, NEW i \in Inspections PROVE History(i)
    BY HistoryByInspection
  <1> QED
    BY DEF Init, History, Open, PENDING_REVIEW_STATUSES

\* Whichever leads and runs of the job decide on an inspection, its events are one
\* chain of decisions and its columns tell of the last one.
THEOREM HistoryIsExplained == Spec => []HistoryExplainsRow
  BY LockInvariant, HistoryInit, HistoryStep, PTL DEF Spec

-----------------------------------------------------------------------------
(* The log *)

\* The rows that runs have committed and not yet logged, a pair for each.
Unlogged == {u \in Jobs \X Nat : u[2] \in 1..job[u[1]].rows}

Batch(j, n) == {j} \X (1..n)

\* What is logged and what is still to be logged was approved.
CountInv ==
  /\ IsFiniteSet(ApprovalsByJob)
  /\ IsFiniteSet(Unlogged)
  /\ logged + Cardinality(Unlogged) <= Cardinality(ApprovalsByJob)

LEMMA BatchSize ==
  ASSUME NEW j, NEW n \in Nat
  PROVE  IsFiniteSet(Batch(j, n)) /\ Cardinality(Batch(j, n)) = n
  <1>1. IsFiniteSet(1..n) /\ Cardinality(1..n) = n
    BY FS_Interval
  <1>2. IsFiniteSet({j}) /\ Cardinality({j}) = 1
    BY FS_Singleton
  <1> QED
    BY <1>1, <1>2, FS_Product DEF Batch

\* Two disjoint sets.
LEMMA DisjointUnion ==
  ASSUME NEW S, NEW T, IsFiniteSet(S), IsFiniteSet(T), S \cap T = {}
  PROVE  /\ IsFiniteSet(S \cup T)
         /\ Cardinality(S \cup T) = Cardinality(S) + Cardinality(T)
  <1>1. Cardinality(S) \in Nat /\ Cardinality(T) \in Nat
    BY FS_CardinalityType
  <1>2. Cardinality(S \cap T) = 0
    BY FS_EmptySet
  <1>3. /\ IsFiniteSet(S \cup T)
        /\ Cardinality(S \cup T) = Cardinality(S) + Cardinality(T) - Cardinality(S \cap T)
    BY FS_Union, Zenon
  <1> QED
    BY <1>1, <1>2, <1>3

\* What a run that changes its number of rows takes out of the unlogged ones and
\* puts into them.
LEMMA UnloggedTurns ==
  ASSUME TypeInv, NEW j \in Jobs, NEW q \in JobState, Turns(j, q), IsFiniteSet(Unlogged)
  PROVE  /\ IsFiniteSet(Unlogged')
         /\ Cardinality(Unlogged') + job[j].rows = Cardinality(Unlogged) + q.rows
  <1>1. job[j].rows \in Nat /\ q.rows \in Nat
    BY JobFields DEF TypeInv, JobState
  <1>2. \A k \in Jobs : job'[k] = IF k = j THEN q ELSE job[k]
    BY DEF Turns, TypeInv, TypeOK
  <1> DEFINE rest == Unlogged \ Batch(j, job[j].rows)
  <1>3. Unlogged = rest \cup Batch(j, job[j].rows) /\ rest \cap Batch(j, job[j].rows) = {}
    BY <1>1 DEF Unlogged, Batch
  <1>4. Unlogged' = rest \cup Batch(j, q.rows) /\ rest \cap Batch(j, q.rows) = {}
    BY <1>1, <1>2 DEF Unlogged, Batch
  <1>5. IsFiniteSet(rest) /\ Cardinality(rest) \in Nat
    BY FS_Subset, FS_CardinalityType
  <1> HIDE DEF rest
  <1>6. Cardinality(Unlogged) = Cardinality(rest) + job[j].rows
    <2>1. IsFiniteSet(Batch(j, job[j].rows)) /\ Cardinality(Batch(j, job[j].rows)) = job[j].rows
      BY <1>1, BatchSize
    <2> QED
      BY <1>3, <1>5, <2>1, DisjointUnion, Zenon
  <1>7. IsFiniteSet(Unlogged') /\ Cardinality(Unlogged') = Cardinality(rest) + q.rows
    <2>1. IsFiniteSet(Batch(j, q.rows)) /\ Cardinality(Batch(j, q.rows)) = q.rows
      BY <1>1, BatchSize
    <2> QED
      BY <1>4, <1>5, <2>1, DisjointUnion, Zenon
  <1> QED
    BY <1>1, <1>5, <1>6, <1>7

LEMMA ApprovalMember ==
  ASSUME NEW a
  PROVE  a \in ApprovalsByJob <=>
           \E i \in Inspections : \E n \in DOMAIN events[i] :
             a = <<i, n>> /\ events[i][n].actor = JobActor
  BY DEF ApprovalsByJob

\* A decision of a lead is no approval of the job.
LEMMA LeadApprovesNothing ==
  ASSUME TypeInv, NEW l \in Leads, NEW i \in Inspections, NEW s \in Statuses,
         NEW c \in BOOLEAN, LeadDecides(l, i, s, c)
  PROVE  ApprovalsByJob' = ApprovalsByJob
  <1> DEFINE e == [from |-> row[i].status, to |-> s, actor |-> l]
  <1>1. e \in Event /\ e.actor # JobActor
    BY ReviewAssumption DEF TypeInv, TypeOK, Row, Event
  <1>2. events' = [events EXCEPT ![i] = Append(events[i], e)]
    BY DEF LeadDecides
  <1> HIDE DEF e
  <1>3. /\ events \in [Inspections -> Seq(Event)]
        /\ \A k \in Inspections :
             events'[k] = IF k = i THEN Append(events[i], e) ELSE events[k]
    BY <1>2 DEF TypeInv, TypeOK
  <1>4. \A k \in Inspections :
          {n \in DOMAIN events'[k] : events'[k][n].actor = JobActor} =
          {n \in DOMAIN events[k] : events[k][n].actor = JobActor}
    <2> SUFFICES ASSUME NEW k \in Inspections
                 PROVE  {n \in DOMAIN events'[k] : events'[k][n].actor = JobActor} =
                        {n \in DOMAIN events[k] : events[k][n].actor = JobActor}
      OBVIOUS
    <2>1. CASE k # i
      BY <1>3, <2>1
    <2>2. CASE k = i
      <3>1. events[i] \in Seq(Event) /\ Len(events[i]) \in Nat
        BY <1>3
      <3>2. /\ DOMAIN Append(events[i], e) = 1..(Len(events[i]) + 1)
            /\ DOMAIN events[i] = 1..Len(events[i])
            /\ Append(events[i], e)[Len(events[i]) + 1] = e
            /\ \A n \in 1..Len(events[i]) : Append(events[i], e)[n] = events[i][n]
        BY <1>1, <3>1
      <3> DEFINE g == Append(events[i], e)
      <3>3. events'[k] = g /\ events[k] = events[i]
        BY <1>3, <2>2
      <3> HIDE DEF g
      <3>4. \A n : (n \in DOMAIN g /\ g[n].actor = JobActor)
                     <=> (n \in DOMAIN events[i] /\ events[i][n].actor = JobActor)
        BY <1>1, <3>1, <3>2 DEF g
      <3> QED
        BY <3>3, <3>4
    <2> QED
      BY <2>1, <2>2
  <1> QED
    BY <1>4 DEF ApprovalsByJob

\* A commit of the job adds an approval for every row that is staged.
LEMMA CommitApproves ==
  ASSUME TypeInv, LockInv, IsFiniteSet(ApprovalsByJob), NEW j \in Jobs, JobCommit(j)
  PROVE  /\ IsFiniteSet(ApprovalsByJob')
         /\ Cardinality(ApprovalsByJob') =
              Cardinality(ApprovalsByJob) + Cardinality(job[j].staged)
  <1> DEFINE staged == job[j].staged
             f == [s \in staged |-> <<s[1], Len(events[s[1]]) + 1>>]
             new == {f[s] : s \in staged}
  <1>1. IsFiniteSet(staged) /\ events \in [Inspections -> Seq(Event)]
    BY DEF TypeInv, TypeOK
  <1>2. \A s \in staged : /\ s \in Inspections \X Statuses /\ s = <<s[1], s[2]>>
                          /\ s[1] \in Inspections /\ s[1] \in Staged(j)
                          /\ s[2] = row[s[1]].status
    BY JobFields DEF TypeInv, LockInv, StagedStand, Staged
  <1>3. f \in Bijection(staged, new)
    <2>1. f \in [staged -> new]
      OBVIOUS
    <2>2. \A s, t \in staged : f[s] = f[t] => s = t
      BY <1>2
    <2>3. \A b \in new : \E s \in staged : f[s] = b
      OBVIOUS
    <2> HIDE DEF f, new
    <2> QED
      BY <2>1, <2>2, <2>3 DEF Bijection, Injection, Surjection, IsInjective
  <1>4. IsFiniteSet(new) /\ Cardinality(new) = Cardinality(staged)
    <2> HIDE DEF f, new
    <2> QED
      BY <1>1, <1>3, FS_Bijection DEF ExistsBijection
  <1>5. \A a \in new : \E i \in Staged(j) : i \in Inspections /\ a = <<i, Len(events[i]) + 1>>
    BY <1>2
  <1>6. \A i \in Staged(j) : i \in Inspections /\ <<i, Len(events[i]) + 1>> \in new
    BY <1>2 DEF Staged
  <1> HIDE DEF f, new
  <1>7. new \cap ApprovalsByJob = {}
    <2> SUFFICES ASSUME NEW a \in new, a \in ApprovalsByJob PROVE FALSE
      OBVIOUS
    <2>1. PICK i \in Inspections : a = <<i, Len(events[i]) + 1>>
      BY <1>5
    <2>2. PICK k \in Inspections : \E n \in DOMAIN events[k] : a = <<k, n>>
      BY ApprovalMember
    <2>3. PICK n \in DOMAIN events[k] : a = <<k, n>>
      BY <2>2
    <2>4. k = i /\ n = Len(events[i]) + 1
      BY <2>1, <2>3
    <2> QED
      BY <1>1, <2>3, <2>4
  <1>8. ApprovalsByJob' = ApprovalsByJob \cup new
    <2>1. ASSUME NEW i \in Inspections
          PROVE  \A n : (n \in DOMAIN events'[i] /\ events'[i][n].actor = JobActor) <=>
                          \/ n \in DOMAIN events[i] /\ events[i][n].actor = JobActor
                          \/ i \in Staged(j) /\ n = Len(events[i]) + 1
      <3>1. CASE i \in Staged(j)
        <4> DEFINE e == [from |-> row[i].status, to |-> "APPROVED", actor |-> JobActor]
        <4>1. events'[i] = Append(events[i], e)
          BY <3>1, CommitAppends
        <4>2. e \in Event /\ e.actor = JobActor
          BY DEF TypeInv, TypeOK, Row, Event, Statuses, FinalStatuses
        <4> HIDE DEF e
        <4>3. events[i] \in Seq(Event) /\ Len(events[i]) \in Nat
          BY <1>1
        <4>4. /\ DOMAIN events'[i] = 1..(Len(events[i]) + 1)
              /\ DOMAIN events[i] = 1..Len(events[i])
              /\ events'[i][Len(events[i]) + 1] = e
              /\ \A n \in 1..Len(events[i]) : events'[i][n] = events[i][n]
          BY <4>1, <4>2, <4>3
        <4> QED
          BY <3>1, <4>2, <4>3, <4>4
      <3>2. CASE i \notin Staged(j)
        BY <3>2, CommitAppends
      <3> QED
        BY <3>1, <3>2
    <2>2. ASSUME NEW a
          PROVE  a \in ApprovalsByJob' <=>
                   \E i \in Inspections : \E n \in DOMAIN events'[i] :
                     a = <<i, n>> /\ events'[i][n].actor = JobActor
      BY DEF ApprovalsByJob
    <2>3. ASSUME NEW a PROVE a \in ApprovalsByJob' <=> a \in ApprovalsByJob \cup new
      <3>1. a \in ApprovalsByJob' <=>
              \E i \in Inspections : \E n :
                /\ a = <<i, n>>
                /\ \/ n \in DOMAIN events[i] /\ events[i][n].actor = JobActor
                   \/ i \in Staged(j) /\ n = Len(events[i]) + 1
        BY <2>1, <2>2
      <3>2. a \in new <=> \E i \in Inspections : i \in Staged(j) /\ a = <<i, Len(events[i]) + 1>>
        BY <1>5, <1>6
      <3> QED
        BY <3>1, <3>2, ApprovalMember
    <2> QED
      BY <2>3
  <1> QED
    BY <1>1, <1>4, <1>7, <1>8, DisjointUnion, FS_CardinalityType

LEMMA CountStep == TypeInv /\ LockInv /\ CountInv /\ [Next]_vars => CountInv'
  <1> SUFFICES ASSUME TypeInv, LockInv, CountInv, [Next]_vars PROVE CountInv'
    OBVIOUS
  <1>0. /\ IsFiniteSet(ApprovalsByJob) /\ Cardinality(ApprovalsByJob) \in Nat
        /\ IsFiniteSet(Unlogged) /\ Cardinality(Unlogged) \in Nat /\ logged \in Nat
        /\ logged + Cardinality(Unlogged) <= Cardinality(ApprovalsByJob)
        /\ job \in [Jobs -> JobState] /\ TypeOK
    BY FS_CardinalityType DEF CountInv, TypeInv, TypeOK
  \* A run that has nothing to log, before or after, or fails to log it.
  <1>1. ASSUME NEW j \in Jobs, NEW q \in JobState, Turns(j, q), q.rows <= job[j].rows,
               UNCHANGED <<events, logged>>
        PROVE  CountInv'
    <2>1. IsFiniteSet(Unlogged') /\ Cardinality(Unlogged') \in Nat
          /\ Cardinality(Unlogged') + job[j].rows = Cardinality(Unlogged) + q.rows
      BY <1>0, <1>1, UnloggedTurns, FS_CardinalityType
    <2>2. ApprovalsByJob' = ApprovalsByJob
      BY <1>1 DEF ApprovalsByJob
    <2>3. q.rows \in Nat /\ job[j].rows \in Nat
      BY <1>0 DEF JobState
    <2> QED
      BY <1>0, <1>1, <2>1, <2>2, <2>3 DEF CountInv
  <1>2. ASSUME NEW l \in Leads, NEW i \in Inspections, NEW s \in Statuses,
               NEW c \in BOOLEAN, LeadDecides(l, i, s, c)
        PROVE  CountInv'
    <2>1. UNCHANGED <<job, logged>>
      BY <1>2 DEF LeadDecides
    <2>2. Unlogged' = Unlogged
      BY <2>1 DEF Unlogged
    <2> QED
      BY <1>0, <1>2, <2>1, <2>2, LeadApprovesNothing DEF CountInv
  <1>3. ASSUME NEW j \in Jobs, JobSelect(j)
        PROVE  CountInv'
    <2> DEFINE cands == {i \in Inspections : row[i].active /\ row[i].aged /\ Open(i)}
               q == [job[j] EXCEPT !.pc = "next", !.cands = cands]
    <2>1. q \in JobState /\ q.rows = job[j].rows /\ job[j].rows \in Nat
      BY <1>0, JobFields DEF JobState
    <2>2. Turns(j, q) /\ UNCHANGED <<events, logged>>
      BY <1>3 DEF JobSelect, Turns
    <2> HIDE DEF q
    <2> QED
      BY <1>1, <2>1, <2>2
  <1>4. ASSUME NEW j \in Jobs, JobLock(j) \/ JobGranted(j)
        PROVE  CountInv'
    <2>1. PICK i \in Inspections : Turns(j, Taken(j, i))
      BY <1>0, <1>4, JobFields DEF JobLock, JobGranted, Waiting, TakesRow, Turns
    <2>2. UNCHANGED <<events, logged>>
      BY <1>4 DEF JobLock, JobGranted
    <2> DEFINE q == Taken(j, i)
    <2>3. q \in JobState /\ q.rows = job[j].rows /\ job[j].rows \in Nat
      BY <1>0, JobFields, TakenTyped
    <2> HIDE DEF q
    <2> QED
      BY <1>1, <2>1, <2>2, <2>3 DEF q
  <1>5. ASSUME NEW j \in Jobs, JobWait(j)
        PROVE  CountInv'
    <2> DEFINE q == [job[j] EXCEPT !.pc = "wait"]
    <2>1. q \in JobState /\ q.rows = job[j].rows /\ job[j].rows \in Nat
      BY <1>0, JobFields DEF JobState
    <2>2. Turns(j, q) /\ UNCHANGED <<events, logged>>
      BY <1>5 DEF JobWait, Turns
    <2> HIDE DEF q
    <2> QED
      BY <1>1, <2>1, <2>2
  <1>6. ASSUME NEW j \in Jobs, JobCommit(j)
        PROVE  CountInv'
    <2> DEFINE q == [IdleJob EXCEPT !.pc = "log", !.rows = Cardinality(job[j].staged)]
    <2>1. IsFiniteSet(job[j].staged) /\ Cardinality(job[j].staged) \in Nat
      BY FS_CardinalityType DEF TypeInv
    <2>2. q \in JobState /\ q.rows = Cardinality(job[j].staged)
      BY <2>1 DEF IdleJob, JobState
    <2>3. Turns(j, q) /\ UNCHANGED logged /\ job[j].pc = "next"
      BY <1>6 DEF JobCommit, Turns
    <2> HIDE DEF q
    <2>4. job[j].rows = 0
      BY <2>3 DEF LockInv, EmptyOutside
    <2>5. /\ IsFiniteSet(Unlogged')
          /\ Cardinality(Unlogged') + 0 = Cardinality(Unlogged) + q.rows
      BY <1>0, <2>2, <2>3, <2>4, UnloggedTurns
    <2>6. Cardinality(Unlogged') \in Nat
      BY <2>5, FS_CardinalityType
    <2> QED
      BY <1>0, <1>6, <2>1, <2>2, <2>3, <2>5, <2>6, CommitApproves DEF CountInv
  <1>7. ASSUME NEW j \in Jobs, JobLog(j)
        PROVE  CountInv'
    <2>1. Turns(j, IdleJob) /\ UNCHANGED events /\ logged' = logged + job[j].rows
      BY <1>7 DEF JobLog, Turns
    <2>2. IdleJob \in JobState /\ IdleJob.rows = 0 /\ job[j].rows \in Nat
      BY <1>0, IdleJobTyped, JobFields DEF IdleJob
    <2>3. /\ IsFiniteSet(Unlogged') /\ Cardinality(Unlogged') \in Nat
          /\ Cardinality(Unlogged') + job[j].rows = Cardinality(Unlogged) + 0
      BY <1>0, <2>1, <2>2, UnloggedTurns, FS_CardinalityType
    <2>4. ApprovalsByJob' = ApprovalsByJob
      BY <2>1 DEF ApprovalsByJob
    <2> QED
      BY <1>0, <2>1, <2>2, <2>3, <2>4 DEF CountInv
  <1>8. ASSUME NEW j \in Jobs, JobDeadlocked(j) \/ JobFails(j)
        PROVE  CountInv'
    <2>1. Turns(j, IdleJob) /\ UNCHANGED <<events, logged>>
      BY <1>8 DEF JobDeadlocked, JobFails, GivesUp, Turns
    <2>2. IdleJob \in JobState /\ IdleJob.rows = 0 /\ job[j].rows \in Nat
      BY <1>0, IdleJobTyped, JobFields DEF IdleJob
    <2> QED
      BY <1>1, <2>1, <2>2
  <1>9. ASSUME UNCHANGED <<events, job, logged>>
        PROVE  CountInv'
    BY <1>9 DEF CountInv, ApprovalsByJob, Unlogged
  <1>10. CASE (\E i \in Inspections : Deactivate(i) \/ GrowOld(i)) \/ UNCHANGED vars
    BY <1>9, <1>10 DEF Deactivate, GrowOld, vars
  <1> QED
    BY <1>2, <1>3, <1>4, <1>5, <1>6, <1>7, <1>8, <1>10 DEF Next, JobStep

LEMMA CountInit == Init => CountInv
  <1> SUFFICES ASSUME Init PROVE CountInv
    OBVIOUS
  <1>1. ApprovalsByJob = {} /\ Unlogged = {} /\ logged = 0
    BY DEF Init, ApprovalsByJob, Unlogged, IdleJob
  <1> QED
    BY <1>1, FS_EmptySet DEF CountInv

\* However runs overlap, fail and start over, the log of the job never counts an
\* approval that was rolled back, nor one twice.
THEOREM LogIsHonest == Spec => []LogCountsApprovals
  <1>1. TypeInv /\ CountInv => LogCountsApprovals
    <2> SUFFICES ASSUME TypeInv, CountInv PROVE LogCountsApprovals
      OBVIOUS
    <2>1. /\ Cardinality(ApprovalsByJob) \in Nat /\ Cardinality(Unlogged) \in Nat
          /\ logged \in Nat
      BY FS_CardinalityType DEF TypeInv, TypeOK, CountInv
    <2> QED
      BY <2>1 DEF CountInv, LogCountsApprovals
  <1> QED
    BY <1>1, LockInvariant, CountInit, CountStep, PTL DEF Spec

-----------------------------------------------------------------------------
(* The ledger *)

\* The ledger of an inspection, as the refinement mapping reads it off its events.
Entry(i) == [n \in 1..Len(events[i]) |->
               [to |-> events[i][n].to, by |-> events[i][n].actor]]

Decision == [to : Statuses, by : Leads \cup {JobActor}]

LEMMA EventIsDecision ==
  ASSUME NEW h \in Seq(Event), NEW n \in 1..Len(h)
  PROVE  [to |-> h[n].to, by |-> h[n].actor] \in Decision
  <1>1. h[n] \in Event
    BY ElementOfSeq
  <1> QED
    BY <1>1 DEF Event, Decision

LEMMA EntryTyped ==
  ASSUME TypeInv, NEW i \in Inspections
  PROVE  /\ Entry(i) \in Seq(Decision)
         /\ Len(Entry(i)) = Len(events[i])
         /\ \A n \in 1..Len(events[i]) :
              Entry(i)[n] = [to |-> events[i][n].to, by |-> events[i][n].actor]
  <1>1. events[i] \in Seq(Event) /\ Len(events[i]) \in Nat
    BY DEF TypeInv, TypeOK
  <1>2. \A n \in 1..Len(events[i]) :
          [to |-> events[i][n].to, by |-> events[i][n].actor] \in Decision
    BY <1>1, EventIsDecision
  <1> QED
    BY <1>1, <1>2 DEF Entry

\* An event is a decision at the end of the ledger.
LEMMA EntryGrows ==
  ASSUME TypeInv, TypeInv', NEW i \in Inspections, NEW e \in Event,
         events'[i] = Append(events[i], e)
  PROVE  Entry(i)' = Append(Entry(i), [to |-> e.to, by |-> e.actor])
  <1> DEFINE d == [to |-> e.to, by |-> e.actor]
             s == Append(Entry(i), d)
  <1>1. d \in Decision
    BY DEF Event, Decision
  <1> HIDE DEF d
  <1>2. events[i] \in Seq(Event) /\ Entry(i) \in Seq(Decision)
        /\ Len(Entry(i)) = Len(events[i])
    BY EntryTyped DEF TypeInv, TypeOK
  <1>3. /\ s \in Seq(Decision) /\ Len(s) = Len(events[i]) + 1 /\ s[Len(s)] = d
        /\ \A n \in 1..Len(events[i]) : s[n] = Entry(i)[n]
    BY <1>1, <1>2
  <1>4. /\ Entry(i)' \in Seq(Decision)
        /\ Len(Entry(i)') = Len(events'[i])
        /\ \A n \in 1..Len(events'[i]) :
             Entry(i)'[n] = [to |-> events'[i][n].to, by |-> events'[i][n].actor]
    <2>1. events'[i] \in Seq(Event) /\ Len(events'[i]) \in Nat
      BY DEF TypeInv, TypeOK
    <2>2. \A n \in 1..Len(events'[i]) :
            [to |-> events'[i][n].to, by |-> events'[i][n].actor] \in Decision
      BY <2>1, EventIsDecision
    <2> QED
      BY <2>1, <2>2 DEF Entry
  <1>5. /\ Len(events'[i]) = Len(events[i]) + 1 /\ Len(events[i]) \in Nat
        /\ events'[i][Len(events[i]) + 1] = e
        /\ \A n \in 1..Len(events[i]) : events'[i][n] = events[i][n]
    BY <1>2
  <1>6. ASSUME NEW n \in 1..Len(s)
        PROVE  Entry(i)'[n] = s[n]
    <2>1. CASE n \in 1..Len(events[i])
      BY <1>3, <1>4, <1>5, <2>1, EntryTyped
    <2>2. CASE n = Len(events[i]) + 1
      BY <1>3, <1>4, <1>5, <2>2 DEF d
    <2> QED
      BY <1>3, <1>5, <2>1, <2>2
  <1> HIDE DEF s
  <1>7. Len(Entry(i)') = Len(s)
    BY <1>3, <1>4, <1>5
  <1>8. Entry(i)' = s
    BY <1>3, <1>4, <1>6, <1>7, SeqEqual
  <1> QED
    BY <1>8 DEF s, d

\* The decision that stands in the ledger is the status of the row.
LEMMA StandingIsStatus ==
  ASSUME TypeInv, NEW i \in Inspections, History(i)
  PROVE  Ledger!Standing(i) = row[i].status
  <1>1. events[i] \in Seq(Event) /\ Len(events[i]) \in Nat
    BY DEF TypeInv, TypeOK
  <1>2. Ledger!Standing(i) =
          IF Entry(i) = <<>> THEN "IN_REVIEW" ELSE Entry(i)[Len(Entry(i))].to
    BY DEF Ledger!Standing, Entry
  <1>3. Entry(i) = <<>> <=> events[i] = <<>>
    BY <1>1, EntryTyped
  <1>4. ASSUME events[i] # <<>>
        PROVE  Entry(i)[Len(Entry(i))].to = events[i][Len(events[i])].to
    <2> DEFINE n == Len(events[i])
    <2>1. n \in 1..Len(events[i])
      BY <1>1, <1>4
    <2>2. Entry(i)[n] = [to |-> events[i][n].to, by |-> events[i][n].actor]
      BY <2>1, EntryTyped
    <2>3. Entry(i)[n].to = events[i][n].to
      BY <2>2
    <2>4. Len(Entry(i)) = n
      BY EntryTyped
    <2> QED
      BY <2>3, <2>4
  <1> QED
    BY <1>2, <1>3, <1>4 DEF History

LEMMA LedgerStep ==
  ASSUME TypeInv, TypeInv', LockInv, HistoryExplainsRow, [Next]_vars
  PROVE  \/ Ledger!Next
         \/ \A i \in Inspections : Entry(i)' = Entry(i)
  <1>0. /\ row \in [Inspections -> Row] /\ events \in [Inspections -> Seq(Event)]
        /\ \A i \in Inspections : History(i)
    BY HistoryByInspection DEF TypeInv, TypeOK
  <1>1. ASSUME NEW l \in Leads, NEW k \in Inspections, NEW s \in Statuses,
               NEW c \in BOOLEAN, LeadDecides(l, k, s, c)
        PROVE  Ledger!Decide(k, l, s)
    <2> DEFINE e == [from |-> row[k].status, to |-> s, actor |-> l]
    <2>1. events' = [events EXCEPT ![k] = Append(@, e)] /\ row[k].status # s
      BY <1>1 DEF LeadDecides
    <2>2. e \in Event /\ e.to = s /\ e.actor = l
      BY <1>0 DEF Event, Row
    <2> HIDE DEF e
    <2>3. Entry(k)' = Append(Entry(k), [to |-> s, by |-> l])
      BY <1>0, <2>1, <2>2, EntryGrows
    <2>4. \A i \in Inspections \ {k} : Entry(i)' = Entry(i)
      BY <1>0, <2>1 DEF Entry
    <2>5. s # Ledger!Standing(k)
      BY <1>0, <2>1, StandingIsStatus
    <2>6. [i \in Inspections |-> Entry(i)]' =
            [[i \in Inspections |-> Entry(i)] EXCEPT ![k] = Append(@, [to |-> s, by |-> l])]
      BY <2>3, <2>4
    <2> QED
      BY <2>5, <2>6 DEF Ledger!Decide, Entry
  <1>2. ASSUME NEW j \in Jobs, JobCommit(j),
               NEW S \in SUBSET Inspections, S = Staged(j) \cap Inspections
        PROVE  Ledger!Sweep(S)
    <2>1. ASSUME NEW i \in S
          PROVE  /\ Ledger!Standing(i) \in PENDING_REVIEW_STATUSES
                 /\ Entry(i)' = Append(Entry(i), [to |-> "APPROVED", by |-> JobActor])
      <3> DEFINE e == [from |-> row[i].status, to |-> "APPROVED", actor |-> JobActor]
      <3>1. row[i].status \in PENDING_REVIEW_STATUSES /\ events'[i] = Append(events[i], e)
        BY <1>2, CommitAppends
      <3>2. e \in Event /\ e.to = "APPROVED" /\ e.actor = JobActor
        BY <1>0 DEF Event, Row, Statuses, FinalStatuses
      <3> HIDE DEF e
      <3> QED
        BY <1>0, <3>1, <3>2, EntryGrows, StandingIsStatus
    <2>2. ASSUME NEW i \in Inspections, i \notin S
          PROVE  Entry(i)' = Entry(i)
      BY <1>2, <2>2, CommitAppends DEF Entry
    <2>3. [i \in Inspections |-> Entry(i)]' =
            [i \in Inspections |->
               IF i \in S
               THEN Append([k \in Inspections |-> Entry(k)][i],
                           [to |-> "APPROVED", by |-> JobActor])
               ELSE [k \in Inspections |-> Entry(k)][i]]
      BY <2>1, <2>2
    <2>4. PENDING_REVIEW_STATUSES = Ledger!OpenStatuses
      BY DEF PENDING_REVIEW_STATUSES, Ledger!OpenStatuses
    <2> QED
      BY <2>1, <2>3, <2>4 DEF Ledger!Sweep, Entry
  <1>3. CASE UNCHANGED events
    BY <1>3 DEF Entry
  <1>4. Statuses = Ledger!Statuses
    BY DEF Statuses, FinalStatuses, PENDING_REVIEW_STATUSES, Ledger!Statuses,
           Ledger!OpenStatuses
  <1>5. CASE \E l \in Leads, k \in Inspections, s \in Statuses, c \in BOOLEAN :
               LeadDecides(l, k, s, c)
    BY <1>1, <1>4, <1>5 DEF Ledger!Next
  <1>6. CASE \E j \in Jobs : JobCommit(j)
    <2>1. PICK j \in Jobs : JobCommit(j)
      BY <1>6
    <2>2. PICK S \in SUBSET Inspections : S = Staged(j) \cap Inspections
      OBVIOUS
    <2>3. Ledger!Sweep(S)
      BY <1>2, <2>1, <2>2
    <2> QED
      BY <2>3 DEF Ledger!Next
  <1>7. CASE UNCHANGED events \/ ~ UNCHANGED vars
    BY <1>3, <1>5, <1>6, <1>7
    DEF Next, JobStep, Deactivate, GrowOld, JobSelect, JobLock, JobWait, JobGranted,
        JobLog, JobDeadlocked, JobFails
  <1> QED
    BY <1>7 DEF vars

\* What the transactions do is what the ledger promises: a lead's decision differs
\* from the standing one, a run of the job closes a batch of open inspections at a
\* stroke, and nothing else changes a decision.
THEOREM LedgerImplemented == Spec => ImplementsLedger
  <1>1. Init => Ledger!Init
    <2>1. Init => \A i \in Inspections : Len(events[i]) = 0
      BY DEF Init
    <2>2. ASSUME NEW i \in Inspections, Len(events[i]) = 0 PROVE Entry(i) = <<>>
      BY <2>2 DEF Entry
    <2> QED
      BY <2>1, <2>2 DEF Ledger!Init, Entry
  <1> DEFINE ledger == [i \in Inspections |->
                          [n \in 1..Len(events[i]) |->
                             [to |-> events[i][n].to, by |-> events[i][n].actor]]]
  <1>2. TypeInv /\ TypeInv' /\ LockInv /\ HistoryExplainsRow /\ [Next]_vars
          => [Ledger!Next]_ledger
    BY LedgerStep DEF Entry
  <1> QED
    BY <1>1, <1>2, LockInvariant, HistoryIsExplained, PTL
    DEF Spec, ImplementsLedger, Ledger!Spec
=============================================================================
