-------------------------- MODULE InspectionReview --------------------------
(***************************************************************************)
(* Reviewing an inspection: the decisions of the leads and the job that    *)
(* approves what nobody decided in time.                                   *)
(*                                                                         *)
(* A lead's request locks the row, decides on what it reads there and      *)
(* commits: one action.  The job selects its candidates in one statement,  *)
(* then locks them one after the other in one transaction: an action per   *)
(* statement, and everything it has written or locked is part of job[j]    *)
(* until its commit.  It runs every 15 minutes from Celery beat and on     *)
(* demand over HTTP, so several runs overlap.                              *)
(***************************************************************************)
EXTENDS Naturals, FiniteSets, SequencesExt

CONSTANTS
  Inspections,
  Leads,            \* users with ROLES_INSPECTION_LEAD
  JobActor,         \* the superadmin the job signs with
  Jobs,             \* runs of the job that may overlap
  MaxDecisions,     \* bound: decisions of the leads
  MaxFaults         \* bound: failures and crashes of the job

ASSUME ReviewAssumption ==
  /\ JobActor \notin Leads
  /\ MaxDecisions \in Nat
  /\ MaxFaults \in Nat

VARIABLES
  row,      \* the review columns of inspections
  events,   \* rows of inspection_review_events, per inspection
  job,      \* what each run is doing
  queue,    \* runs that wait for the row lock of an inspection, in order
  logged,   \* rows_updated, summed over the success rows of job_logs
  decided,  \* decisions of the leads so far
  faults    \* failures and crashes so far

vars == <<row, events, job, queue, logged, decided, faults>>

PENDING_REVIEW_STATUSES == {"PENDING", "IN_REVIEW"}
FinalStatuses == {"APPROVED", "REJECTED"}
Statuses == PENDING_REVIEW_STATUSES \cup FinalStatuses
Nobody == "nobody"

\* aged: created_at is before the job's cutoff. reviewed: reviewed_at is set.
\* comment: who wrote reviewed_comment.
Row == [status : Statuses, active : BOOLEAN, aged : BOOLEAN,
        is_under_review : BOOLEAN, is_auto_approved : BOOLEAN,
        reviewed : BOOLEAN, reviewer : Leads \cup {JobActor, Nobody},
        comment : {"none", "lead", "job"}]

Event == [from : Statuses, to : Statuses, actor : Leads \cup {JobActor}]

\* cands: selected and not yet locked; held: rows it has locked; staged: those
\* it has approved, uncommitted, each with from_status; rows: rows_updated.
JobState == [pc : {"idle", "next", "wait", "log"},
             cands : SUBSET Inspections,
             held : SUBSET Inspections,
             staged : SUBSET (Inspections \X Statuses), rows : Nat]

IdleJob == [pc |-> "idle", cands |-> {}, held |-> {},
            staged |-> {}, rows |-> 0]

\* Type invariant: an inspection's columns stay within their enums whoever decides,
\* the job included, and each run of the job is in one of its four places.
TypeOK ==
  /\ row \in [Inspections -> Row]
  /\ events \in [Inspections -> Seq(Event)]
  /\ job \in [Jobs -> JobState]
  /\ queue \in [Inspections -> Seq(Jobs)]
  /\ logged \in Nat
  /\ decided \in Nat
  /\ faults \in Nat

-----------------------------------------------------------------------------
Init ==
  /\ row = [i \in Inspections |->
              [status |-> "IN_REVIEW", active |-> TRUE, aged |-> FALSE,
               is_under_review |-> TRUE, is_auto_approved |-> FALSE,
               reviewed |-> FALSE, reviewer |-> Nobody, comment |-> "none"]]
  /\ events = [i \in Inspections |-> <<>>]
  /\ job = [j \in Jobs |-> IdleJob]
  /\ queue = [i \in Inspections |-> <<>>]
  /\ logged = 0
  /\ decided = 0
  /\ faults = 0

Open(i) == row[i].status \in PENDING_REVIEW_STATUSES
Locked(i) == \E j \in Jobs : i \in job[j].held

\* Mutant: no FOR UPDATE anywhere.
FreeAlways(i) == i \in Inspections

Free(i) == ~Locked(i) /\ queue[i] = <<>>
Waiting(j) == {i \in Inspections : j \in Range(queue[i])}

-----------------------------------------------------------------------------
(* PATCH /inspections/{uuid}/review-status *)

Decided(r, lead, status, comment) ==
  [r EXCEPT !.status = status,
            !.reviewer = lead,
            !.comment = IF comment THEN "lead" ELSE @,
            !.is_under_review = status \in PENDING_REVIEW_STATUSES,
            !.reviewed = status \in FinalStatuses]

\* SELECT ... FOR UPDATE waits for a run of the job that holds the row. The
\* standing status is refused (400), any other accepted, a final one included.
LeadDecides(lead, i, status, comment) ==
  /\ Free(i)
  /\ decided < MaxDecisions
  /\ decided' = decided + 1
  /\ row[i].status # status
  /\ row' = [row EXCEPT ![i] = Decided(@, lead, status, comment)]
  /\ events' = [events EXCEPT ![i] =
       Append(@, [from |-> row[i].status, to |-> status, actor |-> lead])]
  /\ UNCHANGED <<job, queue, logged, faults>>

(* DELETE /inspections/{uuid} *)
Deactivate(i) ==
  /\ Free(i)
  /\ row[i].active
  /\ row' = [row EXCEPT ![i].active = FALSE]
  /\ UNCHANGED <<events, job, queue, logged, faults, decided>>

-----------------------------------------------------------------------------
(* execute_auto_approve_inspections *)


\* SELECT id ... without a lock: what it finds may change before it is read.
JobSelect(j) ==
  /\ job[j].pc = "idle"
  /\ job' = [job EXCEPT ![j].pc = "next",
       ![j].cands = {i \in Inspections : row[i].active /\ row[i].aged /\ Open(i)}]
  /\ UNCHANGED <<row, events, queue, logged, faults, decided>>

\* Mutant: the status is not read again under the lock.
StillDueByAge(i) == row[i].aged

\* What the job makes sure of once it has the lock. is_active is not read again.
StillDue(i) == Open(i) /\ row[i].aged

\* SELECT ... FOR UPDATE of one candidate; the query had no ORDER BY, so they come
\* in any order. The lock stays until the end of the transaction, for a row that
\* is skipped too.
Taken(j, i) ==
  [job[j] EXCEPT !.pc = "next", !.cands = @ \ {i}, !.held = @ \cup {i},
                 !.staged = IF StillDue(i) THEN @ \cup {<<i, row[i].status>>} ELSE @]

TakesRow(j, i) == job' = [job EXCEPT ![j] = Taken(j, i)]

Staged(j) == {s[1] : s \in job[j].staged}

JobLock(j) ==
  /\ job[j].pc = "next"
  /\ \E i \in job[j].cands : Free(i) /\ TakesRow(j, i)
  /\ UNCHANGED <<row, events, queue, logged, faults, decided>>

JobWait(j) ==
  /\ job[j].pc = "next"
  /\ \E i \in job[j].cands :
       /\ ~Free(i)
       /\ queue' = [queue EXCEPT ![i] = Append(@, j)]
       /\ job' = [job EXCEPT ![j].pc = "wait"]
  /\ UNCHANGED <<row, events, logged, faults, decided>>

JobGranted(j) ==
  /\ job[j].pc = "wait"
  /\ \E i \in Waiting(j) :
       /\ Head(queue[i]) = j
       /\ ~Locked(i)
       /\ TakesRow(j, i)
       /\ queue' = [queue EXCEPT ![i] = Tail(@)]
  /\ UNCHANGED <<row, events, logged, faults, decided>>

\* Mutant: a status of its own, which the other handlers do not know.
AutoApprovedStatus(r) ==
  [r EXCEPT !.status = "AUTO_APPROVED", !.is_auto_approved = TRUE,
            !.is_under_review = FALSE, !.reviewer = JobActor,
            !.reviewed = TRUE, !.comment = "job"]

AutoApproved(r) ==
  [r EXCEPT !.status = "APPROVED", !.is_auto_approved = TRUE,
            !.is_under_review = FALSE, !.reviewer = JobActor,
            !.reviewed = TRUE, !.comment = "job"]

\* The event of a staged inspection: from the status the job read under the lock.
EventsOf(j, i) ==
  IF i \in Staged(j)
  THEN <<[from |-> CHOOSE s \in Statuses : <<i, s>> \in job[j].staged,
          to |-> "APPROVED", actor |-> JobActor]>>
  ELSE <<>>

\* All rows and events of the run, in one commit.
JobCommit(j) ==
  /\ job[j].pc = "next" /\ job[j].cands = {}
  /\ row' = [i \in Inspections |->
               IF i \in Staged(j) THEN AutoApproved(row[i]) ELSE row[i]]
  /\ events' = [i \in Inspections |-> events[i] \o EventsOf(j, i)]
  /\ job' = [job EXCEPT ![j] = [IdleJob EXCEPT !.pc = "log",
                                   !.rows = Cardinality(job[j].staged)]]
  /\ UNCHANGED <<queue, logged, faults, decided>>

\* persist_job_log, a transaction of its own, after the commit.
JobLog(j) ==
  /\ job[j].pc = "log"
  /\ logged' = logged + job[j].rows
  /\ job' = [job EXCEPT ![j] = IdleJob]
  /\ UNCHANGED <<row, events, queue, faults, decided>>

\* PostgreSQL aborts a transaction of a circle of waits; the handler rolls back
\* and logs a failure.
WaitsFor(j, k) == Waiting(j) \cap job[k].held # {}

\* A run waits in one queue at most, and there once.
Place(j, i) == CHOOSE n \in DOMAIN queue[i] : queue[i][n] = j

GivesUp(j) ==
  /\ job' = [job EXCEPT ![j] = IdleJob]
  /\ queue' = [i \in Inspections |->
       IF i \in Waiting(j) THEN RemoveAt(queue[i], Place(j, i)) ELSE queue[i]]

\* Mutant: the failure is logged with the rows counted so far, as a success.
JobDeadlockedCounted(j) ==
  /\ \E k \in Jobs : WaitsFor(j, k) /\ WaitsFor(k, j)
  /\ GivesUp(j)
  /\ logged' = logged + Cardinality(job[j].staged)
  /\ UNCHANGED <<row, events, faults, decided>>

JobDeadlocked(j) ==
  /\ \E S \in SUBSET Jobs :
       /\ j \in S
       /\ \A k \in S : /\ \E m \in S : WaitsFor(k, m)
                       /\ \E m \in S : WaitsFor(m, k)
  /\ GivesUp(j)
  /\ UNCHANGED <<row, events, logged, faults, decided>>

\* Any other exception, or the death of the process: the transaction is lost,
\* and with it the log when the run had committed. Celery delivers the task of
\* a lost worker again: the run starts over, as JobSelect allows.
JobFails(j) ==
  /\ job[j].pc # "idle"
  /\ faults < MaxFaults
  /\ faults' = faults + 1
  /\ GivesUp(j)
  /\ UNCHANGED <<row, events, logged, decided>>

\* Time passes AUTO_APPROVE_INSPECTION_HOURS.
GrowOld(i) ==
  /\ ~row[i].aged
  /\ row' = [row EXCEPT ![i].aged = TRUE]
  /\ UNCHANGED <<events, job, queue, logged, faults, decided>>

-----------------------------------------------------------------------------
JobStep(j) ==
  \/ JobLock(j) \/ JobWait(j) \/ JobGranted(j) \/ JobCommit(j) \/ JobLog(j)
  \/ JobDeadlocked(j)

Next ==
  \/ \E l \in Leads, i \in Inspections, s \in Statuses, c \in BOOLEAN :
       LeadDecides(l, i, s, c)
  \/ \E i \in Inspections : Deactivate(i) \/ GrowOld(i)
  \/ \E j \in Jobs : JobSelect(j) \/ JobStep(j) \/ JobFails(j)

Spec == Init /\ [][Next]_vars

\* Beat starts the job for ever, and a run that started goes on. Nobody has to
\* decide, and the job need not fail.
FairSpec == Spec /\ \A j \in Jobs : WF_vars(JobSelect(j)) /\ WF_vars(JobStep(j))

-----------------------------------------------------------------------------
(* Properties *)

\* The events of an inspection are a chain from IN_REVIEW to its status, and its
\* columns tell of the last one: who decided, whether it is under review and
\* whether it has a review date. No decision is lost or recorded twice when
\* leads and overlapping runs of the job decide on the same inspection.
HistoryExplainsRow ==
  \A i \in Inspections :
    LET h == events[i] IN
    /\ \A n \in 1..Len(h) :
         h[n].from = IF n = 1 THEN "IN_REVIEW" ELSE h[n - 1].to
    /\ row[i].status = IF h = <<>> THEN "IN_REVIEW" ELSE h[Len(h)].to
    /\ row[i].reviewer = IF h = <<>> THEN Nobody ELSE h[Len(h)].actor
    /\ row[i].is_under_review <=> Open(i)
    /\ row[i].reviewed <=> ~Open(i)

ApprovalsByJob ==
  UNION {{<<i, n>> : n \in {m \in DOMAIN events[i] : events[i][m].actor = JobActor}} :
           i \in Inspections}

\* The job log never counts an approval that was rolled back, nor one twice.
LogCountsApprovals == logged <= Cardinality(ApprovalsByJob)

\* A decision of the ledger is what an event says of its outcome and its actor.
Ledger == INSTANCE ReviewLedger WITH
  People <- Leads,
  System <- JobActor,
  ledger <- [i \in Inspections |->
               [n \in 1..Len(events[i]) |->
                  [to |-> events[i][n].to, by |-> events[i][n].actor]]]

\* The decisions are those of ReviewLedger: one at a time by a lead, a batch of
\* open inspections at once by the job.
ImplementsLedger == Ledger!Spec

=============================================================================
