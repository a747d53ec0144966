----------------------------- MODULE TaskQueue -----------------------------
(***************************************************************************)
(* Background tasks (api/mod/tasks): a row in PostgreSQL for each task, a  *)
(* Celery message that names it, and worker processes that execute it.     *)
(*                                                                         *)
(* The row and the message are kept in two stores without a common         *)
(* transaction.  Messages are acknowledged after execution (task_acks_late *)
(* and task_reject_on_worker_lost), so a worker that dies has its message  *)
(* delivered again: to itself, or to another process while the retry that  *)
(* it had already published is executed by a third.                        *)
(***************************************************************************)
EXTENDS Naturals, Functions

CONSTANTS
  Tasks,
  Workers,        \* worker processes
  MaxAttempts,    \* tasks.max_attempts
  MaxFaults,      \* bound: crashes, breaks and losses
  Losses          \* TRUE: and some of them lose a message or a retry

ASSUME QueueAssumption ==
  /\ MaxAttempts \in Nat \ {0}
  /\ MaxFaults \in Nat
  /\ Losses \in BOOLEAN

VARIABLES
  row,       \* tasks: status and attempts
  sending,   \* tasks whose row is committed and whose message is to be sent
  ready,     \* the broker: messages per task and number of Celery retries
  worker,    \* what each process is executing
  effects,   \* how often the handler did its work: an email sent
  faults     \* faults each task's deliveries have met

vars == <<row, sending, ready, worker, effects, faults>>

-----------------------------------------------------------------------------
Retries == 0..MaxAttempts - 1

Status == {"queued", "processing", "retrying", "completed", "failed"}
Row == [status : Status, attempts : Nat]
NoRow == [status |-> "none", attempts |-> 0]

Pcs == {"load", "mark", "handle", "complete", "except", "retrying", "publish",
        "failed", "ack"}

\* seen: the row as the session has it; "expired" once a commit has expired it.
Execution == [pc : Pcs, task : Tasks, retries : Retries,
              seen : [status : Status \cup {"expired"}, attempts : Nat]]
Idle == [pc |-> "idle"]

\* Type invariant: rows, messages and executions stay what they are.
TypeOK ==
  /\ row \in [Tasks -> Row \cup {NoRow}]
  /\ sending \subseteq Tasks
  /\ ready \in [Tasks -> [Retries -> Nat]]
  /\ worker \in [Workers -> Execution \cup {Idle}]
  /\ effects \in [Tasks -> Nat]
  /\ faults \in [Tasks -> Nat]

Init ==
  /\ row = [t \in Tasks |-> NoRow]
  /\ sending = {}
  /\ ready = [t \in Tasks |-> [k \in Retries |-> 0]]
  /\ worker = [p \in Workers |-> Idle]
  /\ effects = [t \in Tasks |-> 0]
  /\ faults = [t \in Tasks |-> 0]

Fault(t) ==
  /\ FoldFunction(+, 0, faults) < MaxFaults
  /\ faults' = [faults EXCEPT ![t] = @ + 1]

-----------------------------------------------------------------------------
(* Enqueue *)

\* Mutant: a new row has Celery's name for the state of a sent message.
CreatePending(t) ==
  /\ row[t] = NoRow
  /\ row' = [row EXCEPT ![t] = [status |-> "pending", attempts |-> 0]]
  /\ sending' = sending \cup {t}
  /\ UNCHANGED <<ready, worker, effects, faults>>

\* create_task_record commits the row.
Create(t) ==
  /\ row[t] = NoRow
  /\ row' = [row EXCEPT ![t] = [status |-> "queued", attempts |-> 0]]
  /\ sending' = sending \cup {t}
  /\ UNCHANGED <<ready, worker, effects, faults>>

\* dispatch_task sends the message.
Dispatch(t) ==
  /\ t \in sending
  /\ sending' = sending \ {t}
  /\ ready' = [ready EXCEPT ![t][0] = @ + 1]
  /\ UNCHANGED <<row, worker, effects, faults>>

\* The broker is away, or the API process dies: the row stays queued.
DispatchFails(t) ==
  /\ Losses
  /\ t \in sending
  /\ Fault(t)
  /\ sending' = sending \ {t}
  /\ UNCHANGED <<row, ready, worker, effects>>

-----------------------------------------------------------------------------
(* execute_task *)

At(p, pc) == worker[p].pc = pc
Goto(p, pc) == worker' = [worker EXCEPT ![p].pc = pc]
Sees(p, pc, seen) == worker' = [worker EXCEPT ![p].pc = pc, ![p].seen = seen]

\* An assignment to an attribute that has its value already is not written.
Assign(t, seen, status) ==
  row' = [row EXCEPT ![t].status = IF seen.status = status THEN @ ELSE status]

\* The broker hands out a message.
Take(p, t, k) ==
  /\ worker[p] = Idle
  /\ ready[t][k] > 0
  /\ ready' = [ready EXCEPT ![t][k] = @ - 1]
  /\ worker' = [worker EXCEPT ![p] = [pc |-> "load", task |-> t, retries |-> k,
                                      seen |-> [status |-> "expired", attempts |-> 0]]]
  /\ UNCHANGED <<row, sending, effects, faults>>

\* load_task_by_uuid: no lock, and no look at the status.
Load(p) ==
  /\ At(p, "load")
  /\ Sees(p, "mark", row[worker[p].task])
  /\ UNCHANGED <<row, sending, ready, effects, faults>>

\* mark_task_processing counts on from what was read.
MarkProcessing(p) ==
  LET t == worker[p].task
      seen == worker[p].seen
  IN
  /\ At(p, "mark")
  /\ row' = [row EXCEPT
       ![t].status = IF seen.status = "processing" THEN @ ELSE "processing",
       ![t].attempts = seen.attempts + 1]
  /\ Goto(p, "handle")
  /\ UNCHANGED <<sending, ready, effects, faults>>

\* The handler does its work. Its commits expire the row; send_email reads it again.
Handle(p) ==
  LET t == worker[p].task IN
  /\ At(p, "handle")
  /\ effects' = [effects EXCEPT ![t] = @ + 1]
  /\ \/ Sees(p, "complete", row[t])
     \/ Sees(p, "complete", [status |-> "expired", attempts |-> 0])
  /\ UNCHANGED <<row, sending, ready, faults>>

\* Mutant: a handler that raises after it has sent the email.
HandleFailsLate(p) ==
  /\ At(p, "handle")
  /\ effects' = [effects EXCEPT ![worker[p].task] = @ + 1]
  /\ Goto(p, "except")
  /\ UNCHANGED <<row, sending, ready, faults>>

\* The handler raises before it has done anything: the mail server refuses.
HandleFails(p) ==
  /\ At(p, "handle")
  /\ Goto(p, "except")
  /\ UNCHANGED <<row, sending, ready, effects, faults>>

MarkCompleted(p) ==
  /\ At(p, "complete")
  /\ Assign(worker[p].task, worker[p].seen, "completed")
  /\ Goto(p, "ack")
  /\ UNCHANGED <<sending, ready, effects, faults>>

\* A statement or a commit fails, or the soft time limit strikes, after the
\* handler's work included.
Breaks(p) ==
  /\ At(p, "load") \/ At(p, "mark") \/ At(p, "complete")
  /\ Fault(worker[p].task)
  /\ Goto(p, "except")
  /\ UNCHANGED <<row, sending, ready, effects>>

\* Mutant: one attempt more than the row allows.
should_retry_task_once_more(r) == r.attempts <= MaxAttempts

should_retry_task(r) == r.attempts < MaxAttempts

\* The except block rolls back and reads the row afresh.
Except(p) ==
  LET r == row[worker[p].task] IN
  /\ At(p, "except")
  /\ Sees(p, IF should_retry_task(r) THEN "retrying" ELSE "failed", r)
  /\ UNCHANGED <<row, sending, ready, effects, faults>>

\* Mutant: the attempt is counted when it starts and when it fails.
MarkRetryingCounts(p) ==
  LET t == worker[p].task IN
  /\ At(p, "retrying")
  /\ row' = [row EXCEPT ![t] = [status |-> "retrying",
                               attempts |-> worker[p].seen.attempts + 1]]
  /\ Goto(p, "publish")
  /\ UNCHANGED <<sending, ready, effects, faults>>

MarkRetrying(p) ==
  /\ At(p, "retrying")
  /\ Assign(worker[p].task, worker[p].seen, "retrying")
  /\ Goto(p, "publish")
  /\ UNCHANGED <<sending, ready, effects, faults>>

\* self.retry publishes the message with Celery's own count plus one, unless
\* that is beyond max_retries = max_attempts - 1.
Retry(p) ==
  LET t == worker[p].task
      k == worker[p].retries + 1
  IN
  /\ At(p, "publish")
  /\ ready' = IF k \in Retries THEN [ready EXCEPT ![t][k] = @ + 1] ELSE ready
  /\ Goto(p, "ack")
  /\ UNCHANGED <<row, sending, effects, faults>>

MarkFailed(p) ==
  /\ At(p, "failed")
  /\ Assign(worker[p].task, worker[p].seen, "failed")
  /\ Goto(p, "ack")
  /\ UNCHANGED <<sending, ready, effects, faults>>

\* task_acks_late: whatever came of it, the message is acknowledged now.
Ack(p) ==
  /\ At(p, "ack")
  /\ worker' = [worker EXCEPT ![p] = Idle]
  /\ UNCHANGED <<row, sending, ready, effects, faults>>

\* The process dies and its message is delivered again.
Crash(p) ==
  LET t == worker[p].task
      k == worker[p].retries
  IN
  /\ worker[p] # Idle
  /\ Fault(t)
  /\ ready' = [ready EXCEPT ![t][k] = @ + 1]
  /\ worker' = [worker EXCEPT ![p] = Idle]
  /\ UNCHANGED <<row, sending, effects>>

\* The hard time limit kills the process and acknowledges its message, or the
\* except block itself fails.
Lose(p) ==
  /\ Losses
  /\ worker[p] # Idle /\ ~At(p, "ack")
  /\ Fault(worker[p].task)
  /\ worker' = [worker EXCEPT ![p] = Idle]
  /\ UNCHANGED <<row, sending, ready, effects>>

-----------------------------------------------------------------------------
Step(p) ==
  \/ Load(p) \/ MarkProcessing(p) \/ Handle(p) \/ HandleFails(p)
  \/ MarkCompleted(p) \/ Except(p) \/ MarkRetrying(p) \/ Retry(p)
  \/ MarkFailed(p) \/ Ack(p)

TakeAny(p) == \E t \in Tasks, k \in Retries : Take(p, t, k)

Next ==
  \/ \E t \in Tasks : Create(t) \/ Dispatch(t) \/ DispatchFails(t)
  \/ \E p \in Workers :
       TakeAny(p) \/ Step(p) \/ Breaks(p) \/ Crash(p) \/ Lose(p)

Spec == Init /\ [][Next]_vars

\* Messages are sent, workers take messages and get on with what they execute.
FairSpec ==
  /\ Spec
  /\ \A t \in Tasks : WF_vars(Dispatch(t))
  /\ \A p \in Workers : WF_vars(TakeAny(p)) /\ WF_vars(Step(p))

-----------------------------------------------------------------------------
(* Properties *)

Executing(t) == {p \in Workers : worker[p] # Idle /\ worker[p].task = t}

\* Deliveries under way: messages waiting, being executed, or about to be sent.
InFlight(t) ==
  \/ t \in sending
  \/ \E k \in Retries : ready[t][k] > 0
  \/ Executing(t) # {}

Ended(t) == row[t].status \in {"completed", "failed"}

\* An email is sent once, and once more at most for every delivery of its task
\* that a crash or a failed statement cut short (worker.py has no guard against
\* doing a delivered message's work again): attempts that fail, and retries, add
\* none.
WorkDoneOncePerFault == \A t \in Tasks : effects[t] <= 1 + faults[t]

\* "Retryable tasks retry up to max_attempts": without a fault the row counts no
\* attempt beyond it, and one more after one fault. From the second fault on, an
\* execution may count on from attempts it read long ago and set the row back, so
\* that the others retry once more: what bounds them then is Celery's own count, in
\* each of the deliveries that the faults repeated.
AttemptsExplained ==
  \A t \in Tasks :
    row[t].attempts <= IF faults[t] <= 1 THEN MaxAttempts + faults[t]
                       ELSE MaxAttempts * (1 + faults[t])

\* "Mark failed permanently when retries are exhausted": a row is not left
\* unended when nothing is under way that could end it.
ExhaustedMeansEnded ==
  \A t \in Tasks : (row[t] # NoRow /\ ~Ended(t)) => InFlight(t)

\* Every task whose own deliveries meet no fault ends, completed or failed, and
\* stays as it ended, whatever becomes of the other tasks and of the processes
\* that execute them.
TasksEnd ==
  \A t \in Tasks :
    (row[t] # NoRow) ~>
      (faults[t] > 0 \/ \E s \in {"completed", "failed"} : [](row[t].status = s))
=============================================================================
