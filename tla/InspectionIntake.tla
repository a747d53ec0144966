-------------------------- MODULE InspectionIntake --------------------------
(***************************************************************************)
(* Starting an inspection: the barcode locks of `barcode_locks`, the       *)
(* product units and the inspections they guard, as the handlers of        *)
(* api/mod/api/inspection/helper.py read and write them.                   *)
(*                                                                         *)
(* A handler runs inside one PostgreSQL transaction at READ COMMITTED and  *)
(* occupies the event loop of one API process ("worker") from its first    *)
(* statement to its return: the route functions are synchronous and are    *)
(* called directly by the async decorators, so a process runs one of them  *)
(* at a time, and several processes run (uvicorn --workers).  A handler    *)
(* that commits or rolls back leaves nothing behind.  One that only raises *)
(* leaves its transaction open until get_db closes the session, which the  *)
(* loop hands to a thread after it may have run another handler: such      *)
(* sessions are the rows of `unclosed`.  Each action below is one SQL      *)
(* statement, or a run of statements between which no other transaction    *)
(* can come, because the row they share is locked.                         *)
(*                                                                         *)
(* What a transaction has written and not committed is part of req[w]; a   *)
(* rollback is therefore the loss of req[w] and nothing else.              *)
(***************************************************************************)
EXTENDS Naturals, FiniteSets

CONSTANTS
  Users,            \* operators holding ROLES_INSPECTION
  Workers,          \* API processes
  Units,            \* product unit barcodes (16 characters in the code)
  Directions,       \* InspectionType: inbound, outbound
  MaxAttempts,      \* MAX_BARCODE_LOCK_ACQUIRE_ATTEMPTS
  MaxRequests,      \* bound: requests ever started
  SerialClients,    \* TRUE: a user has at most one request in flight
  TtlCoversCreate   \* TRUE: a lock does not expire under its holder's create

ASSUME ConstantsAssumption ==
  /\ MaxAttempts \in Nat \ {0}
  /\ MaxRequests \in Nat
  /\ SerialClients \in BOOLEAN
  /\ TtlCoversCreate \in BOOLEAN

VARIABLES
  locks,        \* committed rows of barcode_locks
  expired,      \* ids of the rows whose locked_at is older than BARCODE_LOCK_TTL
  units,        \* barcodes with a committed product_units row
  inspections,  \* committed rows of inspections
  notices,      \* ids of inspections whose reviewers were notified
  req,          \* what each worker's event loop is running
  unclosed,     \* sessions of refused acquires that still lock a row
  nextId,       \* the id sequences of the tables (never rolled back)
  started       \* requests started so far

vars == <<locks, expired, units, inspections, notices, req, unclosed, nextId,
          started>>

-----------------------------------------------------------------------------
(* Rows and requests. *)

Keys == Units \X Directions
UnitOf(k) == k[1]

LockRow == [id : Nat \ {0}, key : Keys, user : Users]
InspectionRow == [id : Nat \ {0}, key : Keys, inspector : Users, active : BOOLEAN]

AcquirePcs == {"acquireCheck", "acquireRead", "acquireInsert", "acquireCommit"}
ReleasePcs == {"releaseRead", "releaseDelete"}
CreatePcs == {"createLock", "createExpired", "createRefused", "createExisting",
              "createUnit", "createInsert", "createCommit", "createNotify"}

NoId == 0

\* seen: id of the lock row the handler has read and means to delete;
\* del:  id of the lock row the transaction has deleted and not committed;
\* new:  id of the row the transaction has inserted and not committed.
Request == [pc : AcquirePcs \cup ReleasePcs \cup CreatePcs,
            user : Users, key : Keys, tries : Nat,
            seen : Nat, del : Nat, new : Nat, newUnit : BOOLEAN]

Idle == [pc |-> "idle"]

\* A refused acquire: its process, its user, and the lock row it holds FOR UPDATE.
Session == [worker : Workers, user : Users, row : Nat]

NewRequest(first, u, k) ==
  [pc |-> first, user |-> u, key |-> k, tries |-> 0,
   seen |-> NoId, del |-> NoId, new |-> NoId, newUnit |-> FALSE]

\* Type invariant: the rows, requests and counters keep their shape through every
\* handler, crash and rollback; the ids that rows are known by are numbers.
TypeOK ==
  /\ locks \subseteq LockRow
  /\ expired \subseteq Nat
  /\ units \subseteq Units
  /\ inspections \subseteq InspectionRow
  /\ notices \subseteq Nat
  /\ req \in [Workers -> Request \cup {Idle}]
  /\ unclosed \subseteq Session
  /\ nextId \in Nat \ {0}
  /\ started \in Nat

-----------------------------------------------------------------------------
(* What a statement sees, and whom it waits for. *)

LocksOn(k) == {r \in locks : r.key = k}
Expired(r) == r.id \in expired
ActiveOn(k) == {i \in inspections : i.key = k /\ i.active}

At(w, pc) == req[w].pc = pc

\* Another transaction has deleted row id and not committed.
DeletedByOther(w, id) ==
  \E v \in Workers \ {w} : req[v] # Idle /\ req[v].del = id /\ id # NoId

\* Another transaction holds the row lock, having deleted the row or having read
\* it FOR UPDATE: SELECT ... FOR UPDATE and DELETE wait for it. An INSERT of the
\* same key waits for a delete only; a row merely locked is a conflict at once.
LockedByOther(w, id) ==
  \/ DeletedByOther(w, id)
  \/ \E s \in unclosed : s.row = id

\* Another transaction has inserted a lock row on key k and not committed: an
\* INSERT on the same unique key waits for its outcome.
InsertedByOther(w, k) ==
  \E v \in Workers \ {w} : At(v, "acquireCommit") /\ req[v].key = k

\* The same for the unique barcode of product_units.
UnitInsertedByOther(w, u) ==
  \E v \in Workers \ {w} :
    req[v] # Idle /\ req[v].newUnit /\ UnitOf(req[v].key) = u

Becomes(w, q) == req' = [req EXCEPT ![w] = q]
Goto(w, pc) == Becomes(w, [req[w] EXCEPT !.pc = pc])
Finish(w) == Becomes(w, Idle)

-----------------------------------------------------------------------------
Init ==
  /\ locks = {}
  /\ expired = {}
  /\ units \in SUBSET Units
  /\ inspections = {}
  /\ notices = {}
  /\ req = [w \in Workers |-> Idle]
  /\ unclosed = {}
  /\ nextId = 1
  /\ started = 0

Start(w, first, u, k) ==
  /\ req[w] = Idle
  /\ started < MaxRequests
  /\ SerialClients =>
       /\ \A v \in Workers : req[v] # Idle => req[v].user # u
       /\ \A s \in unclosed : s.user # u   \* the 409 follows the close
  /\ Becomes(w, NewRequest(first, u, k))
  /\ started' = started + 1
  /\ UNCHANGED <<locks, expired, units, inspections, notices, unclosed, nextId>>

StartAcquire(w, u, k) == Start(w, "acquireCheck", u, k)
StartRelease(w, u, k) == Start(w, "releaseRead", u, k)
StartCreate(w, u, k) == Start(w, "createLock", u, k)

-----------------------------------------------------------------------------
(* POST /inspections/barcode-lock *)

Unclosed(w, r) == [worker |-> w, user |-> req[w].user, row |-> r.id]

\* 409 when an active inspection exists; checked once, before the loop.
AcquireCheck(w) ==
  /\ At(w, "acquireCheck")
  /\ \/ ActiveOn(req[w].key) # {} /\ Finish(w)
     \/ ActiveOn(req[w].key) = {} /\ Goto(w, "acquireRead")
  /\ UNCHANGED <<locks, expired, units, inspections, notices, unclosed, nextId,
                 started>>

\* SELECT ... FOR UPDATE, and the DELETE of an expired row under that lock.
\* The caller's own live row is returned as it is (locked_at is not renewed) and
\* the route commits. Another's is refused with 409, the row still locked.
AcquireRead(w) ==
  /\ At(w, "acquireRead")
  /\ \A r \in LocksOn(req[w].key) : ~LockedByOther(w, r.id)
  /\ \/ /\ LocksOn(req[w].key) = {}
        /\ Goto(w, "acquireInsert")
        /\ UNCHANGED unclosed
     \/ \E r \in LocksOn(req[w].key) :
          \/ /\ Expired(r)
             /\ Becomes(w, [req[w] EXCEPT !.pc = "acquireInsert", !.del = r.id])
             /\ UNCHANGED unclosed
          \/ /\ ~Expired(r)
             /\ Finish(w)
             /\ unclosed' = IF r.user = req[w].user THEN unclosed
                            ELSE unclosed \cup {Unclosed(w, r)}
  /\ UNCHANGED <<locks, expired, units, inspections, notices, nextId, started>>

\* get_db closes the session of a refused acquire, which rolls its transaction
\* back. The loop of the process hands the close to a thread; while the loop
\* runs another handler it hands nothing over.
CloseSession(s) ==
  /\ s \in unclosed
  /\ req[s.worker] = Idle
  /\ unclosed' = unclosed \ {s}
  /\ UNCHANGED <<locks, expired, units, inspections, notices, req, nextId,
                 started>>

\* The unique key (barcode, inspection_type) refuses a second row.
Conflicting(w) ==
  \E r \in LocksOn(req[w].key) : r.id # req[w].del

\* Mutant: the expired row is deleted on a connection of its own.
InsertBlockedByItself(w) ==
  \/ InsertedByOther(w, req[w].key)
  \/ \E r \in LocksOn(req[w].key), v \in Workers :
       req[v] # Idle /\ req[v].del = r.id

\* INSERT waits for every transaction that could still decide its conflict.
InsertBlocked(w) ==
  \/ InsertedByOther(w, req[w].key)
  \/ \E r \in LocksOn(req[w].key) : DeletedByOther(w, r.id)

AcquireInsert(w) ==
  /\ At(w, "acquireInsert")
  /\ ~InsertBlocked(w)
  /\ ~Conflicting(w)
  /\ Becomes(w, [req[w] EXCEPT !.pc = "acquireCommit", !.new = nextId])
  /\ nextId' = nextId + 1
  /\ UNCHANGED <<locks, expired, units, inspections, notices, unclosed,
                 started>>

\* IntegrityError: read again, or give up with 409. A flush that fails takes its
\* pending objects out of the session, so db.expunge may raise: 422, at once.
AcquireConflict(w) ==
  /\ At(w, "acquireInsert")
  /\ ~InsertBlocked(w)
  /\ Conflicting(w)
  /\ \/ /\ req[w].tries + 1 < MaxAttempts
        /\ Becomes(w, [req[w] EXCEPT !.pc = "acquireRead",
                                    !.tries = req[w].tries + 1])
     \/ Finish(w)
  /\ UNCHANGED <<locks, expired, units, inspections, notices, unclosed, nextId,
                 started>>

\* Mutant: the row takes the id the handler read, not its own.
NewLockIdRead(w) == [id |-> req[w].del, key |-> req[w].key, user |-> req[w].user]

NewLock(w) == [id |-> req[w].new, key |-> req[w].key, user |-> req[w].user]

\* A SELECT ... FOR UPDATE that waited for the deleted row finds no row once
\* this commits (its snapshot is older than the new one) and goes on to INSERT.
Awaiting(w) ==
  {v \in Workers : At(v, "acquireRead") /\ req[v].key = req[w].key
                    /\ req[w].del # NoId}

AcquireCommit(w) ==
  /\ At(w, "acquireCommit")
  /\ locks' = {r \in locks : r.id # req[w].del} \cup {NewLock(w)}
  /\ \E W \in SUBSET Awaiting(w) :
       req' = [v \in Workers |->
                 IF v = w THEN Idle
                 ELSE IF v \in W THEN [req[v] EXCEPT !.pc = "acquireInsert"]
                 ELSE req[v]]
  /\ UNCHANGED <<expired, units, inspections, notices, unclosed, nextId,
                 started>>

-----------------------------------------------------------------------------
(* POST /inspections/barcode-lock/release *)

\* The row a plain SELECT finds, when the caller may remove it: an expired row
\* may be removed by anyone, a live one only by its user.
MayDelete(w) ==
  {r \in LocksOn(req[w].key) : Expired(r) \/ r.user = req[w].user}

ReleaseRead(w) ==
  /\ At(w, "releaseRead")
  /\ \/ /\ MayDelete(w) = {}      \* no row, or another's: 403
        /\ Finish(w)
     \/ \E r \in MayDelete(w) :
          Becomes(w, [req[w] EXCEPT !.pc = "releaseDelete", !.seen = r.id])
  /\ UNCHANGED <<locks, expired, units, inspections, notices, unclosed, nextId,
                 started>>

\* Mutant: DELETE ... WHERE barcode = ... AND inspection_type = ...
DeleteByKey(w) == locks' = {r \in locks : r.key # req[w].key}

\* DELETE ... WHERE id = <the id read>, flushed by the commit: it waits for the
\* row lock and matches nothing when the row has been replaced meanwhile.
DeleteSeen(w) == locks' = {r \in locks : r.id # req[w].seen}

ReleaseDelete(w) ==
  /\ At(w, "releaseDelete")
  /\ ~LockedByOther(w, req[w].seen)
  /\ DeleteSeen(w)
  /\ Finish(w)
  /\ UNCHANGED <<expired, units, inspections, notices, unclosed, nextId,
                 started>>

-----------------------------------------------------------------------------
(* POST /inspections/inbound and /inspections/outbound *)

\* Mutant: any live lock on the unit will do.
HoldsAnyLock(w) == \E r \in LocksOn(req[w].key) : ~Expired(r)

\* ensure_inspection_barcode_lock_held: a plain SELECT, no row lock.
HoldsLock(w) ==
  \E r \in LocksOn(req[w].key) : ~Expired(r) /\ r.user = req[w].user

CreateLock(w) ==
  /\ At(w, "createLock")
  /\ \/ HoldsLock(w) /\ Goto(w, "createExisting")
     \/ \E r \in LocksOn(req[w].key) :
          /\ Expired(r)
          /\ Becomes(w, [req[w] EXCEPT !.pc = "createExpired", !.seen = r.id])
     \/ /\ ~HoldsLock(w)
        /\ \A r \in LocksOn(req[w].key) : ~Expired(r)
        /\ Finish(w)
  /\ UNCHANGED <<locks, expired, units, inspections, notices, unclosed, nextId,
                 started>>

\* The expired row is deleted and flushed, which waits for its row lock and may
\* find the row gone; 409 follows either way.
CreateExpired(w) ==
  /\ At(w, "createExpired")
  /\ ~LockedByOther(w, req[w].seen)
  /\ \/ /\ \E r \in locks : r.id = req[w].seen
        /\ Becomes(w, [req[w] EXCEPT !.pc = "createRefused", !.del = req[w].seen])
     \/ /\ \A r \in locks : r.id # req[w].seen
        /\ Goto(w, "createRefused")
  /\ UNCHANGED <<locks, expired, units, inspections, notices, unclosed, nextId,
                 started>>

\* create_inspection rolls back before it lets the 409 out: the row is back.
CreateRefused(w) ==
  /\ At(w, "createRefused")
  /\ Finish(w)
  /\ UNCHANGED <<locks, expired, units, inspections, notices, unclosed, nextId,
                 started>>

CreateExisting(w) ==
  /\ At(w, "createExisting")
  /\ \/ ActiveOn(req[w].key) # {} /\ Finish(w)
     \/ ActiveOn(req[w].key) = {} /\ Goto(w, "createUnit")
  /\ UNCHANGED <<locks, expired, units, inspections, notices, unclosed, nextId,
                 started>>

\* get_or_create_product_unit_for_barcode. SELECT and INSERT are one action: an
\* INSERT that comes too late ends in the IntegrityError of the second disjunct,
\* which create_inspection does not catch, and the transaction is rolled back.
CreateUnit(w) ==
  LET u == UnitOf(req[w].key) IN
  /\ At(w, "createUnit")
  /\ \/ /\ u \in units
        /\ Goto(w, "createInsert")
     \/ /\ u \in units
        /\ Finish(w)
     \/ /\ u \notin units
        /\ ~UnitInsertedByOther(w, u)
        /\ Becomes(w, [req[w] EXCEPT !.pc = "createInsert", !.newUnit = TRUE])
  /\ UNCHANGED <<locks, expired, units, inspections, notices, unclosed, nextId,
                 started>>

\* Product, device, warehouse, distance, plant or checklist answers refused.
CreateReject(w) ==
  /\ At(w, "createUnit") \/ At(w, "createInsert")
  /\ Finish(w)
  /\ UNCHANGED <<locks, expired, units, inspections, notices, unclosed, nextId,
                 started>>

\* Mutant: the reviewers are told before the commit.
CreateInsertAndNotify(w) ==
  /\ At(w, "createInsert")
  /\ Becomes(w, [req[w] EXCEPT !.pc = "createCommit", !.new = nextId])
  /\ notices' = notices \cup {nextId}
  /\ nextId' = nextId + 1
  /\ UNCHANGED <<locks, expired, units, inspections, unclosed, started>>

\* INSERT of the inspection and its answers, then the SELECT of
\* delete_inspection_barcode_lock_if_holder, which picks the row to delete.
CreateInsert(w) ==
  /\ At(w, "createInsert")
  /\ \E id \in {r.id : r \in MayDelete(w)} \cup {NoId} :
       /\ id = NoId <=> MayDelete(w) = {}
       /\ Becomes(w, [req[w] EXCEPT !.pc = "createCommit", !.seen = id,
                                   !.new = nextId])
  /\ nextId' = nextId + 1
  /\ UNCHANGED <<locks, expired, units, inspections, notices, unclosed,
                 started>>

NewInspection(w) ==
  [id |-> req[w].new, key |-> req[w].key, inspector |-> req[w].user,
   active |-> TRUE]

CreateCommit(w) ==
  /\ At(w, "createCommit")
  /\ ~LockedByOther(w, req[w].seen)
  /\ DeleteSeen(w)
  /\ inspections' = inspections \cup {NewInspection(w)}
  /\ units' = units \cup {UnitOf(req[w].key)}
  /\ Becomes(w, [req[w] EXCEPT !.pc = "createNotify", !.newUnit = FALSE])
  /\ UNCHANGED <<expired, notices, unclosed, nextId, started>>

\* schedule_inspection_review_manager_notifications runs after the commit; when
\* it fails the client gets an error for an inspection that exists.
CreateNotify(w) ==
  /\ At(w, "createNotify")
  /\ notices' = notices \cup {req[w].new} \/ notices' = notices
  /\ Finish(w)
  /\ UNCHANGED <<locks, expired, units, inspections, unclosed, nextId, started>>

-----------------------------------------------------------------------------
(* The environment of the requests. *)

\* DELETE /inspections/{uuid}: one locked read-modify-write of is_active.
Deactivate ==
  /\ \E i \in inspections :
       /\ i.active
       /\ inspections' = (inspections \ {i}) \cup {[i EXCEPT !.active = FALSE]}
  /\ UNCHANGED <<locks, expired, units, notices, req, unclosed, nextId,
                 started>>

\* Time passes: a committed row gets older than BARCODE_LOCK_TTL.
Expire ==
  /\ \E r \in locks :
       /\ ~Expired(r)
       /\ TtlCoversCreate =>
            \A w \in Workers :
              (req[w].pc \in CreatePcs /\ req[w].key = r.key)
                => req[w].user # r.user
       /\ expired' = expired \cup {r.id}
  /\ UNCHANGED <<locks, units, inspections, notices, req, unclosed, nextId,
                 started>>

\* The process dies; PostgreSQL rolls its transactions back.
Crash(w) ==
  /\ req[w] # Idle \/ \E s \in unclosed : s.worker = w
  /\ Finish(w)
  /\ unclosed' = {s \in unclosed : s.worker # w}
  /\ UNCHANGED <<locks, expired, units, inspections, notices, nextId, started>>

-----------------------------------------------------------------------------
Step(w) ==
  \/ AcquireCheck(w) \/ AcquireRead(w) \/ AcquireInsert(w)
  \/ AcquireConflict(w) \/ AcquireCommit(w)
  \/ ReleaseRead(w) \/ ReleaseDelete(w)
  \/ CreateLock(w) \/ CreateExpired(w) \/ CreateRefused(w) \/ CreateExisting(w)
  \/ CreateUnit(w) \/ CreateReject(w) \/ CreateInsert(w) \/ CreateCommit(w)
  \/ CreateNotify(w)

Next ==
  \/ \E w \in Workers, u \in Users, k \in Keys :
       StartAcquire(w, u, k) \/ StartRelease(w, u, k) \/ StartCreate(w, u, k)
  \/ \E w \in Workers : Step(w) \/ Crash(w)
  \/ \E s \in unclosed : CloseSession(s)
  \/ Deactivate
  \/ Expire

Spec == Init /\ [][Next]_vars

\* A process that runs a handler keeps running it, an idle loop gets to the
\* sessions it has to close, and PostgreSQL hands a released row lock to a
\* waiting transaction. Starting requests, crashes, expiry and deactivation are
\* not fair: they need not happen.
FairSpec ==
  /\ Spec
  /\ \A w \in Workers :
       /\ WF_vars(Step(w))
       /\ WF_vars(\E s \in unclosed : s.worker = w /\ CloseSession(s))

-----------------------------------------------------------------------------
(* Properties *)

\* At most one active inspection per unit and direction: the rule that
\* active_inspection_for_barcode_and_inspection_type is there to enforce
\* ("already exists for this product unit"). It rests on the lock being held
\* from the first check to the commit, which needs serial clients and a TTL
\* that outlasts the handler.
AtMostOneActive ==
  \A i, j \in inspections : (i.active /\ j.active /\ i.key = j.key) => i = j

UserSteps(u) ==
  \E w \in Workers : req[w] # Idle /\ req'[w] # req[w] /\ req[w].user = u

\* A live lock disappears only by a step of a request of its own user: neither
\* a release nor a create nor a take-over of an expired lock, decided on a row
\* read earlier, removes the lock another user has taken in the meantime.
LiveLockLeavesWithItsUser ==
  [][\A r \in locks :
       (r \notin locks' /\ ~Expired(r)) => UserSteps(r.user)]_vars

\* The lock rows whose row lock the next statement of a handler needs.
Wants(w, id) ==
  \/ /\ At(w, "acquireRead")
     /\ \E r \in LocksOn(req[w].key) : r.id = id
  \/ /\ At(w, "releaseDelete") \/ At(w, "createExpired") \/ At(w, "createCommit")
     /\ req[w].seen = id

Waiting(w) ==
  \/ \E id \in {r.id : r \in locks} : Wants(w, id) /\ LockedByOther(w, id)
  \/ At(w, "acquireInsert") /\ InsertBlocked(w)
  \/ /\ At(w, "createUnit")
     /\ UnitOf(req[w].key) \notin units
     /\ UnitInsertedByOther(w, UnitOf(req[w].key))

\* The handlers never wait for one another in a circle: where all of them wait,
\* one waits for a refused acquire whose session is not closed yet.
NoWaitCycle ==
  (\E w \in Workers : req[w] # Idle)
    => \/ \E w \in Workers : req[w] # Idle /\ ~Waiting(w)
       \/ \E w \in Workers, s \in unclosed : Wants(w, s.row)

\* Reviewers are told only of inspections that were committed, and the unit of
\* a committed inspection is committed with it or before it.
NoticesAndUnitsCommitted ==
  /\ notices \subseteq {i.id : i \in inspections}
  /\ \A i \in inspections : UnitOf(i.key) \in units

\* The loop of a process waits for a row that a session of the same process
\* locks: PostgreSQL sees no circle, and the session is closed by nobody.
LoopJam == \E s \in unclosed : Wants(s.worker, s.row)

\* Every request gets its reply and every session is closed, unless a loop jams:
\* no handler loops or waits for ever for another reason.
EveryRequestEnds ==
  \A w \in Workers :
    (req[w] # Idle \/ \E s \in unclosed : s.worker = w)
      ~> \/ req[w] = Idle /\ \A s \in unclosed : s.worker # w
         \/ LoopJam
=============================================================================
