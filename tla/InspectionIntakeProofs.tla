----------------------- MODULE InspectionIntakeProofs -----------------------
(***************************************************************************)
(* Proofs about InspectionIntake, for every set of users, processes, units *)
(* and directions and for every bound.                                     *)
(***************************************************************************)
EXTENDS InspectionIntake, TLAPS

\* A transaction about to commit a row has drawn its identifier.
InsertedRowsHaveIds ==
  \A w \in Workers :
    (At(w, "acquireCommit") \/ At(w, "createCommit")) => req[w].new # NoId

TypeInv == TypeOK /\ InsertedRowsHaveIds

-----------------------------------------------------------------------------
(* Requests and their fields. *)

Pcs == AcquirePcs \cup ReleasePcs \cup CreatePcs

\* The fields of a request in flight.
LEMMA RequestFields ==
  ASSUME TypeOK, NEW w \in Workers, req[w] # Idle
  PROVE  /\ req[w] \in Request
         /\ req[w].pc \in Pcs
         /\ req[w].user \in Users
         /\ req[w].key \in Keys
         /\ req[w].tries \in Nat
         /\ req[w].seen \in Nat
         /\ req[w].del \in Nat
         /\ req[w].new \in Nat
         /\ req[w].newUnit \in BOOLEAN
  BY DEF TypeOK, Request, Pcs

\* An idle process is at none of the program points.
LEMMA BusyAt ==
  ASSUME NEW w, NEW pc \in Pcs, At(w, pc)
  PROVE  req[w] # Idle
  BY DEF At, Idle, Pcs, AcquirePcs, ReleasePcs, CreatePcs

-----------------------------------------------------------------------------
(* Types *)

\* A step that gives one process a request, or none, keeps the type of req.
LEMMA BecomesType ==
  ASSUME TypeOK, NEW w \in Workers, NEW q \in Request \cup {Idle}, Becomes(w, q)
  PROVE  req' \in [Workers -> Request \cup {Idle}]
  BY DEF TypeOK, Becomes

\* Every handler statement, rollback and change of the environment keeps the types.
LEMMA TypeStep == TypeInv /\ [Next]_vars => TypeInv'
  <1> SUFFICES ASSUME TypeInv, [Next]_vars PROVE TypeInv'
    OBVIOUS
  <1> USE DEF Pcs, AcquirePcs, ReleasePcs, CreatePcs
  <1>0. TypeOK /\ InsertedRowsHaveIds
    BY DEF TypeInv
  <1>a. NoId \in Nat /\ nextId \in Nat /\ nextId # NoId
    BY <1>0 DEF TypeOK, NoId
  <1>b. Idle.pc = "idle"
    BY DEF Idle
  <1>c. \A r \in locks : r.id \in Nat
    BY <1>0 DEF TypeOK, LockRow
  <1>f. ASSUME NEW w \in Workers, NEW pc \in Pcs, At(w, pc)
        PROVE  /\ req[w] \in Request /\ req[w] # Idle
               /\ req[w].tries \in Nat /\ req[w].new \in Nat
    BY <1>0, <1>f, BusyAt, RequestFields
  <1>g. ASSUME NEW w \in Workers, NEW q \in Request \cup {Idle}, Becomes(w, q),
               q.pc \in {"acquireCommit", "createCommit"} => q.new # NoId
        PROVE  req' \in [Workers -> Request \cup {Idle}] /\ InsertedRowsHaveIds'
    <2>1. req' \in [Workers -> Request \cup {Idle}]
      BY <1>0, <1>g, BecomesType
    <2>2. InsertedRowsHaveIds'
      BY <1>0, <1>g DEF TypeOK, InsertedRowsHaveIds, Becomes, At
    <2> QED
      BY <2>1, <2>2
  <1>d. ASSUME NEW w \in Workers, NEW pc \in Pcs, Goto(w, pc), req[w] \in Request,
               pc \notin {"acquireCommit", "createCommit"}
        PROVE  req' \in [Workers -> Request \cup {Idle}] /\ InsertedRowsHaveIds'
    <2> DEFINE q == [req[w] EXCEPT !.pc = pc]
    <2>1. q \in Request /\ q.pc = pc
      BY <1>d DEF Request
    <2> QED
      BY <2>1, <1>d, <1>g DEF Goto
  <1>e. ASSUME NEW w \in Workers, Finish(w)
        PROVE  req' \in [Workers -> Request \cup {Idle}] /\ InsertedRowsHaveIds'
    BY <1>e, <1>b, <1>g DEF Finish
  <1>1. ASSUME NEW w \in Workers, NEW u \in Users, NEW k \in Keys,
               NEW first \in {"acquireCheck", "releaseRead", "createLock"},
               Start(w, first, u, k)
        PROVE  TypeInv'
    <2> DEFINE q == NewRequest(first, u, k)
    <2>1. q \in Request /\ q.pc = first
      BY <1>a DEF NewRequest, Request
    <2>2. req' \in [Workers -> Request \cup {Idle}] /\ InsertedRowsHaveIds'
      BY <1>1, <2>1, <1>g DEF Start
    <2> QED
      BY <1>0, <1>1, <2>2 DEF Start, TypeOK, TypeInv
  <1>2. ASSUME NEW w \in Workers, AcquireCheck(w) PROVE TypeInv'
    BY <1>0, <1>2, <1>f, <1>d, <1>e DEF AcquireCheck, TypeOK, TypeInv
  <1>3. ASSUME NEW w \in Workers, AcquireRead(w) PROVE TypeInv'
    <2>1. req[w] \in Request
      BY <1>3, <1>f DEF AcquireRead
    <2>2. ASSUME NEW r \in locks,
                 Becomes(w, [req[w] EXCEPT !.pc = "acquireInsert", !.del = r.id])
          PROVE  req' \in [Workers -> Request \cup {Idle}] /\ InsertedRowsHaveIds'
      <3> DEFINE q == [req[w] EXCEPT !.pc = "acquireInsert", !.del = r.id]
      <3>1. q \in Request /\ q.pc = "acquireInsert"
        BY <2>1, <1>c DEF Request
      <3> QED
        BY <3>1, <2>2, <1>g
    <2>3. req' \in [Workers -> Request \cup {Idle}] /\ InsertedRowsHaveIds'
      BY <1>3, <2>1, <2>2, <1>d, <1>e DEF AcquireRead, LocksOn
    <2>4. ASSUME NEW r \in locks
          PROVE  Unclosed(w, r) \in Session
      BY <2>1, <1>c DEF Unclosed, Session, Request
    <2>5. unclosed' \subseteq Session
      <3>1. \/ unclosed' = unclosed
            \/ \E r \in locks : unclosed' = unclosed \cup {Unclosed(w, r)}
        BY <1>3 DEF AcquireRead, LocksOn
      <3> QED
        BY <1>0, <2>4, <3>1 DEF TypeOK
    <2> QED
      BY <1>0, <1>3, <2>3, <2>5 DEF AcquireRead, TypeOK, TypeInv
  <1>4. ASSUME NEW w \in Workers, AcquireInsert(w) PROVE TypeInv'
    <2> DEFINE q == [req[w] EXCEPT !.pc = "acquireCommit", !.new = nextId]
    <2>1. req[w] \in Request
      BY <1>4, <1>f DEF AcquireInsert
    <2>2. q \in Request /\ q.new = nextId
      BY <2>1, <1>a DEF Request
    <2>3. req' \in [Workers -> Request \cup {Idle}] /\ InsertedRowsHaveIds'
      BY <1>4, <2>2, <1>a, <1>g DEF AcquireInsert
    <2> QED
      BY <1>0, <1>4, <2>3 DEF AcquireInsert, TypeOK, TypeInv
  <1>5. ASSUME NEW w \in Workers, AcquireConflict(w) PROVE TypeInv'
    <2> DEFINE q == [req[w] EXCEPT !.pc = "acquireRead", !.tries = req[w].tries + 1]
    <2>1. req[w] \in Request /\ req[w].tries + 1 \in Nat
      BY <1>5, <1>f DEF AcquireConflict
    <2>2. q \in Request /\ q.pc = "acquireRead"
      BY <2>1 DEF Request
    <2>3. req' \in [Workers -> Request \cup {Idle}] /\ InsertedRowsHaveIds'
      BY <1>5, <2>2, <1>e, <1>g DEF AcquireConflict
    <2> QED
      BY <1>0, <1>5, <2>3 DEF AcquireConflict, TypeOK, TypeInv
  <1>6. ASSUME NEW w \in Workers, AcquireCommit(w) PROVE TypeInv'
    <2>1. req[w] \in Request /\ req[w].new \in Nat \ {0}
      BY <1>0, <1>6, <1>f DEF AcquireCommit, InsertedRowsHaveIds, NoId
    <2>2. NewLock(w) \in LockRow
      BY <2>1 DEF NewLock, LockRow, Request
    <2>3. ASSUME NEW v \in Workers, At(v, "acquireRead")
          PROVE  /\ [req[v] EXCEPT !.pc = "acquireInsert"] \in Request
                 /\ [req[v] EXCEPT !.pc = "acquireInsert"].pc = "acquireInsert"
      <3>1. req[v] \in Request
        BY <2>3, <1>f
      <3> QED
        BY <3>1 DEF Request
    <2>4. req' \in [Workers -> Request \cup {Idle}]
      BY <1>6, <1>0, <2>3 DEF AcquireCommit, Awaiting, TypeOK
    <2>5. InsertedRowsHaveIds'
      BY <1>6, <1>0, <1>b, <2>3 DEF AcquireCommit, Awaiting, InsertedRowsHaveIds, At
    <2> QED
      BY <1>0, <1>6, <2>2, <2>4, <2>5 DEF AcquireCommit, TypeOK, TypeInv
  <1>7. ASSUME NEW w \in Workers, ReleaseRead(w) PROVE TypeInv'
    <2>1. req[w] \in Request
      BY <1>7, <1>f DEF ReleaseRead
    <2>2. ASSUME NEW r \in locks,
                 Becomes(w, [req[w] EXCEPT !.pc = "releaseDelete", !.seen = r.id])
          PROVE  req' \in [Workers -> Request \cup {Idle}] /\ InsertedRowsHaveIds'
      <3> DEFINE q == [req[w] EXCEPT !.pc = "releaseDelete", !.seen = r.id]
      <3>1. q \in Request /\ q.pc = "releaseDelete"
        BY <2>1, <1>c DEF Request
      <3> QED
        BY <3>1, <2>2, <1>g
    <2>3. req' \in [Workers -> Request \cup {Idle}] /\ InsertedRowsHaveIds'
      BY <1>7, <2>2, <1>e DEF ReleaseRead, MayDelete, LocksOn
    <2> QED
      BY <1>0, <1>7, <2>3 DEF ReleaseRead, TypeOK, TypeInv
  <1>8. ASSUME NEW w \in Workers, ReleaseDelete(w) PROVE TypeInv'
    BY <1>0, <1>8, <1>e DEF ReleaseDelete, DeleteSeen, TypeOK, TypeInv
  <1>9. ASSUME NEW w \in Workers, CreateExisting(w) \/ CreateRefused(w) PROVE TypeInv'
    BY <1>0, <1>9, <1>f, <1>d, <1>e DEF CreateExisting, CreateRefused, TypeOK, TypeInv
  <1>18. ASSUME NEW w \in Workers, CreateLock(w) PROVE TypeInv'
    <2>1. req[w] \in Request
      BY <1>18, <1>f DEF CreateLock
    <2>2. ASSUME NEW r \in locks,
                 Becomes(w, [req[w] EXCEPT !.pc = "createExpired", !.seen = r.id])
          PROVE  req' \in [Workers -> Request \cup {Idle}] /\ InsertedRowsHaveIds'
      <3> DEFINE q == [req[w] EXCEPT !.pc = "createExpired", !.seen = r.id]
      <3>1. q \in Request /\ q.pc = "createExpired"
        BY <2>1, <1>c DEF Request
      <3> QED
        BY <3>1, <2>2, <1>g
    <2>3. req' \in [Workers -> Request \cup {Idle}] /\ InsertedRowsHaveIds'
      BY <1>18, <2>1, <2>2, <1>d, <1>e DEF CreateLock, LocksOn
    <2> QED
      BY <1>0, <1>18, <2>3 DEF CreateLock, TypeOK, TypeInv
  <1>19. ASSUME NEW w \in Workers, CreateExpired(w) PROVE TypeInv'
    <2> DEFINE q == [req[w] EXCEPT !.pc = "createRefused", !.del = req[w].seen]
    <2>1. req[w] \in Request
      BY <1>19, <1>f DEF CreateExpired
    <2>2. q \in Request /\ q.pc = "createRefused"
      BY <2>1 DEF Request
    <2>3. req' \in [Workers -> Request \cup {Idle}] /\ InsertedRowsHaveIds'
      BY <1>19, <2>1, <2>2, <1>d, <1>g DEF CreateExpired
    <2> QED
      BY <1>0, <1>19, <2>3 DEF CreateExpired, TypeOK, TypeInv
  <1>20. ASSUME NEW s \in unclosed, CloseSession(s) PROVE TypeInv'
    BY <1>0, <1>20 DEF CloseSession, TypeOK, InsertedRowsHaveIds, At, TypeInv
  <1>10. ASSUME NEW w \in Workers, CreateUnit(w) PROVE TypeInv'
    <2> DEFINE q == [req[w] EXCEPT !.pc = "createInsert", !.newUnit = TRUE]
    <2>1. req[w] \in Request
      BY <1>10, <1>f DEF CreateUnit
    <2>2. q \in Request /\ q.pc = "createInsert"
      BY <2>1 DEF Request
    <2>3. req' \in [Workers -> Request \cup {Idle}] /\ InsertedRowsHaveIds'
      BY <1>10, <2>1, <2>2, <1>d, <1>e, <1>g DEF CreateUnit
    <2> QED
      BY <1>0, <1>10, <2>3 DEF CreateUnit, TypeOK, TypeInv
  <1>11. ASSUME NEW w \in Workers, CreateReject(w) \/ Crash(w) PROVE TypeInv'
    BY <1>0, <1>11, <1>e DEF CreateReject, Crash, TypeOK, TypeInv
  <1>12. ASSUME NEW w \in Workers, CreateInsert(w) PROVE TypeInv'
    <2>1. PICK id \in {r.id : r \in MayDelete(w)} \cup {NoId} :
            Becomes(w, [req[w] EXCEPT !.pc = "createCommit", !.seen = id,
                                      !.new = nextId])
      BY <1>12 DEF CreateInsert
    <2>2. id \in Nat
      BY <2>1, <1>a, <1>c DEF MayDelete, LocksOn
    <2> DEFINE q == [req[w] EXCEPT !.pc = "createCommit", !.seen = id, !.new = nextId]
    <2>3. req[w] \in Request
      BY <1>12, <1>f DEF CreateInsert
    <2>4. q \in Request /\ q.new = nextId
      BY <2>2, <2>3, <1>a DEF Request
    <2>5. req' \in [Workers -> Request \cup {Idle}] /\ InsertedRowsHaveIds'
      BY <2>1, <2>4, <1>a, <1>g
    <2> QED
      BY <1>0, <1>12, <2>5 DEF CreateInsert, TypeOK, TypeInv
  <1>13. ASSUME NEW w \in Workers, CreateCommit(w) PROVE TypeInv'
    <2> DEFINE q == [req[w] EXCEPT !.pc = "createNotify", !.newUnit = FALSE]
    <2>1. req[w] \in Request /\ req[w].new \in Nat \ {0}
      BY <1>0, <1>13, <1>f DEF CreateCommit, InsertedRowsHaveIds, NoId
    <2>2. q \in Request /\ q.pc = "createNotify"
      BY <2>1 DEF Request
    <2>3. NewInspection(w) \in InspectionRow
      BY <2>1 DEF NewInspection, InspectionRow, Request
    <2>4. UnitOf(req[w].key) \in Units
      BY <2>1 DEF Keys, UnitOf, Request
    <2>5. req' \in [Workers -> Request \cup {Idle}] /\ InsertedRowsHaveIds'
      BY <1>13, <2>2, <1>g DEF CreateCommit
    <2> QED
      BY <1>0, <1>13, <2>3, <2>4, <2>5 DEF CreateCommit, DeleteSeen, TypeOK, TypeInv
  <1>14. ASSUME NEW w \in Workers, CreateNotify(w) PROVE TypeInv'
    <2>1. req[w].new \in Nat
      BY <1>14, <1>f DEF CreateNotify
    <2> QED
      BY <1>0, <1>14, <2>1, <1>e DEF CreateNotify, TypeOK, TypeInv
  <1>15. CASE Deactivate
    BY <1>0, <1>15 DEF Deactivate, InspectionRow, TypeOK, InsertedRowsHaveIds, At, TypeInv
  <1>16. CASE Expire
    BY <1>0, <1>16 DEF Expire, LockRow, TypeOK, InsertedRowsHaveIds, At, TypeInv
  <1>17. CASE UNCHANGED vars
    BY <1>0, <1>17 DEF vars, TypeOK, InsertedRowsHaveIds, At, TypeInv
  <1> QED
    BY <1>1, <1>2, <1>3, <1>4, <1>5, <1>6, <1>7, <1>8, <1>9, <1>10, <1>11,
       <1>12, <1>13, <1>14, <1>15, <1>16, <1>17, <1>18, <1>19, <1>20
    DEF Next, Step, StartAcquire, StartRelease, StartCreate

\* The types hold in every reachable state.
LEMMA TypeInvariant == Spec => []TypeInv
  <1>1. Init => TypeInv
    BY DEF Init, TypeInv, TypeOK, InsertedRowsHaveIds, At, Idle
  <1> QED
    BY <1>1, TypeStep, PTL DEF Spec

\* Rows, identifiers and requests keep their shape: the tables hold rows only,
\* and a request is at one of the program points of the three handlers.
THEOREM TypeCorrect == Spec => []TypeOK
  BY TypeInvariant, PTL DEF TypeInv

-----------------------------------------------------------------------------
(* The locks *)

\* Every identifier in use has been drawn from the sequence.
IssuedIds ==
  /\ \A r \in locks : r.id < nextId
  /\ \A w \in Workers :
       req[w] # Idle => req[w].seen < nextId /\ req[w].new < nextId

\* The identifier of a row about to be committed is nobody else's.
FreshIds ==
  /\ \A r, s \in locks : r.id = s.id => r = s
  /\ \A w \in Workers : At(w, "acquireCommit") =>
       /\ \A r \in locks : r.id # req[w].new
       /\ \A v \in Workers : req[v] # Idle => req[v].seen # req[w].new
       /\ \A v \in Workers :
            (At(v, "acquireCommit") /\ v # w) => req[v].new # req[w].new

\* The row a handler has read and means to delete, if it is still there, has
\* expired or is the caller's own.
SeenRows ==
  \A w \in Workers : req[w] # Idle =>
    \A r \in locks : r.id = req[w].seen => (Expired(r) \/ r.user = req[w].user)

\* The row a create has found expired stays the one it was, if it stays.
ExpiredRows ==
  \A w \in Workers : At(w, "createExpired") =>
    \A r \in locks : r.id = req[w].seen => (Expired(r) /\ r.key = req[w].key)

\* A row deleted and not committed has expired, is still in the table, and is
\* deleted by one transaction only, which is about to insert its successor or to
\* roll back.
DelRows ==
  \A w \in Workers : (req[w] # Idle /\ req[w].del # NoId) =>
    /\ At(w, "acquireInsert") \/ At(w, "acquireCommit") \/ At(w, "createRefused")
    /\ \E r \in LocksOn(req[w].key) : r.id = req[w].del /\ Expired(r)
    /\ \A v \in Workers \ {w} : req[v] # Idle => req[v].del # req[w].del

\* UNIQUE (barcode, inspection_type)
LockKeyUnique == \A r, s \in locks : r.key = s.key => r = s

\* An inserted row has no rival: neither a committed one, but for the one the
\* transaction deletes, nor another inserted one.
OneWriterPerKey ==
  \A w \in Workers : At(w, "acquireCommit") =>
    /\ \A r \in LocksOn(req[w].key) : r.id = req[w].del
    /\ \A v \in Workers \ {w} : At(v, "acquireCommit") => req[v].key # req[w].key

LockInv == /\ IssuedIds /\ FreshIds /\ SeenRows /\ ExpiredRows /\ DelRows
           /\ LockKeyUnique /\ OneWriterPerKey

\* A step of one process that leaves the committed rows alone, inserts no lock
\* and takes no row lock.
LEMMA LocalStep ==
  ASSUME TypeInv, LockInv, NEW w \in Workers, NEW q \in Request \cup {Idle},
         Becomes(w, q), UNCHANGED <<locks, expired>>,
         nextId' \in Nat, nextId <= nextId',
         q # Idle =>
           /\ q.pc # "acquireCommit"
           /\ q.new < nextId'
           /\ \/ q.del = NoId
              \/ q.pc = "acquireInsert" /\ req[w] # Idle /\ q.del = req[w].del
                 /\ q.key = req[w].key
           /\ \/ q.seen = NoId
              \/ \E r \in locks : r.id = q.seen /\ (Expired(r) \/ r.user = q.user)
              \/ req[w] # Idle /\ q.seen = req[w].seen /\ q.user = req[w].user
           /\ q.pc = "createExpired" =>
                \E r \in locks : r.id = q.seen /\ r.key = q.key /\ Expired(r)
  PROVE  LockInv'
  <1>1. TypeOK /\ InsertedRowsHaveIds
    BY DEF TypeInv
  <1>2. req'[w] = q /\ \A v \in Workers \ {w} : req'[v] = req[v]
    BY <1>1 DEF Becomes, TypeOK
  <1>3. nextId \in Nat /\ \A r \in locks : r.id \in Nat \ {0}
    BY <1>1 DEF TypeOK, LockRow
  <1>4. \A v \in Workers : req[v] # Idle =>
          req[v].seen \in Nat /\ req[v].new \in Nat /\ req[v].del \in Nat
    BY <1>1, RequestFields
  <1>5. q # Idle => q.seen \in Nat /\ q.new \in Nat /\ q.del \in Nat
    BY DEF Request
  <1>6. ~(q = Idle /\ q.pc = "acquireCommit")
    BY DEF Idle
  <1>7. q # Idle => q.seen < nextId
    BY <1>1, <1>3, <1>5 DEF LockInv, IssuedIds, NoId, TypeOK
  <1>a. IssuedIds'
    BY <1>2, <1>3, <1>4, <1>5, <1>7 DEF LockInv, IssuedIds
  <1>b. FreshIds'
    <2>1. ASSUME NEW v \in Workers \ {w}, At(v, "acquireCommit"), q # Idle
          PROVE  q.seen # req[v].new
      BY <2>1, <1>1, BusyAt DEF LockInv, FreshIds, InsertedRowsHaveIds, Pcs, AcquirePcs
    <2> QED
      BY <1>2, <1>6, <2>1 DEF LockInv, FreshIds, At
  <1>c. SeenRows'
    <2>1. ASSUME q # Idle, NEW r \in locks, r.id = q.seen
          PROVE  Expired(r) \/ r.user = q.user
      BY <2>1, <1>3 DEF LockInv, SeenRows, FreshIds, NoId
    <2> QED
      BY <1>2, <2>1 DEF LockInv, SeenRows, Expired
  <1>d. DelRows'
    BY <1>2 DEF LockInv, DelRows, LocksOn, Expired, At
  <1>g. ExpiredRows'
    BY <1>2 DEF LockInv, ExpiredRows, FreshIds, Expired, At, Idle
  <1>e. LockKeyUnique'
    BY DEF LockInv, LockKeyUnique
  <1>f. OneWriterPerKey'
    BY <1>2, <1>6 DEF LockInv, OneWriterPerKey, LocksOn, At
  <1> QED
    BY <1>a, <1>b, <1>c, <1>d, <1>e, <1>f, <1>g DEF LockInv

\* The DELETE of the row a release or a create has read.
LEMMA DeleteStep ==
  ASSUME TypeInv, LockInv, NEW w \in Workers, NEW q \in Request \cup {Idle},
         Becomes(w, q), DeleteSeen(w), UNCHANGED <<expired, nextId>>,
         ~DeletedByOther(w, req[w].seen),
         At(w, "releaseDelete") \/ At(w, "createCommit"),
         q # Idle =>
           /\ q.pc = "createNotify"
           /\ q.seen = req[w].seen /\ q.user = req[w].user
           /\ q.new = req[w].new /\ q.del = req[w].del
  PROVE  LockInv'
  <1>1. TypeOK /\ InsertedRowsHaveIds
    BY DEF TypeInv
  <1>2. req'[w] = q /\ \A v \in Workers \ {w} : req'[v] = req[v]
    BY <1>1 DEF Becomes, TypeOK
  <1>3. req[w] # Idle
    BY BusyAt DEF Pcs, ReleasePcs, CreatePcs
  <1>4. q.pc \notin {"acquireCommit", "acquireInsert", "createExpired"}
    BY DEF Idle
  <1>5. locks' = {r \in locks : r.id # req[w].seen}
    BY DEF DeleteSeen
  <1>6. req[w].del = NoId
    BY <1>3 DEF LockInv, DelRows, At
  <1>a. IssuedIds'
    BY <1>2, <1>3, <1>5 DEF LockInv, IssuedIds
  <1>b. FreshIds'
    BY <1>2, <1>3, <1>4, <1>5 DEF LockInv, FreshIds, At
  <1>c. SeenRows'
    BY <1>2, <1>3, <1>5 DEF LockInv, SeenRows, Expired
  <1>d. DelRows'
    BY <1>2, <1>3, <1>5, <1>6 DEF LockInv, DelRows, LocksOn, Expired, At,
       DeletedByOther
  <1>e. LockKeyUnique'
    BY <1>5 DEF LockInv, LockKeyUnique
  <1>f. OneWriterPerKey'
    BY <1>2, <1>4, <1>5 DEF LockInv, OneWriterPerKey, LocksOn, At
  <1>g. ExpiredRows'
    BY <1>2, <1>4, <1>5 DEF LockInv, ExpiredRows, Expired, At
  <1> QED
    BY <1>a, <1>b, <1>c, <1>d, <1>e, <1>f, <1>g DEF LockInv

\* No statement of any handler breaks what the lock rows and their readers rely on.
LEMMA LockStep == TypeInv /\ LockInv /\ [Next]_vars => LockInv'
  <1> SUFFICES ASSUME TypeInv, LockInv, [Next]_vars PROVE LockInv'
    OBVIOUS
  <1> USE DEF Pcs, AcquirePcs, ReleasePcs, CreatePcs
  <1>0. TypeOK /\ TypeOK'
    BY TypeStep DEF TypeInv
  <1>a. nextId \in Nat /\ nextId <= nextId /\ nextId <= nextId + 1
        /\ NoId < nextId /\ \A n \in Nat : n < nextId => n < nextId + 1
    BY <1>0 DEF TypeOK, NoId
  <1>b. ASSUME NEW w \in Workers, NEW pc \in Pcs, At(w, pc)
        PROVE  /\ req[w] \in Request /\ req[w] # Idle
               /\ pc \notin {"acquireInsert", "acquireCommit", "createRefused"}
                    => req[w].del = NoId
               /\ req[w].new < nextId
    <2>1. req[w] \in Request /\ req[w] # Idle
      BY <1>0, <1>b, BusyAt, RequestFields
    <2> QED
      BY <2>1, <1>b DEF LockInv, DelRows, IssuedIds, At
  <1>c. ASSUME NEW w \in Workers, Finish(w), UNCHANGED <<locks, expired, nextId>>
        PROVE  LockInv'
    BY <1>a, <1>c, LocalStep DEF Finish
  <1>d. ASSUME NEW w \in Workers, NEW from \in Pcs, At(w, from),
               from \notin {"acquireInsert", "acquireCommit", "createRefused"},
               NEW pc \in Pcs \ {"acquireCommit", "createExpired"},
               Goto(w, pc), UNCHANGED <<locks, expired, nextId>>
        PROVE  LockInv'
    <2> DEFINE q == [req[w] EXCEPT !.pc = pc]
    <2>1. req[w] \in Request /\ req[w] # Idle /\ req[w].del = NoId /\ req[w].new < nextId
      BY <1>d, <1>b
    <2>2. /\ q \in Request /\ q.pc = pc /\ q.del = NoId /\ q.new < nextId
          /\ q.seen = req[w].seen /\ q.user = req[w].user
      BY <2>1 DEF Request
    <2>3. Becomes(w, q)
      BY <1>d DEF Goto
    <2> HIDE DEF q
    <2> QED
      BY <1>a, <1>d, <2>1, <2>2, <2>3, LocalStep
  <1>1. ASSUME NEW w \in Workers, NEW u \in Users, NEW k \in Keys,
               NEW first \in {"acquireCheck", "releaseRead", "createLock"},
               Start(w, first, u, k)
        PROVE  LockInv'
    <2> DEFINE q == NewRequest(first, u, k)
    <2>1. /\ q \in Request /\ q.pc = first
          /\ q.seen = NoId /\ q.new = NoId /\ q.del = NoId
      BY DEF NewRequest, Request, NoId
    <2>2. Becomes(w, q) /\ UNCHANGED <<locks, expired, nextId>>
      BY <1>1 DEF Start
    <2>3. q.new < nextId
      BY <2>1, <1>a
    <2> HIDE DEF q
    <2> QED
      BY <2>1, <2>2, <2>3, <1>a, LocalStep
  <1>2. ASSUME NEW w \in Workers, AcquireCheck(w) PROVE LockInv'
    BY <1>2, <1>c, <1>d DEF AcquireCheck
  <1>3. ASSUME NEW w \in Workers, AcquireRead(w) PROVE LockInv'
    <2>0. At(w, "acquireRead")
      BY <1>3 DEF AcquireRead
    <2>1. /\ req[w] \in Request /\ req[w] # Idle
          /\ req[w].del = NoId /\ req[w].new < nextId
      BY <2>0, <1>b
    <2>2. ASSUME NEW r \in LocksOn(req[w].key), Expired(r),
                 Becomes(w, [req[w] EXCEPT !.pc = "acquireInsert", !.del = r.id])
          PROVE  LockInv'
      <3> DEFINE q == [req[w] EXCEPT !.pc = "acquireInsert", !.del = r.id]
      <3>1. r \in locks /\ r.id \in Nat \ {0}
        BY <1>0 DEF TypeOK, LockRow, LocksOn
      <3>2. /\ q \in Request /\ q.pc = "acquireInsert" /\ q.del = r.id
            /\ q.key = req[w].key /\ q.seen = req[w].seen
            /\ q.user = req[w].user /\ q.new = req[w].new /\ q # Idle
        BY <2>1, <3>1 DEF Request, Idle
      <3>3. req'[w] = q /\ \A v \in Workers \ {w} : req'[v] = req[v]
        BY <2>2, <1>0 DEF Becomes, TypeOK
      <3>4. UNCHANGED <<locks, expired, nextId>> /\ ~DeletedByOther(w, r.id)
        BY <1>3 DEF AcquireRead, LockedByOther
      <3> HIDE DEF q
      <3>5. IssuedIds' /\ FreshIds' /\ SeenRows' /\ ExpiredRows' /\ LockKeyUnique'
        BY <2>1, <3>2, <3>3, <3>4
        DEF LockInv, IssuedIds, FreshIds, SeenRows, ExpiredRows, LockKeyUnique,
            Expired, At
      <3>6. DelRows'
        BY <2>1, <2>2, <3>1, <3>2, <3>3, <3>4
        DEF LockInv, DelRows, Expired, LocksOn, At, DeletedByOther, NoId
      <3>7. OneWriterPerKey'
        BY <3>2, <3>3, <3>4 DEF LockInv, OneWriterPerKey, LocksOn, At
      <3> QED
        BY <3>5, <3>6, <3>7 DEF LockInv
    <2>3. CASE LocksOn(req[w].key) = {} /\ Goto(w, "acquireInsert")
      BY <1>3, <2>3, <1>d DEF AcquireRead
    <2>4. CASE Finish(w)
      BY <1>3, <2>4, <1>c DEF AcquireRead
    <2> QED
      BY <1>3, <2>2, <2>3, <2>4 DEF AcquireRead
  <1>4. ASSUME NEW w \in Workers, AcquireInsert(w) PROVE LockInv'
    <2> DEFINE q == [req[w] EXCEPT !.pc = "acquireCommit", !.new = nextId]
    <2>1. req[w] \in Request /\ req[w] # Idle /\ At(w, "acquireInsert")
      BY <1>4, <1>b DEF AcquireInsert
    <2>2. /\ q \in Request /\ q.pc = "acquireCommit" /\ q.new = nextId
          /\ q.key = req[w].key /\ q.seen = req[w].seen /\ q.del = req[w].del
          /\ q.user = req[w].user /\ q # Idle
      BY <2>1, <1>a DEF Request, Idle
    <2>3. req'[w] = q /\ \A v \in Workers \ {w} : req'[v] = req[v]
      BY <1>4, <1>0 DEF AcquireInsert, Becomes, TypeOK
    <2>4. /\ UNCHANGED <<locks, expired>> /\ nextId' = nextId + 1
          /\ ~InsertedByOther(w, req[w].key) /\ ~Conflicting(w)
      BY <1>4 DEF AcquireInsert, InsertBlocked
    <2> HIDE DEF q
    <2>5. /\ \A r \in locks : r.id \in Nat /\ r.id < nextId
          /\ \A v \in Workers : req[v] # Idle =>
               /\ req[v].seen \in Nat /\ req[v].new \in Nat
               /\ req[v].seen < nextId /\ req[v].new < nextId
      BY <1>0, RequestFields DEF LockInv, IssuedIds, TypeOK, LockRow
    <2>6. \A v \in Workers : At(v, "acquireCommit") => req[v] # Idle
      BY BusyAt
    <2>a. IssuedIds'
      BY <1>a, <2>1, <2>2, <2>3, <2>4, <2>5 DEF IssuedIds
    <2>b. FreshIds'
      <3>1. ASSUME NEW v \in Workers, At(v, "acquireCommit")'
            PROVE  /\ \A r \in locks : r.id # req'[v].new
                   /\ \A x \in Workers : req'[x] # Idle => req'[x].seen # req'[v].new
        BY <1>a, <2>1, <2>2, <2>3, <2>5, <3>1 DEF LockInv, FreshIds, At
      <3>2. ASSUME NEW v \in Workers, At(v, "acquireCommit")', NEW x \in Workers,
                   At(x, "acquireCommit")', x # v
            PROVE  req'[x].new # req'[v].new
        BY <1>a, <2>2, <2>3, <2>5, <2>6, <3>2 DEF LockInv, FreshIds, At
      <3> QED
        BY <2>4, <3>1, <3>2 DEF LockInv, FreshIds
    <2>c. SeenRows' /\ ExpiredRows' /\ LockKeyUnique'
      BY <2>1, <2>2, <2>3, <2>4
      DEF LockInv, SeenRows, ExpiredRows, LockKeyUnique, Expired, At
    <2>d. DelRows'
      BY <2>1, <2>2, <2>3, <2>4 DEF LockInv, DelRows, Expired, LocksOn, At
    <2>e. OneWriterPerKey'
      BY <2>1, <2>2, <2>3, <2>4
      DEF LockInv, OneWriterPerKey, LocksOn, At, InsertedByOther, Conflicting
    <2> QED
      BY <2>a, <2>b, <2>c, <2>d, <2>e DEF LockInv
  <1>5. ASSUME NEW w \in Workers, AcquireConflict(w) PROVE LockInv'
    <2>1. CASE Finish(w)
      BY <1>5, <2>1, <1>c DEF AcquireConflict
    <2>2. CASE Becomes(w, [req[w] EXCEPT !.pc = "acquireRead",
                                         !.tries = req[w].tries + 1])
      <3> DEFINE q == [req[w] EXCEPT !.pc = "acquireRead", !.tries = req[w].tries + 1]
      <3>1. /\ req[w] \in Request /\ req[w] # Idle /\ req[w].new < nextId
            /\ req[w].tries + 1 \in Nat
        BY <1>0, <1>5, <1>b, RequestFields DEF AcquireConflict
      <3>2. req[w].del = NoId
        BY <1>5, <3>1
        DEF AcquireConflict, Conflicting, LockInv, DelRows, LockKeyUnique, LocksOn
      <3>3. /\ q \in Request /\ q.pc = "acquireRead" /\ q.del = NoId
            /\ q.new < nextId /\ q.seen = req[w].seen /\ q.user = req[w].user
        BY <3>1, <3>2 DEF Request
      <3>4. Becomes(w, q) /\ UNCHANGED <<locks, expired, nextId>>
        BY <1>5, <2>2 DEF AcquireConflict
      <3> HIDE DEF q
      <3> QED
        BY <1>a, <3>1, <3>3, <3>4, LocalStep
    <2> QED
      BY <1>5, <2>1, <2>2 DEF AcquireConflict
  <1>6. ASSUME NEW w \in Workers, AcquireCommit(w) PROVE LockInv'
    <2>1. /\ req[w] \in Request /\ req[w] # Idle /\ At(w, "acquireCommit")
          /\ req[w].new < nextId
      BY <1>6, <1>b DEF AcquireCommit
    <2>2. /\ locks' = {r \in locks : r.id # req[w].del} \cup {NewLock(w)}
          /\ UNCHANGED <<expired, nextId>>
      BY <1>6 DEF AcquireCommit
    <2>3. /\ NewLock(w).id = req[w].new /\ NewLock(w).key = req[w].key
          /\ NewLock(w).user = req[w].user
      BY DEF NewLock
    <2>4. req'[w] = Idle
      BY <1>6 DEF AcquireCommit
    <2>5. ASSUME NEW v \in Workers \ {w}
          PROVE  \/ req'[v] = req[v]
                 \/ /\ req[v] # Idle /\ req'[v] # Idle
                    /\ req'[v].pc = "acquireInsert" /\ ~At(v, "acquireCommit")
                    /\ req[v].del = NoId /\ req'[v].del = NoId
                    /\ req'[v].seen = req[v].seen /\ req'[v].new = req[v].new
                    /\ req'[v].user = req[v].user /\ req'[v].key = req[v].key
      <3>1. CASE ~At(v, "acquireRead")
        BY <1>6, <3>1 DEF AcquireCommit, Awaiting
      <3>2. CASE At(v, "acquireRead")
        <4> DEFINE q == [req[v] EXCEPT !.pc = "acquireInsert"]
        <4>1. req[v] \in Request /\ req[v] # Idle /\ req[v].del = NoId
          BY <3>2, <1>b
        <4>2. /\ q # Idle /\ q.pc = "acquireInsert" /\ q.del = NoId
              /\ q.seen = req[v].seen /\ q.new = req[v].new
              /\ q.user = req[v].user /\ q.key = req[v].key
          BY <4>1 DEF Request, Idle
        <4>3. req'[v] = req[v] \/ req'[v] = q
          BY <1>6 DEF AcquireCommit
        <4> QED
          BY <3>2, <4>1, <4>2, <4>3 DEF At
      <3> QED
        BY <3>1, <3>2
    <2>6. Idle.pc = "idle"
      BY DEF Idle
    <2>a. IssuedIds'
      BY <2>1, <2>2, <2>3, <2>4, <2>5 DEF LockInv, IssuedIds
    <2>b. FreshIds'
      BY <2>1, <2>2, <2>3, <2>4, <2>5, <2>6 DEF LockInv, FreshIds, At
    <2>c. SeenRows'
      BY <2>1, <2>2, <2>3, <2>4, <2>5 DEF LockInv, SeenRows, FreshIds, Expired
    <2>g. ExpiredRows'
      BY <2>1, <2>2, <2>3, <2>4, <2>5, <2>6, BusyAt
      DEF LockInv, ExpiredRows, FreshIds, Expired, At
    <2>d. DelRows'
      BY <2>1, <2>2, <2>4, <2>5 DEF LockInv, DelRows, LocksOn, Expired, At
    <2>e. LockKeyUnique'
      BY <2>1, <2>2, <2>3 DEF LockInv, LockKeyUnique, OneWriterPerKey, LocksOn
    <2>f. OneWriterPerKey'
      BY <2>1, <2>2, <2>3, <2>4, <2>5, <2>6 DEF LockInv, OneWriterPerKey, LocksOn, At
    <2> QED
      BY <2>a, <2>b, <2>c, <2>d, <2>e, <2>f, <2>g DEF LockInv
  <1>7. ASSUME NEW w \in Workers, ReleaseRead(w) PROVE LockInv'
    <2>1. /\ req[w] \in Request /\ req[w] # Idle
          /\ req[w].del = NoId /\ req[w].new < nextId
      <3>1. At(w, "releaseRead")
        BY <1>7 DEF ReleaseRead
      <3> QED
        BY <3>1, <1>b
    <2>2. ASSUME NEW r \in MayDelete(w),
                 Becomes(w, [req[w] EXCEPT !.pc = "releaseDelete", !.seen = r.id])
          PROVE  LockInv'
      <3> DEFINE q == [req[w] EXCEPT !.pc = "releaseDelete", !.seen = r.id]
      <3>1. r \in locks /\ r.id \in Nat /\ (Expired(r) \/ r.user = req[w].user)
        BY <1>0 DEF MayDelete, LocksOn, TypeOK, LockRow
      <3>2. /\ q \in Request /\ q.pc = "releaseDelete" /\ q.del = NoId
            /\ q.new < nextId /\ q.seen = r.id /\ q.user = req[w].user
        BY <2>1, <3>1 DEF Request
      <3>3. Becomes(w, q) /\ UNCHANGED <<locks, expired, nextId>>
        BY <1>7, <2>2 DEF ReleaseRead
      <3> HIDE DEF q
      <3> QED
        BY <1>a, <3>1, <3>2, <3>3, LocalStep
    <2> QED
      BY <1>7, <1>c, <2>2 DEF ReleaseRead
  <1>8. ASSUME NEW w \in Workers, ReleaseDelete(w) PROVE LockInv'
    BY <1>8, DeleteStep DEF ReleaseDelete, Finish, LockedByOther
  <1>9. ASSUME NEW w \in Workers, CreateExisting(w) \/ CreateRefused(w) PROVE LockInv'
    BY <1>9, <1>c, <1>d DEF CreateExisting, CreateRefused
  <1>17. ASSUME NEW w \in Workers, CreateLock(w) PROVE LockInv'
    <2>0. At(w, "createLock") /\ UNCHANGED <<locks, expired, nextId>>
      BY <1>17 DEF CreateLock
    <2>1. /\ req[w] \in Request /\ req[w] # Idle
          /\ req[w].del = NoId /\ req[w].new < nextId
      BY <2>0, <1>b
    <2>2. ASSUME NEW r \in LocksOn(req[w].key), Expired(r),
                 Becomes(w, [req[w] EXCEPT !.pc = "createExpired", !.seen = r.id])
          PROVE  LockInv'
      <3> DEFINE q == [req[w] EXCEPT !.pc = "createExpired", !.seen = r.id]
      <3>1. r \in locks /\ r.id \in Nat /\ r.key = req[w].key
        BY <1>0 DEF LocksOn, TypeOK, LockRow
      <3>2. /\ q \in Request /\ q.pc = "createExpired" /\ q.del = NoId
            /\ q.new < nextId /\ q.seen = r.id /\ q.key = r.key
        BY <2>1, <3>1 DEF Request
      <3>3. Becomes(w, q)
        BY <2>2
      <3> HIDE DEF q
      <3> QED
        BY <1>a, <2>0, <2>2, <3>1, <3>2, <3>3, LocalStep
    <2>3. CASE Finish(w)
      BY <2>0, <2>3, <1>c
    <2>4. CASE Goto(w, "createExisting")
      BY <2>0, <2>4, <1>d
    <2> QED
      BY <1>17, <2>2, <2>3, <2>4 DEF CreateLock
  <1>18. ASSUME NEW w \in Workers, CreateExpired(w) PROVE LockInv'
    <2>0. At(w, "createExpired") /\ UNCHANGED <<locks, expired, nextId>>
      BY <1>18 DEF CreateExpired
    <2>1. /\ req[w] \in Request /\ req[w] # Idle
          /\ req[w].del = NoId /\ req[w].new < nextId
      BY <2>0, <1>b
    <2>2. ASSUME NEW r \in locks, r.id = req[w].seen,
                 Becomes(w, [req[w] EXCEPT !.pc = "createRefused",
                                           !.del = req[w].seen])
          PROVE  LockInv'
      <3> DEFINE q == [req[w] EXCEPT !.pc = "createRefused", !.del = req[w].seen]
      <3>1. r.id \in Nat \ {0} /\ Expired(r) /\ r \in LocksOn(req[w].key)
        BY <1>0, <2>0, <2>2 DEF TypeOK, LockRow, LocksOn, LockInv, ExpiredRows
      <3>2. /\ q \in Request /\ q.pc = "createRefused" /\ q.del = r.id
            /\ q.key = req[w].key /\ q.seen = req[w].seen
            /\ q.user = req[w].user /\ q.new = req[w].new /\ q # Idle
        BY <2>1, <2>2 DEF Request, Idle
      <3>3. req'[w] = q /\ \A v \in Workers \ {w} : req'[v] = req[v]
        BY <2>2, <1>0 DEF Becomes, TypeOK
      <3>4. ~DeletedByOther(w, r.id)
        BY <1>18, <2>2 DEF CreateExpired, LockedByOther
      <3> HIDE DEF q
      <3>5. IssuedIds' /\ FreshIds' /\ SeenRows' /\ ExpiredRows' /\ LockKeyUnique'
        BY <2>0, <2>1, <3>2, <3>3
        DEF LockInv, IssuedIds, FreshIds, SeenRows, ExpiredRows, LockKeyUnique,
            Expired, At
      <3>6. DelRows'
        BY <2>0, <2>1, <3>1, <3>2, <3>3, <3>4
        DEF LockInv, DelRows, Expired, LocksOn, At, DeletedByOther, NoId
      <3>7. OneWriterPerKey'
        BY <2>0, <3>2, <3>3 DEF LockInv, OneWriterPerKey, LocksOn, At
      <3> QED
        BY <3>5, <3>6, <3>7 DEF LockInv
    <2>3. CASE Goto(w, "createRefused")
      BY <2>0, <2>3, <1>d
    <2> QED
      BY <1>18, <2>2, <2>3 DEF CreateExpired
  <1>19. ASSUME NEW s \in unclosed, CloseSession(s) PROVE LockInv'
    BY <1>19 DEF CloseSession, LockInv, IssuedIds, FreshIds, SeenRows, ExpiredRows,
       DelRows, LockKeyUnique, OneWriterPerKey, LocksOn, Expired, At
  <1>10. ASSUME NEW w \in Workers, CreateUnit(w) PROVE LockInv'
    <2> DEFINE q == [req[w] EXCEPT !.pc = "createInsert", !.newUnit = TRUE]
    <2>1. /\ req[w] \in Request /\ req[w] # Idle
          /\ req[w].del = NoId /\ req[w].new < nextId
      BY <1>10, <1>b DEF CreateUnit
    <2>2. /\ q \in Request /\ q.pc = "createInsert" /\ q.del = NoId
          /\ q.new < nextId /\ q.seen = req[w].seen /\ q.user = req[w].user
      BY <2>1 DEF Request
    <2>3. CASE Becomes(w, q)
      <3>1. UNCHANGED <<locks, expired, nextId>>
        BY <1>10 DEF CreateUnit
      <3> HIDE DEF q
      <3> QED
        BY <1>a, <2>1, <2>2, <2>3, <3>1, LocalStep
    <2> QED
      BY <1>10, <1>c, <1>d, <2>3 DEF CreateUnit
  <1>11. ASSUME NEW w \in Workers, CreateReject(w) \/ Crash(w) \/ CreateNotify(w)
         PROVE  LockInv'
    BY <1>11, <1>c DEF CreateReject, Crash, CreateNotify
  <1>12. ASSUME NEW w \in Workers, CreateInsert(w) PROVE LockInv'
    <2>1. PICK id \in {r.id : r \in MayDelete(w)} \cup {NoId} :
            Becomes(w, [req[w] EXCEPT !.pc = "createCommit", !.seen = id,
                                      !.new = nextId])
      BY <1>12 DEF CreateInsert
    <2> DEFINE q == [req[w] EXCEPT !.pc = "createCommit", !.seen = id, !.new = nextId]
    <2>2. /\ req[w] \in Request /\ req[w] # Idle /\ req[w].del = NoId
      BY <1>12, <1>b DEF CreateInsert
    <2>3. \/ id = NoId
          \/ \E r \in locks : r.id = id /\ (Expired(r) \/ r.user = req[w].user)
      BY DEF MayDelete, LocksOn
    <2>4. id \in Nat
      BY <1>0, <2>3 DEF TypeOK, LockRow, NoId
    <2>5. /\ q \in Request /\ q.pc = "createCommit" /\ q.del = NoId
          /\ q.new = nextId /\ q.seen = id /\ q.user = req[w].user
      BY <1>a, <2>2, <2>4 DEF Request
    <2>6. nextId' = nextId + 1 /\ nextId < nextId' /\ nextId' \in Nat
      BY <1>12, <1>a DEF CreateInsert
    <2>7. Becomes(w, q) /\ UNCHANGED <<locks, expired>>
      BY <1>12, <2>1 DEF CreateInsert
    <2> HIDE DEF q
    <2> QED
      BY <1>a, <2>3, <2>5, <2>6, <2>7, LocalStep
  <1>13. ASSUME NEW w \in Workers, CreateCommit(w) PROVE LockInv'
    <2> DEFINE q == [req[w] EXCEPT !.pc = "createNotify", !.newUnit = FALSE]
    <2>1. req[w] \in Request
      BY <1>13, <1>b DEF CreateCommit
    <2>2. /\ q \in Request /\ q.pc = "createNotify"
          /\ q.seen = req[w].seen /\ q.user = req[w].user
          /\ q.new = req[w].new /\ q.del = req[w].del
      BY <2>1 DEF Request
    <2> QED
      BY <1>13, <2>2, DeleteStep DEF CreateCommit, LockedByOther
  <1>14. CASE Deactivate
    BY <1>14 DEF Deactivate, LockInv, IssuedIds, FreshIds, SeenRows, ExpiredRows, DelRows,
       LockKeyUnique, OneWriterPerKey, LocksOn, Expired, At
  <1>15. CASE Expire
    <2>1. \A r : Expired(r) => Expired(r)'
      BY <1>15 DEF Expire, Expired
    <2>2. UNCHANGED <<locks, req, nextId>>
      BY <1>15 DEF Expire
    <2> QED
      BY <2>1, <2>2 DEF LockInv, IssuedIds, FreshIds, SeenRows, ExpiredRows, DelRows,
         LockKeyUnique, OneWriterPerKey, LocksOn, Expired, At
  <1>16. CASE UNCHANGED vars
    BY <1>16 DEF vars, LockInv, IssuedIds, FreshIds, SeenRows, ExpiredRows, DelRows,
       LockKeyUnique, OneWriterPerKey, LocksOn, Expired, At
  <1> QED
    BY <1>1, <1>2, <1>3, <1>4, <1>5, <1>6, <1>7, <1>8, <1>9, <1>10, <1>11,
       <1>12, <1>13, <1>14, <1>15, <1>16, <1>17, <1>18, <1>19
    DEF Next, Step, StartAcquire, StartRelease, StartCreate

\* Hence it holds in every reachable state.
LEMMA LockInvariant == Spec => [](TypeInv /\ LockInv)
  <1>1. Init => LockInv
    BY DEF Init, LockInv, IssuedIds, FreshIds, SeenRows, ExpiredRows, DelRows,
       LockKeyUnique, OneWriterPerKey, LocksOn, At, Idle
  <1>2. TypeInv /\ LockInv /\ [Next]_vars => LockInv'
    BY LockStep
  <1> QED
    BY <1>1, <1>2, TypeInvariant, PTL DEF Spec

-----------------------------------------------------------------------------
(* Live locks *)

\* A step that removes a live lock is a step of a request of the lock's user.
LEMMA LiveLockStep ==
  ASSUME TypeInv, LockInv, [Next]_vars, NEW r \in locks, r \notin locks', ~Expired(r)
  PROVE  UserSteps(r.user)
  <1> USE DEF Pcs, AcquirePcs, ReleasePcs, CreatePcs
  <1>1. TypeOK /\ r.id # NoId
    BY DEF TypeInv, TypeOK, LockRow, NoId
  <1>2. ASSUME NEW w \in Workers, req[w] # Idle, DeleteSeen(w), req'[w] # req[w]
        PROVE  UserSteps(r.user)
    BY <1>2 DEF DeleteSeen, LockInv, SeenRows, UserSteps
  <1>3. ASSUME NEW w \in Workers, ReleaseDelete(w)
        PROVE  UserSteps(r.user)
    <2>1. req[w] # Idle
      BY <1>3, BusyAt DEF ReleaseDelete
    <2>2. req'[w] = Idle
      BY <1>1, <1>3 DEF ReleaseDelete, Finish, Becomes, TypeOK
    <2> QED
      BY <1>2, <1>3, <2>1, <2>2 DEF ReleaseDelete
  <1>4. ASSUME NEW w \in Workers, CreateCommit(w)
        PROVE  UserSteps(r.user)
    <2>1. req[w] # Idle /\ req[w].pc = "createCommit"
      BY <1>4, BusyAt DEF CreateCommit, At
    <2> DEFINE q == [req[w] EXCEPT !.pc = "createNotify", !.newUnit = FALSE]
    <2>2. q.pc = "createNotify"
      BY <2>1, <1>1, RequestFields DEF Request
    <2>3. req'[w] = q
      BY <1>1, <1>4 DEF CreateCommit, Becomes, TypeOK
    <2> HIDE DEF q
    <2>4. req'[w] # req[w]
      BY <2>1, <2>2, <2>3
    <2> QED
      BY <1>2, <1>4, <2>1, <2>4 DEF CreateCommit
  <1>5. ASSUME NEW w \in Workers, AcquireCommit(w)
        PROVE  FALSE
    <2>1. req[w] # Idle
      BY <1>5, BusyAt DEF AcquireCommit
    <2>2. r.id = req[w].del
      BY <1>5 DEF AcquireCommit
    <2>3. \E s \in locks : s.id = r.id /\ Expired(s)
      BY <1>1, <2>1, <2>2 DEF LockInv, DelRows, LocksOn
    <2> QED
      BY <2>3 DEF LockInv, FreshIds
  <1>6. ASSUME NEW w \in Workers,
               \/ AcquireCheck(w) \/ AcquireRead(w) \/ AcquireInsert(w)
               \/ AcquireConflict(w) \/ ReleaseRead(w) \/ CreateLock(w)
               \/ CreateExpired(w) \/ CreateRefused(w)
               \/ CreateExisting(w) \/ CreateUnit(w) \/ CreateReject(w)
               \/ CreateInsert(w) \/ CreateNotify(w) \/ Crash(w)
        PROVE  FALSE
    BY <1>6 DEF AcquireCheck, AcquireRead, AcquireInsert, AcquireConflict,
       ReleaseRead, CreateLock, CreateExpired, CreateRefused, CreateExisting,
       CreateUnit, CreateReject, CreateInsert, CreateNotify, Crash
  <1>7. ASSUME NEW w \in Workers, NEW first, NEW u, NEW k, Start(w, first, u, k)
        PROVE  FALSE
    BY <1>7 DEF Start
  <1>8. ~Deactivate /\ ~Expire /\ ~UNCHANGED vars /\ \A s : ~CloseSession(s)
    BY DEF Deactivate, Expire, CloseSession, vars
  <1> QED
    BY <1>3, <1>4, <1>5, <1>6, <1>7, <1>8
    DEF Next, Step, StartAcquire, StartRelease, StartCreate

\* No handler removes a lock that another user holds and that has not expired,
\* however its SELECT and its DELETE interleave with releases, take-overs and
\* crashes: it needs neither serial clients nor a long TTL.
THEOREM LiveLocksAreSafe == Spec => LiveLockLeavesWithItsUser
  <1>1. TypeInv /\ LockInv /\ [Next]_vars =>
          [\A r \in locks :
             (r \notin locks' /\ ~Expired(r)) => UserSteps(r.user)]_vars
    BY LiveLockStep
  <1> QED
    BY <1>1, LockInvariant, PTL DEF Spec, LiveLockLeavesWithItsUser

-----------------------------------------------------------------------------
(* At most one active inspection *)

\* A user sends one request at a time.
Serial ==
  \A v, w \in Workers :
    (req[v] # Idle /\ req[w] # Idle /\ req[v].user = req[w].user) => v = w

HoldingPcs == {"createExisting", "createUnit", "createInsert", "createCommit"}

\* From the check of the lock to the commit the lock is there and is live.
LockHeld ==
  \A w \in Workers : req[w].pc \in HoldingPcs => HoldsLock(w)

\* From the check of the inspections to the commit none has appeared.
NothingActive ==
  \A w \in Workers :
    req[w].pc \in HoldingPcs \ {"createExisting"} => ActiveOn(req[w].key) = {}

IntakeInv == Serial /\ LockHeld /\ NothingActive /\ AtMostOneActive

\* What a step of one handler may do to its request and to the others': nobody
\* else moves but the takers of an expired lock that another one replaces; the
\* request keeps its user and its key; and it holds the lock on the way from
\* the check of the lock to the commit.
LEMMA HandlerStep ==
  ASSUME TypeInv, NEW w \in Workers, Step(w) \/ Crash(w)
  PROVE  /\ \A v \in Workers : req'[v] # Idle =>
              /\ req[v] # Idle
              /\ req'[v].user = req[v].user /\ req'[v].key = req[v].key
         /\ \A v \in Workers \ {w} :
              \/ req'[v] = req[v]
              \/ At(v, "acquireRead") /\ req'[v].pc = "acquireInsert"
         /\ req'[w].pc \in HoldingPcs =>
              /\ UNCHANGED <<locks, expired, inspections>>
              /\ req[w].pc \in HoldingPcs \/ HoldsLock(w)
         /\ req'[w].pc \in HoldingPcs \ {"createExisting"} =>
              \/ req[w].pc \in HoldingPcs \ {"createExisting"}
              \/ ActiveOn(req[w].key) = {}
  <1> USE DEF Pcs, AcquirePcs, ReleasePcs, CreatePcs, HoldingPcs
  <1> DEFINE Kept(v) == /\ req[v] # Idle
                        /\ req'[v].user = req[v].user
                        /\ req'[v].key = req[v].key
             Others == \A v \in Workers \ {w} : req'[v] = req[v]
  <1>1. TypeOK /\ Idle.pc = "idle"
    BY DEF TypeInv, Idle
  <1>2. ASSUME NEW pc \in Pcs, At(w, pc)
        PROVE  req[w] # Idle /\ req[w] \in Request /\ req[w].pc = pc
    BY <1>1, <1>2, BusyAt, RequestFields DEF At
  <1>3. ASSUME NEW q, Becomes(w, q)
        PROVE  req'[w] = q /\ Others
    BY <1>1, <1>3 DEF Becomes, TypeOK
  <1>4. ASSUME NEW pc \in Pcs, Goto(w, pc), req[w] # Idle
        PROVE  Others /\ Kept(w) /\ req'[w].pc = pc
    <2> DEFINE q == [req[w] EXCEPT !.pc = pc]
    <2>1. q.pc = pc /\ q.user = req[w].user /\ q.key = req[w].key
      BY <1>1, <1>4, RequestFields DEF Request
    <2>2. req'[w] = q /\ Others
      BY <1>3, <1>4 DEF Goto
    <2> HIDE DEF q
    <2> QED
      BY <1>4, <2>1, <2>2
  <1>5. ASSUME Finish(w)
        PROVE  Others /\ req'[w] = Idle
    BY <1>3, <1>5 DEF Finish
  <1>6. CASE \/ AcquireCheck(w) \/ CreateReject(w) \/ CreateNotify(w)
             \/ ReleaseDelete(w) \/ CreateRefused(w) \/ Crash(w)
    <2>1. Goto(w, "acquireRead") /\ AcquireCheck(w) => req[w] # Idle
      BY <1>2 DEF AcquireCheck
    <2>2. Finish(w) \/ (Goto(w, "acquireRead") /\ AcquireCheck(w))
      BY <1>6 DEF AcquireCheck, CreateReject, CreateNotify, ReleaseDelete,
         CreateRefused, Crash
    <2> QED
      BY <1>1, <1>4, <1>5, <2>1, <2>2
  <1>7. CASE AcquireRead(w)
    <2>1. req[w] # Idle /\ req[w] \in Request
      BY <1>2, <1>7 DEF AcquireRead
    <2>2. CASE Finish(w) \/ Goto(w, "acquireInsert")
      BY <1>1, <1>4, <1>5, <2>1, <2>2
    <2>3. ASSUME NEW r,
                 Becomes(w, [req[w] EXCEPT !.pc = "acquireInsert", !.del = r.id])
          PROVE  Others /\ Kept(w) /\ req'[w].pc = "acquireInsert"
      <3> DEFINE q == [req[w] EXCEPT !.pc = "acquireInsert", !.del = r.id]
      <3>1. q.pc = "acquireInsert" /\ q.user = req[w].user /\ q.key = req[w].key
        BY <2>1 DEF Request
      <3>2. req'[w] = q /\ Others
        BY <1>3, <2>3
      <3> HIDE DEF q
      <3> QED
        BY <2>1, <3>1, <3>2
    <2> QED
      BY <1>7, <2>1, <2>2, <2>3 DEF AcquireRead
  <1>8. CASE AcquireInsert(w)
    <2>1. req[w] # Idle /\ req[w] \in Request
      BY <1>2, <1>8 DEF AcquireInsert
    <2> DEFINE q == [req[w] EXCEPT !.pc = "acquireCommit", !.new = nextId]
    <2>2. q.pc = "acquireCommit" /\ q.user = req[w].user /\ q.key = req[w].key
      BY <2>1 DEF Request
    <2>3. req'[w] = q /\ Others
      BY <1>3, <1>8 DEF AcquireInsert
    <2> HIDE DEF q
    <2> QED
      BY <2>1, <2>2, <2>3
  <1>9. CASE AcquireConflict(w)
    <2>1. req[w] # Idle /\ req[w] \in Request
      BY <1>2, <1>9 DEF AcquireConflict
    <2> DEFINE q == [req[w] EXCEPT !.pc = "acquireRead", !.tries = req[w].tries + 1]
    <2>2. q.pc = "acquireRead" /\ q.user = req[w].user /\ q.key = req[w].key
      BY <2>1 DEF Request
    <2>3. (req'[w] = q \/ req'[w] = Idle) /\ Others
      BY <1>3, <1>5, <1>9 DEF AcquireConflict
    <2> HIDE DEF q
    <2> QED
      BY <1>1, <2>1, <2>2, <2>3
  <1>10. CASE AcquireCommit(w)
    <2>1. req[w] # Idle /\ req'[w] = Idle
      BY <1>2, <1>10 DEF AcquireCommit
    <2>2. ASSUME NEW v \in Workers \ {w}
          PROVE  \/ req'[v] = req[v]
                 \/ At(v, "acquireRead") /\ Kept(v) /\ req'[v].pc = "acquireInsert"
      <3>1. CASE ~At(v, "acquireRead")
        BY <1>10, <3>1 DEF AcquireCommit, Awaiting
      <3>2. CASE At(v, "acquireRead")
        <4> DEFINE q == [req[v] EXCEPT !.pc = "acquireInsert"]
        <4>1. req[v] \in Request /\ req[v] # Idle
          BY <1>1, <3>2, BusyAt, RequestFields
        <4>2. q.pc = "acquireInsert" /\ q.user = req[v].user /\ q.key = req[v].key
          BY <4>1 DEF Request
        <4>3. req'[v] = req[v] \/ req'[v] = q
          BY <1>10 DEF AcquireCommit
        <4> HIDE DEF q
        <4> QED
          BY <3>2, <4>1, <4>2, <4>3
      <3> QED
        BY <3>1, <3>2
    <2> QED
      BY <1>1, <2>1, <2>2
  <1>11. CASE ReleaseRead(w)
    <2>1. req[w] # Idle /\ req[w] \in Request
      BY <1>2, <1>11 DEF ReleaseRead
    <2>2. ASSUME NEW r,
                 Becomes(w, [req[w] EXCEPT !.pc = "releaseDelete", !.seen = r.id])
          PROVE  Others /\ Kept(w) /\ req'[w].pc = "releaseDelete"
      <3> DEFINE q == [req[w] EXCEPT !.pc = "releaseDelete", !.seen = r.id]
      <3>1. q.pc = "releaseDelete" /\ q.user = req[w].user /\ q.key = req[w].key
        BY <2>1 DEF Request
      <3>2. req'[w] = q /\ Others
        BY <1>3, <2>2
      <3> HIDE DEF q
      <3> QED
        BY <2>1, <3>1, <3>2
    <2> QED
      BY <1>1, <1>5, <1>11, <2>1, <2>2 DEF ReleaseRead
  <1>12. CASE CreateLock(w)
    <2>1. /\ req[w] # Idle /\ req[w] \in Request
          /\ UNCHANGED <<locks, expired, inspections>>
      BY <1>2, <1>12 DEF CreateLock
    <2>2. CASE Finish(w) \/ (Goto(w, "createExisting") /\ HoldsLock(w))
      BY <1>1, <1>4, <1>5, <2>1, <2>2
    <2>3. ASSUME NEW r,
                 Becomes(w, [req[w] EXCEPT !.pc = "createExpired", !.seen = r.id])
          PROVE  Others /\ Kept(w) /\ req'[w].pc = "createExpired"
      <3> DEFINE q == [req[w] EXCEPT !.pc = "createExpired", !.seen = r.id]
      <3>1. q.pc = "createExpired" /\ q.user = req[w].user /\ q.key = req[w].key
        BY <2>1 DEF Request
      <3>2. req'[w] = q /\ Others
        BY <1>3, <2>3
      <3> HIDE DEF q
      <3> QED
        BY <2>1, <3>1, <3>2
    <2> QED
      BY <1>12, <2>1, <2>2, <2>3 DEF CreateLock
  <1>17. CASE CreateExpired(w)
    <2>1. req[w] # Idle /\ req[w] \in Request
      BY <1>2, <1>17 DEF CreateExpired
    <2> DEFINE q == [req[w] EXCEPT !.pc = "createRefused", !.del = req[w].seen]
    <2>2. q.pc = "createRefused" /\ q.user = req[w].user /\ q.key = req[w].key
      BY <2>1 DEF Request
    <2>3. Becomes(w, q) \/ Goto(w, "createRefused")
      BY <1>17 DEF CreateExpired
    <2>4. CASE Becomes(w, q)
      <3>1. req'[w] = q /\ Others
        BY <1>3, <2>4
      <3> HIDE DEF q
      <3> QED
        BY <2>1, <2>2, <3>1
    <2>5. CASE Goto(w, "createRefused")
      BY <1>4, <2>1, <2>5
    <2> QED
      BY <2>3, <2>4, <2>5
  <1>13. CASE CreateExisting(w)
    <2>1. /\ req[w] # Idle /\ req[w].pc = "createExisting"
          /\ UNCHANGED <<locks, expired, inspections>>
      BY <1>2, <1>13 DEF CreateExisting
    <2>2. Finish(w) \/ (Goto(w, "createUnit") /\ ActiveOn(req[w].key) = {})
      BY <1>13 DEF CreateExisting
    <2> QED
      BY <1>1, <1>4, <1>5, <2>1, <2>2
  <1>14. CASE CreateUnit(w)
    <2>1. /\ req[w] # Idle /\ req[w] \in Request /\ req[w].pc = "createUnit"
          /\ UNCHANGED <<locks, expired, inspections>>
      BY <1>2, <1>14 DEF CreateUnit
    <2> DEFINE q == [req[w] EXCEPT !.pc = "createInsert", !.newUnit = TRUE]
    <2>2. q.pc = "createInsert" /\ q.user = req[w].user /\ q.key = req[w].key
      BY <2>1 DEF Request
    <2>3. Becomes(w, q) \/ Finish(w) \/ Goto(w, "createInsert")
      BY <1>14 DEF CreateUnit
    <2>4. CASE Becomes(w, q)
      <3>1. req'[w] = q /\ Others
        BY <1>3, <2>4
      <3> HIDE DEF q
      <3> QED
        BY <2>1, <2>2, <3>1
    <2>5. CASE Finish(w) \/ Goto(w, "createInsert")
      BY <1>1, <1>4, <1>5, <2>1, <2>5
    <2> QED
      BY <2>3, <2>4, <2>5
  <1>15. CASE CreateInsert(w)
    <2>1. /\ req[w] # Idle /\ req[w] \in Request /\ req[w].pc = "createInsert"
          /\ UNCHANGED <<locks, expired, inspections>>
      BY <1>2, <1>15 DEF CreateInsert
    <2>2. PICK id : Becomes(w, [req[w] EXCEPT !.pc = "createCommit", !.seen = id,
                                              !.new = nextId])
      BY <1>15 DEF CreateInsert
    <2> DEFINE q == [req[w] EXCEPT !.pc = "createCommit", !.seen = id, !.new = nextId]
    <2>3. q.pc = "createCommit" /\ q.user = req[w].user /\ q.key = req[w].key
      BY <2>1 DEF Request
    <2>4. req'[w] = q /\ Others
      BY <1>3, <2>2
    <2> HIDE DEF q
    <2> QED
      BY <2>1, <2>3, <2>4
  <1>16. CASE CreateCommit(w)
    <2>1. req[w] # Idle /\ req[w] \in Request
      BY <1>2, <1>16 DEF CreateCommit
    <2> DEFINE q == [req[w] EXCEPT !.pc = "createNotify", !.newUnit = FALSE]
    <2>2. q.pc = "createNotify" /\ q.user = req[w].user /\ q.key = req[w].key
      BY <2>1 DEF Request
    <2>3. req'[w] = q /\ Others
      BY <1>3, <1>16 DEF CreateCommit
    <2> HIDE DEF q
    <2> QED
      BY <2>1, <2>2, <2>3
  <1> QED
    BY <1>6, <1>7, <1>8, <1>9, <1>10, <1>11, <1>12, <1>13, <1>14, <1>15, <1>16,
       <1>17
    DEF Step

\* With serial clients and a TTL that covers a create, each step keeps the argument
\* for one active inspection per key.
LEMMA IntakeStep ==
  ASSUME SerialClients, TtlCoversCreate,
         TypeInv, LockInv, IntakeInv, [Next]_vars
  PROVE  IntakeInv'
  <1> USE DEF HoldingPcs
  <1>0. TypeOK /\ TypeOK' /\ Idle.pc = "idle"
    BY TypeStep DEF TypeInv, Idle
  <1>1. ASSUME NEW w \in Workers, Step(w) \/ Crash(w)
        PROVE  IntakeInv'
    <2>1. Serial'
      BY <1>1, HandlerStep DEF IntakeInv, Serial
    <2>2. LockHeld'
      <3> SUFFICES ASSUME NEW v \in Workers, req'[v].pc \in HoldingPcs
                   PROVE  HoldsLock(v)'
        BY DEF LockHeld
      <3>1. req'[v] # Idle
        BY <1>0
      <3>2. /\ req[v] # Idle
            /\ req'[v].user = req[v].user /\ req'[v].key = req[v].key
        BY <1>1, <3>1, HandlerStep
      <3>3. CASE v = w
        <4>1. HoldsLock(w) /\ UNCHANGED <<locks, expired>>
          BY <1>1, <3>3, HandlerStep DEF IntakeInv, LockHeld
        <4> QED
          BY <3>2, <3>3, <4>1 DEF HoldsLock, LocksOn, Expired
      <3>4. CASE v # w
        <4>1. req'[v] = req[v]
          BY <1>1, <3>4, HandlerStep
        <4>2. PICK r \in locks : r.key = req[v].key /\ ~Expired(r) /\ r.user = req[v].user
          BY <4>1 DEF IntakeInv, LockHeld, HoldsLock, LocksOn
        <4>3. ~UserSteps(r.user)
          BY <3>2, <4>1, <4>2 DEF UserSteps, IntakeInv, Serial
        <4>4. r \in locks'
          BY <4>2, <4>3, LiveLockStep
        <4>5. expired' = expired
          BY <1>1 DEF Step, Crash, AcquireCheck, AcquireRead, AcquireInsert,
             AcquireConflict, AcquireCommit, ReleaseRead, ReleaseDelete,
             CreateLock, CreateExpired, CreateRefused, CreateExisting, CreateUnit,
             CreateReject, CreateInsert, CreateCommit, CreateNotify
        <4> QED
          BY <4>1, <4>2, <4>4, <4>5 DEF HoldsLock, LocksOn, Expired
      <3> QED
        BY <3>3, <3>4
    <2>3. CASE CreateCommit(w)
      <3>1. req[w].pc = "createCommit" /\ req[w] # Idle
        BY <1>0, <2>3 DEF CreateCommit, At
      <3>2. inspections' = inspections \cup {NewInspection(w)}
        BY <2>3 DEF CreateCommit
      <3>3. NewInspection(w).key = req[w].key
        BY DEF NewInspection
      <3>4. ActiveOn(req[w].key) = {}
        BY <3>1 DEF IntakeInv, NothingActive
      <3>5. AtMostOneActive'
        BY <3>2, <3>3, <3>4 DEF IntakeInv, AtMostOneActive, ActiveOn
      <3>6. NothingActive'
        <4> SUFFICES ASSUME NEW v \in Workers,
                            req'[v].pc \in HoldingPcs \ {"createExisting"}
                     PROVE  ActiveOn(req[v].key)' = {}
          BY DEF NothingActive
        <4>1. NewInspection(w) \notin inspections
          BY <3>3, <3>4 DEF ActiveOn, NewInspection
        <4>2. v # w
          BY <1>1, <3>2, <4>1, HandlerStep
        <4>3. req'[v] = req[v] /\ req[v] # Idle
          BY <1>0, <1>1, <4>2, HandlerStep
        <4>4. HoldsLock(v) /\ HoldsLock(w) /\ ActiveOn(req[v].key) = {}
          BY <3>1, <4>3 DEF IntakeInv, LockHeld, NothingActive
        <4>5. req[v].key # req[w].key
          BY <3>1, <4>2, <4>3, <4>4
          DEF IntakeInv, Serial, LockInv, LockKeyUnique, HoldsLock, LocksOn
        <4> QED
          BY <3>2, <3>3, <4>3, <4>4, <4>5 DEF ActiveOn
      <3> QED
        BY <2>1, <2>2, <3>5, <3>6 DEF IntakeInv
    <2>4. CASE ~CreateCommit(w)
      <3>1. inspections' = inspections
        BY <1>1, <2>4 DEF Step, Crash, AcquireCheck, AcquireRead, AcquireInsert,
           AcquireConflict, AcquireCommit, ReleaseRead, ReleaseDelete,
           CreateLock, CreateExpired, CreateRefused, CreateExisting, CreateUnit,
           CreateReject, CreateInsert, CreateNotify
      <3>2. NothingActive'
        <4> SUFFICES ASSUME NEW v \in Workers,
                            req'[v].pc \in HoldingPcs \ {"createExisting"}
                     PROVE  ActiveOn(req[v].key)' = {}
          BY DEF NothingActive
        <4>1. /\ req[v] # Idle /\ req'[v].key = req[v].key
          BY <1>0, <1>1, HandlerStep
        <4>2. \/ req[v].pc \in HoldingPcs \ {"createExisting"}
              \/ ActiveOn(req[v].key) = {}
          BY <1>1, HandlerStep
        <4>3. ActiveOn(req[v].key) = {}
          BY <4>2 DEF IntakeInv, NothingActive
        <4> QED
          BY <3>1, <4>1, <4>3 DEF ActiveOn
      <3> QED
        BY <2>1, <2>2, <3>1, <3>2 DEF IntakeInv, AtMostOneActive
    <2> QED
      BY <2>3, <2>4
  <1>2. ASSUME NEW w \in Workers, NEW u \in Users, NEW k \in Keys,
               NEW first \in {"acquireCheck", "releaseRead", "createLock"},
               Start(w, first, u, k)
        PROVE  IntakeInv'
    <2> DEFINE q == NewRequest(first, u, k)
    <2>1. q.pc = first /\ q.user = u
      BY DEF NewRequest
    <2>2. req'[w] = q /\ \A v \in Workers \ {w} : req'[v] = req[v]
      BY <1>0, <1>2 DEF Start, Becomes, TypeOK
    <2>3. /\ UNCHANGED <<locks, expired, inspections>>
          /\ \A v \in Workers : req[v] # Idle => req[v].user # u
      BY <1>2 DEF Start
    <2> HIDE DEF q
    <2>4. Serial'
      BY <2>1, <2>2, <2>3 DEF IntakeInv, Serial
    <2>5. LockHeld'
      BY <2>1, <2>2, <2>3 DEF IntakeInv, LockHeld, HoldsLock, LocksOn, Expired
    <2>6. NothingActive' /\ AtMostOneActive'
      BY <2>1, <2>2, <2>3 DEF IntakeInv, NothingActive, ActiveOn, AtMostOneActive
    <2> QED
      BY <2>4, <2>5, <2>6 DEF IntakeInv
  <1>3. CASE Deactivate
    <2>1. UNCHANGED <<locks, expired, req>>
      BY <1>3 DEF Deactivate
    <2>2. \A i \in inspections' : i.active => i \in inspections
      BY <1>3, <1>0 DEF Deactivate, TypeOK, InspectionRow
    <2>3. \A k : ActiveOn(k)' \subseteq ActiveOn(k)
      BY <2>2 DEF ActiveOn
    <2>4. Serial' /\ LockHeld'
      BY <2>1 DEF IntakeInv, Serial, LockHeld, HoldsLock, LocksOn, Expired
    <2>5. NothingActive'
      BY <2>1, <2>3 DEF IntakeInv, NothingActive
    <2>6. AtMostOneActive'
      BY <2>2 DEF IntakeInv, AtMostOneActive
    <2> QED
      BY <2>4, <2>5, <2>6 DEF IntakeInv
  <1>4. CASE Expire
    <2>1. PICK r \in locks :
            /\ \A w \in Workers : (req[w].pc \in CreatePcs /\ req[w].key = r.key)
                                    => req[w].user # r.user
            /\ expired' = expired \cup {r.id}
      BY <1>4 DEF Expire
    <2>2. UNCHANGED <<locks, inspections, req>>
      BY <1>4 DEF Expire
    <2>3. LockHeld'
      <3> SUFFICES ASSUME NEW w \in Workers, req[w].pc \in HoldingPcs
                   PROVE  HoldsLock(w)'
        BY <2>2 DEF LockHeld
      <3>1. PICK s \in locks : s.key = req[w].key /\ ~Expired(s) /\ s.user = req[w].user
        BY DEF IntakeInv, LockHeld, HoldsLock, LocksOn
      <3>2. s.id # r.id
        BY <2>1, <3>1 DEF LockInv, FreshIds, CreatePcs
      <3> QED
        BY <2>1, <2>2, <3>1, <3>2 DEF HoldsLock, LocksOn, Expired
    <2>4. Serial' /\ NothingActive' /\ AtMostOneActive'
      BY <2>2 DEF IntakeInv, Serial, NothingActive, ActiveOn, AtMostOneActive
    <2> QED
      BY <2>3, <2>4 DEF IntakeInv
  <1>5. CASE UNCHANGED vars \/ \E s \in unclosed : CloseSession(s)
    BY <1>5 DEF vars, CloseSession, IntakeInv, Serial, LockHeld, HoldsLock, LocksOn, Expired,
       NothingActive, ActiveOn, AtMostOneActive
  <1> QED
    BY <1>1, <1>2, <1>3, <1>4, <1>5
    DEF Next, StartAcquire, StartRelease, StartCreate

\* When every user sends one request at a time and no lock expires under its
\* holder's create, a unit never has two active inspections in one direction.
\* The database has no constraint to that effect: the lock alone ensures it.
THEOREM OneActivePerUnit ==
  ASSUME SerialClients, TtlCoversCreate
  PROVE  Spec => []AtMostOneActive
  <1>1. Init => IntakeInv
    BY DEF Init, IntakeInv, Serial, LockHeld, NothingActive, AtMostOneActive,
       HoldingPcs, Idle
  <1>2. TypeInv /\ LockInv /\ IntakeInv /\ [Next]_vars => IntakeInv'
    BY IntakeStep
  <1>3. IntakeInv => AtMostOneActive
    BY DEF IntakeInv
  <1> QED
    BY <1>1, <1>2, <1>3, LockInvariant, PTL DEF Spec
-----------------------------------------------------------------------------
(* What is committed with what, and who waits for whom *)

\* Only a create that has yet to commit holds an uncommitted product unit.
NewUnits ==
  \A w \in Workers : (req[w] # Idle /\ req[w].newUnit) =>
    At(w, "createInsert") \/ At(w, "createCommit")

\* A create that is about to notify has committed its inspection.
Announced ==
  \A w \in Workers : At(w, "createNotify") =>
    \E i \in inspections : i.id = req[w].new

CommitInv == NewUnits /\ Announced /\ NoticesAndUnitsCommitted

\* A step of one process that leaves inspections, units and notices alone.
LEMMA CommitLocalStep ==
  ASSUME TypeOK, CommitInv, NEW w \in Workers, NEW q, Becomes(w, q),
         UNCHANGED <<inspections, units, notices>>,
         q # Idle => q.pc # "createNotify",
         (q # Idle /\ q.newUnit) => q.pc \in {"createInsert", "createCommit"}
  PROVE  CommitInv'
  <1>1. req'[w] = q /\ \A v \in Workers \ {w} : req'[v] = req[v]
    BY DEF Becomes, TypeOK
  <1>2. Idle.pc # "createNotify"
    BY DEF Idle
  <1>3. NewUnits'
    BY <1>1 DEF CommitInv, NewUnits, At
  <1>4. Announced'
    BY <1>1, <1>2 DEF CommitInv, Announced, At
  <1> QED
    BY <1>3, <1>4 DEF CommitInv, NoticesAndUnitsCommitted

\* Every step commits a unit with its inspection and announces what is committed.
LEMMA CommitStep == TypeOK /\ CommitInv /\ [Next]_vars => CommitInv'
  <1> SUFFICES ASSUME TypeOK, CommitInv, [Next]_vars PROVE CommitInv'
    OBVIOUS
  <1> USE DEF Pcs, AcquirePcs, ReleasePcs, CreatePcs
  <1>a. ASSUME NEW w \in Workers, Finish(w), UNCHANGED <<inspections, units, notices>>
        PROVE  CommitInv'
    BY <1>a, CommitLocalStep DEF Finish
  <1>b. ASSUME NEW w \in Workers, NEW from \in Pcs, At(w, from)
        PROVE  /\ req[w] \in Request
               /\ req[w].newUnit => from \in {"createInsert", "createCommit"}
    <2>1. req[w] # Idle /\ req[w] \in Request
      BY <1>b, BusyAt, RequestFields
    <2> QED
      BY <1>b, <2>1 DEF CommitInv, NewUnits, At
  <1>c. ASSUME NEW w \in Workers, NEW from \in Pcs, At(w, from),
               NEW q, Becomes(w, q), UNCHANGED <<inspections, units, notices>>,
               q.pc # "createNotify",
               q.newUnit = req[w].newUnit,
               from \in {"createInsert", "createCommit"}
                 => q.pc \in {"createInsert", "createCommit"}
        PROVE  CommitInv'
    BY <1>b, <1>c, CommitLocalStep
  <1>d. ASSUME NEW w \in Workers, NEW from \in Pcs, At(w, from), NEW pc \in Pcs,
               Goto(w, pc), UNCHANGED <<inspections, units, notices>>,
               pc # "createNotify",
               from \in {"createInsert", "createCommit"}
                 => pc \in {"createInsert", "createCommit"}
        PROVE  CommitInv'
    <2> DEFINE q == [req[w] EXCEPT !.pc = pc]
    <2>1. q.pc = pc /\ q.newUnit = req[w].newUnit /\ Becomes(w, q)
      BY <1>b, <1>d DEF Request, Goto
    <2> HIDE DEF q
    <2> QED
      BY <1>c, <1>d, <2>1
  <1>1. ASSUME NEW w \in Workers, NEW u \in Users, NEW k \in Keys,
               NEW first \in {"acquireCheck", "releaseRead", "createLock"},
               Start(w, first, u, k)
        PROVE  CommitInv'
    <2> DEFINE q == NewRequest(first, u, k)
    <2>1. q.pc = first /\ q.newUnit = FALSE /\ Becomes(w, q)
          /\ UNCHANGED <<inspections, units, notices>>
      BY <1>1 DEF Start, NewRequest
    <2> HIDE DEF q
    <2> QED
      BY <2>1, CommitLocalStep
  <1>2. ASSUME NEW w \in Workers, AcquireCheck(w) PROVE CommitInv'
    BY <1>2, <1>a, <1>d DEF AcquireCheck
  <1>3. ASSUME NEW w \in Workers, AcquireRead(w) PROVE CommitInv'
    <2>1. ASSUME NEW r \in locks,
                 Becomes(w, [req[w] EXCEPT !.pc = "acquireInsert", !.del = r.id])
          PROVE  CommitInv'
      <3> DEFINE q == [req[w] EXCEPT !.pc = "acquireInsert", !.del = r.id]
      <3>1. q.pc = "acquireInsert" /\ q.newUnit = req[w].newUnit /\ At(w, "acquireRead")
        BY <1>3, <1>b DEF Request, AcquireRead
      <3>2. UNCHANGED <<inspections, units, notices>> /\ Becomes(w, q)
        BY <1>3, <2>1 DEF AcquireRead
      <3> HIDE DEF q
      <3> QED
        BY <1>c, <3>1, <3>2
    <2>2. CASE Goto(w, "acquireInsert")
      <3>1. At(w, "acquireRead") /\ UNCHANGED <<inspections, units, notices>>
        BY <1>3 DEF AcquireRead
      <3>2. "acquireRead" \in Pcs /\ "acquireInsert" \in Pcs
            /\ "acquireInsert" # "createNotify"
            /\ "acquireRead" \notin {"createInsert", "createCommit"}
        OBVIOUS
      <3> QED
        BY <1>d, <2>2, <3>1, <3>2
    <2>3. CASE Finish(w)
      BY <1>3, <1>a, <2>3 DEF AcquireRead
    <2> QED
      BY <1>3, <2>1, <2>2, <2>3 DEF AcquireRead, LocksOn
  <1>4. ASSUME NEW w \in Workers, AcquireInsert(w) PROVE CommitInv'
    <2> DEFINE q == [req[w] EXCEPT !.pc = "acquireCommit", !.new = nextId]
    <2>1. q.pc = "acquireCommit" /\ q.newUnit = req[w].newUnit /\ At(w, "acquireInsert")
      BY <1>4, <1>b DEF Request, AcquireInsert
    <2>2. UNCHANGED <<inspections, units, notices>> /\ Becomes(w, q)
      BY <1>4 DEF AcquireInsert
    <2> HIDE DEF q
    <2> QED
      BY <1>c, <2>1, <2>2
  <1>5. ASSUME NEW w \in Workers, AcquireConflict(w) PROVE CommitInv'
    <2> DEFINE q == [req[w] EXCEPT !.pc = "acquireRead", !.tries = req[w].tries + 1]
    <2>1. q.pc = "acquireRead" /\ q.newUnit = req[w].newUnit /\ At(w, "acquireInsert")
      BY <1>5, <1>b DEF Request, AcquireConflict
    <2>2. UNCHANGED <<inspections, units, notices>> /\ (Becomes(w, q) \/ Finish(w))
      BY <1>5 DEF AcquireConflict
    <2> HIDE DEF q
    <2> QED
      BY <1>a, <1>c, <2>1, <2>2
  <1>6. ASSUME NEW w \in Workers, AcquireCommit(w) PROVE CommitInv'
    <2>1. PICK W \in SUBSET Awaiting(w) :
            req' = [v \in Workers |->
                      IF v = w THEN Idle
                      ELSE IF v \in W THEN [req[v] EXCEPT !.pc = "acquireInsert"]
                      ELSE req[v]]
      BY <1>6 DEF AcquireCommit
    <2>2. UNCHANGED <<inspections, units, notices>>
      BY <1>6 DEF AcquireCommit
    <2>3. \A v \in W : v \in Workers /\ At(v, "acquireRead")
      BY DEF Awaiting
    <2>4. \A v \in W : req[v] # Idle /\ ~req[v].newUnit /\ req[v] \in Request
      BY <2>3, <1>b, BusyAt
    <2>5. \A v \in W : v # w =>
            /\ req'[v].pc = "acquireInsert"
            /\ req'[v].newUnit = req[v].newUnit
      BY <2>1, <2>3, <2>4 DEF Request
    <2>6. \A v \in Workers : v # w /\ v \notin W => req'[v] = req[v]
      BY <2>1
    <2>7. req'[w] = Idle /\ Idle.pc # "createNotify"
      BY <2>1 DEF Idle
    <2>8. NewUnits'
      BY <2>3, <2>4, <2>5, <2>6, <2>7 DEF CommitInv, NewUnits, At
    <2>9. Announced'
      BY <2>2, <2>5, <2>6, <2>7 DEF CommitInv, Announced, At
    <2> QED
      BY <2>2, <2>8, <2>9 DEF CommitInv, NoticesAndUnitsCommitted
  <1>7. ASSUME NEW w \in Workers, ReleaseRead(w) PROVE CommitInv'
    <2>1. ASSUME NEW r \in MayDelete(w),
                 Becomes(w, [req[w] EXCEPT !.pc = "releaseDelete", !.seen = r.id])
          PROVE  CommitInv'
      <3> DEFINE q == [req[w] EXCEPT !.pc = "releaseDelete", !.seen = r.id]
      <3>1. q.pc = "releaseDelete" /\ q.newUnit = req[w].newUnit /\ At(w, "releaseRead")
        BY <1>7, <1>b DEF Request, ReleaseRead
      <3>2. UNCHANGED <<inspections, units, notices>> /\ Becomes(w, q)
        BY <1>7, <2>1 DEF ReleaseRead
      <3> HIDE DEF q
      <3> QED
        BY <1>c, <3>1, <3>2
    <2> QED
      BY <1>7, <1>a, <2>1 DEF ReleaseRead
  <1>8. ASSUME NEW w \in Workers,
               \/ ReleaseDelete(w) \/ CreateReject(w)
               \/ CreateRefused(w) \/ Crash(w)
        PROVE  CommitInv'
    BY <1>8, <1>a DEF ReleaseDelete, CreateReject, CreateRefused, Crash
  <1>9. ASSUME NEW w \in Workers, CreateExisting(w) PROVE CommitInv'
    BY <1>9, <1>a, <1>d DEF CreateExisting
  <1>16. ASSUME NEW w \in Workers, CreateLock(w) PROVE CommitInv'
    <2>0. At(w, "createLock") /\ UNCHANGED <<inspections, units, notices>>
      BY <1>16 DEF CreateLock
    <2>1. ASSUME NEW r,
                 Becomes(w, [req[w] EXCEPT !.pc = "createExpired", !.seen = r.id])
          PROVE  CommitInv'
      <3> DEFINE q == [req[w] EXCEPT !.pc = "createExpired", !.seen = r.id]
      <3>1. q.pc = "createExpired" /\ q.newUnit = req[w].newUnit
        BY <2>0, <1>b DEF Request
      <3>2. Becomes(w, q)
        BY <2>1
      <3> HIDE DEF q
      <3> QED
        BY <1>c, <2>0, <3>1, <3>2
    <2>2. CASE Goto(w, "createExisting")
      BY <1>d, <2>0, <2>2
    <2>3. CASE Finish(w)
      BY <1>a, <2>0, <2>3
    <2> QED
      BY <1>16, <2>1, <2>2, <2>3 DEF CreateLock
  <1>17. ASSUME NEW w \in Workers, CreateExpired(w) PROVE CommitInv'
    <2>0. At(w, "createExpired") /\ UNCHANGED <<inspections, units, notices>>
      BY <1>17 DEF CreateExpired
    <2> DEFINE q == [req[w] EXCEPT !.pc = "createRefused", !.del = req[w].seen]
    <2>1. q.pc = "createRefused" /\ q.newUnit = req[w].newUnit
      BY <2>0, <1>b DEF Request
    <2>2. Becomes(w, q) \/ Goto(w, "createRefused")
      BY <1>17 DEF CreateExpired
    <2> HIDE DEF q
    <2>3. CASE Becomes(w, q)
      BY <1>c, <2>0, <2>1, <2>3
    <2>4. CASE Goto(w, "createRefused")
      BY <1>d, <2>0, <2>4
    <2> QED
      BY <2>2, <2>3, <2>4
  <1>10. ASSUME NEW w \in Workers, CreateUnit(w) PROVE CommitInv'
    <2> DEFINE q == [req[w] EXCEPT !.pc = "createInsert", !.newUnit = TRUE]
    <2>1. q.pc = "createInsert" /\ UNCHANGED <<inspections, units, notices>>
      BY <1>10, <1>b DEF Request, CreateUnit
    <2>2. ASSUME Becomes(w, q) PROVE CommitInv'
      <3> HIDE DEF q
      <3> QED
        BY <2>1, <2>2, CommitLocalStep
    <2> QED
      BY <1>10, <1>a, <1>d, <2>2 DEF CreateUnit
  <1>11. ASSUME NEW w \in Workers, CreateInsert(w) PROVE CommitInv'
    <2>1. PICK id : Becomes(w, [req[w] EXCEPT !.pc = "createCommit", !.seen = id,
                                              !.new = nextId])
      BY <1>11 DEF CreateInsert
    <2> DEFINE q == [req[w] EXCEPT !.pc = "createCommit", !.seen = id, !.new = nextId]
    <2>2. q.pc = "createCommit" /\ UNCHANGED <<inspections, units, notices>>
      BY <1>11, <1>b DEF Request, CreateInsert
    <2>3. Becomes(w, q)
      BY <2>1
    <2> HIDE DEF q
    <2> QED
      BY <2>2, <2>3, CommitLocalStep
  <1>12. ASSUME NEW w \in Workers, CreateCommit(w) PROVE CommitInv'
    <2> DEFINE q == [req[w] EXCEPT !.pc = "createNotify", !.newUnit = FALSE]
    <2>1. req[w] \in Request
      BY <1>12, <1>b DEF CreateCommit
    <2>2. q.pc = "createNotify" /\ q.newUnit = FALSE /\ q.new = req[w].new
      BY <2>1 DEF Request
    <2>3. req'[w] = q /\ \A v \in Workers \ {w} : req'[v] = req[v]
      BY <1>12 DEF CreateCommit, Becomes, TypeOK
    <2>4. /\ inspections' = inspections \cup {NewInspection(w)}
          /\ units' = units \cup {UnitOf(req[w].key)} /\ notices' = notices
      BY <1>12 DEF CreateCommit
    <2>5. NewInspection(w).id = req[w].new /\ NewInspection(w).key = req[w].key
      BY DEF NewInspection
    <2> HIDE DEF q
    <2>6. NewUnits'
      BY <2>2, <2>3 DEF CommitInv, NewUnits, At
    <2>7. Announced'
      BY <2>2, <2>3, <2>4, <2>5 DEF CommitInv, Announced, At
    <2>8. NoticesAndUnitsCommitted'
      BY <2>4, <2>5 DEF CommitInv, NoticesAndUnitsCommitted
    <2> QED
      BY <2>6, <2>7, <2>8 DEF CommitInv
  <1>13. ASSUME NEW w \in Workers, CreateNotify(w) PROVE CommitInv'
    <2>1. \E i \in inspections : i.id = req[w].new
      BY <1>13 DEF CreateNotify, CommitInv, Announced
    <2>2. req'[w] = Idle /\ \A v \in Workers \ {w} : req'[v] = req[v]
      BY <1>13 DEF CreateNotify, Finish, Becomes, TypeOK
    <2>3. UNCHANGED <<inspections, units>>
          /\ (notices' = notices \cup {req[w].new} \/ notices' = notices)
      BY <1>13 DEF CreateNotify
    <2>4. NewUnits'
      BY <2>2 DEF CommitInv, NewUnits, At
    <2>5. Announced'
      BY <2>2, <2>3 DEF CommitInv, Announced, At, Idle
    <2>6. NoticesAndUnitsCommitted'
      BY <2>1, <2>3 DEF CommitInv, NoticesAndUnitsCommitted
    <2> QED
      BY <2>4, <2>5, <2>6 DEF CommitInv
  <1>14. CASE Deactivate
    <2>1. PICK i \in inspections :
            inspections' = (inspections \ {i}) \cup {[i EXCEPT !.active = FALSE]}
      BY <1>14 DEF Deactivate
    <2> DEFINE j == [i EXCEPT !.active = FALSE]
    <2>2. j.id = i.id /\ j.key = i.key
      BY DEF TypeOK, InspectionRow
    <2>3. UNCHANGED <<units, notices, req>>
      BY <1>14 DEF Deactivate
    <2> HIDE DEF j
    <2>4. inspections' = (inspections \ {i}) \cup {j}
      BY <2>1 DEF j
    <2> QED
      BY <2>2, <2>3, <2>4 DEF CommitInv, NewUnits, Announced,
         NoticesAndUnitsCommitted, At
  <1>15. CASE Expire \/ UNCHANGED vars \/ \E s \in unclosed : CloseSession(s)
    BY <1>15 DEF Expire, CloseSession, vars, CommitInv, NewUnits, Announced,
       NoticesAndUnitsCommitted, At
  <1> QED
    BY <1>1, <1>2, <1>3, <1>4, <1>5, <1>6, <1>7, <1>8, <1>9, <1>10, <1>11,
       <1>12, <1>13, <1>14, <1>15, <1>16, <1>17
    DEF Next, Step, StartAcquire, StartRelease, StartCreate

LEMMA CommitInvariant == Spec => []CommitInv
  <1>1. Init => CommitInv
    BY DEF Init, CommitInv, NewUnits, Announced, NoticesAndUnitsCommitted, At, Idle
  <1>2. TypeOK /\ CommitInv /\ [Next]_vars => CommitInv'
    BY CommitStep
  <1> QED
    BY <1>1, <1>2, TypeCorrect, PTL DEF Spec

\* Reviewers are told only of committed inspections, and a committed inspection
\* has its product unit, for any processes, requests, rollbacks and crashes.
THEOREM CommittedBeforeTold == Spec => []NoticesAndUnitsCommitted
  BY CommitInvariant, PTL DEF CommitInv

\* A transaction that has inserted a lock row, or else one that has deleted an
\* expired row, or else one that has inserted a product unit, waits for nobody,
\* or else for a refused acquire.
LEMMA SomebodyRuns ==
  ASSUME TypeInv, LockInv, CommitInv
  PROVE  NoWaitCycle
  <1> SUFFICES ASSUME NEW w0 \in Workers, req[w0] # Idle,
                      \A w \in Workers, s \in unclosed : ~Wants(w, s.row)
               PROVE  \E w \in Workers : req[w] # Idle /\ ~Waiting(w)
    BY DEF NoWaitCycle
  <1> USE DEF Pcs, AcquirePcs, ReleasePcs, CreatePcs
  <1>0. ASSUME NEW w \in Workers, NEW id, Wants(w, id), LockedByOther(w, id)
        PROVE  DeletedByOther(w, id)
    BY <1>0 DEF LockedByOther
  <1>1. CASE \E v \in Workers : At(v, "acquireCommit")
    BY <1>1, BusyAt DEF Waiting, Wants, At
  <1>2. ASSUME ~\E v \in Workers : At(v, "acquireCommit"),
               NEW v \in Workers, req[v] # Idle, req[v].del # NoId
        PROVE  ~Waiting(v)
    <2>1. At(v, "acquireInsert") \/ At(v, "createRefused")
      BY <1>2 DEF LockInv, DelRows
    <2>2. ~InsertedByOther(v, req[v].key)
      BY <1>2 DEF InsertedByOther
    <2>3. ASSUME NEW r \in LocksOn(req[v].key)
          PROVE  ~DeletedByOther(v, r.id)
      <3>1. PICK s \in LocksOn(req[v].key) : s.id = req[v].del
        BY <1>2 DEF LockInv, DelRows
      <3>2. r = s
        BY DEF LockInv, LockKeyUnique, LocksOn
      <3> QED
        BY <1>2, <3>1, <3>2 DEF LockInv, DelRows, DeletedByOther
    <2> QED
      BY <2>1, <2>2, <2>3 DEF Waiting, Wants, InsertBlocked, At
  <1>3. CASE \A v \in Workers : ~At(v, "acquireCommit")
                                 /\ (req[v] # Idle => req[v].del = NoId)
    <2>1. \A v \in Workers : \A id : ~DeletedByOther(v, id)
      BY <1>3 DEF DeletedByOther
    <2>2. \A v \in Workers : \A k : ~InsertedByOther(v, k)
      BY <1>3 DEF InsertedByOther
    <2>3. \A v \in Workers : Waiting(v) =>
            At(v, "createUnit") /\ UnitInsertedByOther(v, UnitOf(req[v].key))
      BY <1>0, <2>1, <2>2 DEF Waiting, InsertBlocked
    <2>4. ASSUME NEW v \in Workers, req[v] # Idle, req[v].newUnit
          PROVE  ~Waiting(v)
      BY <2>3, <2>4 DEF CommitInv, NewUnits, At
    <2> QED
      BY <2>3, <2>4 DEF UnitInsertedByOther
  <1> QED
    BY <1>1, <1>2, <1>3

\* The handlers of the intake never wait for one another in a circle but through
\* a refused acquire whose session is still open, for any number of processes,
\* users, units and directions.
THEOREM CirclesNeedRefusals == Spec => []NoWaitCycle
  BY SomebodyRuns, LockInvariant, CommitInvariant, PTL
=============================================================================
