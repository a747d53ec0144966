-------------------------- MODULE TaskQueueProofs --------------------------
(***************************************************************************)
(* Proofs about TaskQueue, for every set of tasks and of worker processes, *)
(* every number of attempts and any number of faults.                      *)
(***************************************************************************)
EXTENDS TaskQueue, FiniteSetTheorems, TLAPS

-----------------------------------------------------------------------------
(* Types *)

\* Messages and executions are those of a task whose row was committed before.
Known ==
  /\ \A t \in sending : row[t] \in Row
  /\ \A t \in Tasks : \A k \in Retries : ready[t][k] > 0 => row[t] \in Row
  /\ \A p \in Workers : worker[p] # Idle => row[worker[p].task] \in Row

TypeInv == TypeOK /\ Known

\* A process goes over to another execution, or to none.
Becomes(p, e) == worker' = [worker EXCEPT ![p] = e]

LEMMA NotIdle == ASSUME NEW e \in Execution PROVE e # Idle
  <1>1. e.pc # "idle"
    BY DEF Execution, Pcs
  <1> QED
    BY <1>1 DEF Idle

LEMMA AtWork ==
  ASSUME TypeOK, NEW p \in Workers, worker[p] # Idle
  PROVE  /\ worker[p] \in Execution
         /\ worker[p].task \in Tasks /\ worker[p].retries \in Retries
         /\ worker[p].seen \in [status : Status \cup {"expired"}, attempts : Nat]
         /\ worker[p].seen.attempts \in Nat /\ worker[p].pc \in Pcs
  BY DEF TypeOK, Execution

LEMMA AtIsAtWork ==
  ASSUME NEW p \in Workers, NEW c, At(p, c), c # "idle"
  PROVE  worker[p] # Idle
  BY DEF At, Idle

\* What a step of an execution makes of it.
Stepped(p, c) == [worker[p] EXCEPT !.pc = c]
SteppedSeeing(p, c, seen) == [worker[p] EXCEPT !.pc = c, !.seen = seen]

Seen == [status : Status \cup {"expired"}, attempts : Nat]

LEMMA GotoIs ==
  ASSUME TypeOK, NEW p \in Workers, worker[p] # Idle, NEW c \in Pcs
  PROVE  /\ Goto(p, c) => Becomes(p, Stepped(p, c))
         /\ Stepped(p, c) \in Execution
         /\ Stepped(p, c).pc = c
         /\ Stepped(p, c).task = worker[p].task
         /\ Stepped(p, c).retries = worker[p].retries
         /\ Stepped(p, c).seen = worker[p].seen
  <1>1. worker[p] \in Execution
    BY AtWork
  <1> QED
    BY <1>1 DEF Goto, Becomes, Stepped, Execution

LEMMA SeesIs ==
  ASSUME TypeOK, NEW p \in Workers, worker[p] # Idle, NEW c \in Pcs, NEW seen \in Seen
  PROVE  /\ Sees(p, c, seen) => Becomes(p, SteppedSeeing(p, c, seen))
         /\ SteppedSeeing(p, c, seen) \in Execution
         /\ SteppedSeeing(p, c, seen).pc = c
         /\ SteppedSeeing(p, c, seen).task = worker[p].task
         /\ SteppedSeeing(p, c, seen).retries = worker[p].retries
         /\ SteppedSeeing(p, c, seen).seen = seen
  <1>1. worker[p] \in Execution
    BY AtWork
  <1> QED
    BY <1>1 DEF Sees, Becomes, SteppedSeeing, Execution, Seen

LEMMA FaultIs ==
  ASSUME NEW t, Fault(t)
  PROVE  faults' = [faults EXCEPT ![t] = faults[t] + 1]
  BY Zenon DEF Fault

\* An assignment to the row of a task keeps what is known of it.
LEMMA AssignTyped ==
  ASSUME TypeInv, NEW t \in Tasks, row[t] \in Row, NEW seen, NEW s \in Status,
         Assign(t, seen, s)
  PROVE  /\ row' \in [Tasks -> Row \cup {NoRow}]
         /\ \A u \in Tasks : row[u] \in Row => row'[u] \in Row
         /\ \A u \in Tasks : row'[u].attempts = row[u].attempts
         /\ \A u \in Tasks \ {t} : row'[u] = row[u]
  <1> DEFINE v == IF seen.status = s THEN row[t].status ELSE s
             r == [row[t] EXCEPT !.status = v]
  <1>1. v \in Status
    BY DEF Row
  <1>2. row' = [row EXCEPT ![t] = r]
    BY DEF Assign
  <1> HIDE DEF v
  <1>3. r \in Row /\ r.attempts = row[t].attempts
    BY <1>1 DEF Row
  <1> HIDE DEF r
  <1> QED
    BY <1>2, <1>3 DEF TypeInv, TypeOK

\* An execution of a task that has a row, or none, keeps the invariant.
LEMMA TypeTurns ==
  ASSUME TypeInv, NEW p \in Workers, NEW e \in Execution \cup {Idle}, Becomes(p, e),
         e # Idle => row'[e.task] \in Row,
         row' \in [Tasks -> Row \cup {NoRow}],
         \A u \in Tasks : row[u] \in Row => row'[u] \in Row,
         UNCHANGED sending,
         ready' \in [Tasks -> [Retries -> Nat]],
         \A t \in Tasks : \A k \in Retries : ready'[t][k] > 0 => row'[t] \in Row,
         effects' \in [Tasks -> Nat], faults' \in [Tasks -> Nat]
  PROVE  TypeInv'
  <1>1. /\ worker' \in [Workers -> Execution \cup {Idle}]
        /\ \A q \in Workers : worker'[q] = IF q = p THEN e ELSE worker[q]
    BY DEF Becomes, TypeInv, TypeOK
  <1>2. ASSUME NEW q \in Workers, worker'[q] # Idle PROVE row'[worker'[q].task] \in Row
    <2>1. CASE q = p
      BY <1>1, <1>2, <2>1
    <2>2. CASE q # p
      BY <1>1, <1>2, <2>2, AtWork DEF TypeInv, Known
    <2> QED
      BY <2>1, <2>2
  <1>3. \A t \in sending' : row'[t] \in Row
    BY DEF TypeInv, TypeOK, Known
  <1> QED
    BY <1>1, <1>2, <1>3 DEF TypeInv, TypeOK, Known

LEMMA TypeInit == Init => TypeInv
  BY DEF Init, TypeInv, TypeOK, Known

LEMMA TypeStep == TypeInv /\ [Next]_vars => TypeInv'
  <1> SUFFICES ASSUME TypeInv, [Next]_vars PROVE TypeInv'
    OBVIOUS
  <1>0. /\ row \in [Tasks -> Row \cup {NoRow}] /\ sending \subseteq Tasks
        /\ ready \in [Tasks -> [Retries -> Nat]]
        /\ effects \in [Tasks -> Nat] /\ faults \in [Tasks -> Nat]
        /\ worker \in [Workers -> Execution \cup {Idle}] /\ TypeOK
        /\ \A t \in sending : row[t] \in Row
        /\ \A t \in Tasks : \A k \in Retries : ready[t][k] > 0 => row[t] \in Row
        /\ \A p \in Workers : worker[p] # Idle => row[worker[p].task] \in Row
    BY DEF TypeInv, TypeOK, Known
  <1>k. 0 \in Retries
    BY QueueAssumption DEF Retries
  <1>f. ASSUME NEW t \in Tasks, Fault(t) PROVE faults' \in [Tasks -> Nat]
    BY <1>0, <1>f, FaultIs
  <1>r. ASSUME NEW t \in Tasks, NEW k \in Retries, NEW n \in Nat, row[t] \in Row,
               ready' = [ready EXCEPT ![t][k] = n]
        PROVE  /\ ready' \in [Tasks -> [Retries -> Nat]]
               /\ \A u \in Tasks : \A i \in Retries : ready'[u][i] > 0 => row[u] \in Row
    BY <1>0, <1>r
  <1>1. ASSUME NEW t \in Tasks, Create(t) PROVE TypeInv'
    <2>1. [status |-> "queued", attempts |-> 0] \in Row
      BY DEF Row, Status
    <2>2. /\ row' \in [Tasks -> Row \cup {NoRow}] /\ row'[t] \in Row
          /\ \A u \in Tasks : row[u] \in Row => row'[u] \in Row
      BY <1>0, <1>1, <2>1 DEF Create
    <2>3. \A p \in Workers : worker[p] # Idle => worker[p].task \in Tasks
      BY <1>0, AtWork
    <2> QED
      BY <1>0, <1>1, <2>2, <2>3 DEF Create, TypeInv, TypeOK, Known
  <1>2. ASSUME NEW t \in Tasks, Dispatch(t) PROVE TypeInv'
    <2>1. ready[t][0] + 1 \in Nat /\ row[t] \in Row
      BY <1>0, <1>2, <1>k DEF Dispatch
    <2>2. ready' = [ready EXCEPT ![t][0] = ready[t][0] + 1]
      BY <1>2 DEF Dispatch
    <2>3. /\ ready' \in [Tasks -> [Retries -> Nat]]
          /\ \A u \in Tasks : \A i \in Retries : ready'[u][i] > 0 => row[u] \in Row
      BY <1>r, <1>k, <2>1, <2>2
    <2> QED
      BY <1>0, <1>2, <2>3 DEF Dispatch, TypeInv, TypeOK, Known
  <1>3. ASSUME NEW t \in Tasks, DispatchFails(t) PROVE TypeInv'
    BY <1>0, <1>3, <1>f DEF DispatchFails, TypeInv, TypeOK, Known
  <1>4. ASSUME NEW p \in Workers, NEW t \in Tasks, NEW k \in Retries, Take(p, t, k)
        PROVE  TypeInv'
    <2> DEFINE e == [pc |-> "load", task |-> t, retries |-> k,
                     seen |-> [status |-> "expired", attempts |-> 0]]
    <2>1. e \in Execution /\ e.task = t
      BY DEF Execution, Pcs
    <2>2. ready[t][k] - 1 \in Nat /\ row[t] \in Row
      BY <1>0, <1>4 DEF Take
    <2>3. Becomes(p, e) /\ ready' = [ready EXCEPT ![t][k] = ready[t][k] - 1]
      BY <1>4 DEF Take, Becomes
    <2> HIDE DEF e
    <2>4. /\ ready' \in [Tasks -> [Retries -> Nat]]
          /\ \A u \in Tasks : \A i \in Retries : ready'[u][i] > 0 => row[u] \in Row
      BY <1>r, <2>2, <2>3
    <2>5. UNCHANGED <<row, sending, effects, faults>>
      BY <1>4 DEF Take
    <2> QED
      BY <1>0, <2>1, <2>2, <2>3, <2>4, <2>5, TypeTurns
  \* A step of an execution that changes no row and no message.
  <1>5. ASSUME NEW p \in Workers, NEW e \in Execution \cup {Idle}, Becomes(p, e),
               worker[p] # Idle, e # Idle => e.task = worker[p].task,
               UNCHANGED <<row, sending, ready>>,
               effects' \in [Tasks -> Nat], faults' \in [Tasks -> Nat]
        PROVE  TypeInv'
    BY <1>0, <1>5, TypeTurns
  \* A step of an execution that assigns to the status of its row.
  <1>6. ASSUME NEW p \in Workers, NEW c \in Pcs, worker[p] # Idle, NEW s \in Status,
               Assign(worker[p].task, worker[p].seen, s), Goto(p, c),
               UNCHANGED <<sending, ready, effects, faults>>
        PROVE  TypeInv'
    <2> DEFINE t == worker[p].task
               e == [worker[p] EXCEPT !.pc = c]
    <2>1. t \in Tasks /\ row[t] \in Row /\ worker[p] \in Execution
      BY <1>0, <1>6, AtWork
    <2>2. e \in Execution /\ e.task = t
      BY <2>1 DEF Execution
    <2>3. Becomes(p, e)
      BY <1>6 DEF Goto, Becomes
    <2>4. /\ row' \in [Tasks -> Row \cup {NoRow}]
          /\ \A u \in Tasks : row[u] \in Row => row'[u] \in Row
      BY <1>6, <2>1, AssignTyped
    <2> HIDE DEF e, t
    <2> QED
      BY <1>0, <1>6, <2>1, <2>2, <2>3, <2>4, TypeTurns
  <1>7. ASSUME NEW p \in Workers, Load(p) \/ Except(p) PROVE TypeInv'
    <2> DEFINE r == row[worker[p].task]
    <2>1. worker[p] # Idle
      BY <1>7, AtIsAtWork DEF Load, Except
    <2>2. r \in Seen
      BY <1>0, <2>1 DEF Row, Seen
    <2>3. PICK c \in Pcs : Sees(p, c, r)
      BY <1>7 DEF Load, Except, Pcs
    <2>4. UNCHANGED <<row, sending, ready, effects, faults>>
      BY <1>7 DEF Load, Except
    <2> HIDE DEF r
    <2> QED
      BY <1>0, <1>5, <2>1, <2>2, <2>3, <2>4, SeesIs
  <1>8. ASSUME NEW p \in Workers, MarkProcessing(p) PROVE TypeInv'
    <2> DEFINE t == worker[p].task
               e == [worker[p] EXCEPT !.pc = "handle"]
               v == IF worker[p].seen.status = "processing" THEN row[t].status
                    ELSE "processing"
               n == worker[p].seen.attempts + 1
               r == [row[t] EXCEPT !.status = v, !.attempts = n]
    <2>1. worker[p] # Idle
      BY <1>8, AtIsAtWork DEF MarkProcessing
    <2>2. t \in Tasks /\ row[t] \in Row /\ worker[p] \in Execution /\ n \in Nat
      BY <1>0, <2>1, AtWork
    <2>3. e \in Execution /\ e.task = t
      BY <2>2 DEF Execution, Pcs
    <2>4. Becomes(p, e) /\ row' = [row EXCEPT ![t] = r]
      BY <1>8 DEF MarkProcessing, Goto, Becomes
    <2>5. v \in Status
      BY <2>2 DEF Row, Status
    <2> HIDE DEF v, n, e
    <2>6. r \in Row
      BY <2>2, <2>5 DEF Row
    <2> HIDE DEF r, t
    <2>7. /\ row' \in [Tasks -> Row \cup {NoRow}]
          /\ \A u \in Tasks : row[u] \in Row => row'[u] \in Row
      BY <1>0, <2>2, <2>4, <2>6
    <2>8. UNCHANGED <<sending, ready, effects, faults>>
      BY <1>8 DEF MarkProcessing
    <2> QED
      BY <1>0, <2>2, <2>3, <2>4, <2>7, <2>8, TypeTurns
  <1>9. ASSUME NEW p \in Workers, Handle(p) PROVE TypeInv'
    <2> DEFINE t == worker[p].task
    <2>1. worker[p] # Idle
      BY <1>9, AtIsAtWork DEF Handle
    <2>2. t \in Tasks /\ row[t] \in Row
      BY <1>0, <2>1, AtWork
    <2>3. row[t] \in Seen /\ [status |-> "expired", attempts |-> 0] \in Seen
      BY <2>2 DEF Row, Seen
    <2>4. PICK s \in Seen : Sees(p, "complete", s)
      BY <1>9, <2>3 DEF Handle
    <2>5. UNCHANGED <<row, sending, ready, faults>> /\ effects' \in [Tasks -> Nat]
      BY <1>0, <1>9, <2>2 DEF Handle
    <2>6. "complete" \in Pcs
      BY DEF Pcs
    <2> QED
      BY <1>0, <1>5, <2>1, <2>4, <2>5, <2>6, SeesIs
  <1>10. ASSUME NEW p \in Workers, HandleFails(p) \/ Breaks(p) PROVE TypeInv'
    <2> DEFINE t == worker[p].task
               e == [worker[p] EXCEPT !.pc = "except"]
    <2>1. worker[p] # Idle
      BY <1>10, AtIsAtWork DEF HandleFails, Breaks
    <2>2. t \in Tasks /\ worker[p] \in Execution
      BY <1>0, <2>1, AtWork
    <2>3. e \in Execution /\ e.task = t
      BY <2>2 DEF Execution, Pcs
    <2>4. Becomes(p, e) /\ UNCHANGED <<row, sending, ready, effects>>
      BY <1>10 DEF HandleFails, Breaks, Goto, Becomes
    <2>5. faults' \in [Tasks -> Nat]
      BY <1>0, <1>10, <1>f, <2>2 DEF HandleFails, Breaks
    <2> HIDE DEF e
    <2> QED
      BY <1>0, <1>5, <2>1, <2>3, <2>4, <2>5
  <1>11. ASSUME NEW p \in Workers, MarkCompleted(p) \/ MarkRetrying(p) \/ MarkFailed(p)
         PROVE  TypeInv'
    <2>1. worker[p] # Idle
      BY <1>11, AtIsAtWork DEF MarkCompleted, MarkRetrying, MarkFailed
    <2> QED
      BY <1>6, <1>11, <2>1 DEF MarkCompleted, MarkRetrying, MarkFailed, Pcs, Status
  <1>12. ASSUME NEW p \in Workers, Retry(p) PROVE TypeInv'
    <2> DEFINE t == worker[p].task
               k == worker[p].retries + 1
               e == [worker[p] EXCEPT !.pc = "ack"]
    <2>1. worker[p] # Idle
      BY <1>12, AtIsAtWork DEF Retry
    <2>2. t \in Tasks /\ row[t] \in Row /\ worker[p] \in Execution
      BY <1>0, <2>1, AtWork
    <2>3. e \in Execution /\ e.task = t
      BY <2>2 DEF Execution, Pcs
    <2>4. Becomes(p, e) /\ UNCHANGED <<row, sending, effects, faults>>
      BY <1>12 DEF Retry, Goto, Becomes
    <2>5. \/ k \in Retries /\ ready' = [ready EXCEPT ![t][k] = ready[t][k] + 1]
          \/ UNCHANGED ready
      BY <1>12 DEF Retry
    <2> HIDE DEF e, t, k
    <2>6. /\ ready' \in [Tasks -> [Retries -> Nat]]
          /\ \A u \in Tasks : \A i \in Retries : ready'[u][i] > 0 => row[u] \in Row
      <3>1. CASE k \in Retries /\ ready' = [ready EXCEPT ![t][k] = ready[t][k] + 1]
        <4>1. ready[t][k] + 1 \in Nat
          BY <1>0, <2>2, <3>1
        <4> QED
          BY <1>r, <2>2, <3>1, <4>1
      <3> QED
        BY <1>0, <2>5, <3>1
    <2> QED
      BY <1>0, <2>2, <2>3, <2>4, <2>6, TypeTurns
  <1>13. ASSUME NEW p \in Workers, Ack(p) \/ Lose(p) PROVE TypeInv'
    <2>1. worker[p] # Idle
      BY <1>13, AtIsAtWork DEF Ack, Lose
    <2>2. worker[p].task \in Tasks
      BY <1>0, <2>1, AtWork
    <2>3. Becomes(p, Idle) /\ UNCHANGED <<row, sending, ready, effects>>
      BY <1>13 DEF Ack, Lose, Becomes
    <2>4. faults' \in [Tasks -> Nat]
      BY <1>0, <1>13, <1>f, <2>2 DEF Ack, Lose
    <2> QED
      BY <1>0, <1>5, <2>1, <2>3, <2>4
  <1>14. ASSUME NEW p \in Workers, Crash(p) PROVE TypeInv'
    <2> DEFINE t == worker[p].task
               k == worker[p].retries
    <2>1. worker[p] # Idle
      BY <1>14 DEF Crash
    <2>2. t \in Tasks /\ k \in Retries /\ row[t] \in Row
      BY <1>0, <2>1, AtWork
    <2>3. /\ Becomes(p, Idle) /\ UNCHANGED <<row, sending, effects>> /\ Fault(t)
          /\ ready' = [ready EXCEPT ![t][k] = ready[t][k] + 1]
      BY <1>14 DEF Crash, Becomes
    <2>4. ready[t][k] + 1 \in Nat
      BY <1>0, <2>2
    <2>5. faults' \in [Tasks -> Nat]
      BY <1>f, <2>2, <2>3
    <2> HIDE DEF t, k
    <2>6. /\ ready' \in [Tasks -> [Retries -> Nat]]
          /\ \A u \in Tasks : \A i \in Retries : ready'[u][i] > 0 => row[u] \in Row
      BY <1>r, <2>2, <2>3, <2>4
    <2> QED
      BY <1>0, <2>3, <2>5, <2>6, TypeTurns
  <1>15. CASE UNCHANGED vars
    BY <1>15 DEF vars, TypeInv, TypeOK, Known
  <1> QED
    BY <1>1, <1>2, <1>3, <1>4, <1>7, <1>8, <1>9, <1>10, <1>11, <1>12, <1>13, <1>14, <1>15
    DEF Next, Step, TakeAny

LEMMA TypeInvariant == Spec => []TypeInv
  BY TypeInit, TypeStep, PTL DEF Spec

\* Rows, messages and executions stay what they are, and whatever is sent or executed
\* is a task whose row exists.
THEOREM TypeCorrect == Spec => []TypeOK
  <1>1. TypeInv => TypeOK
    BY DEF TypeInv
  <1> QED
    BY <1>1, TypeInvariant, PTL

-----------------------------------------------------------------------------
(* Sums over functions, as the cardinality of the area below them *)

Area(S, f) == {u \in S \X Nat : u[2] \in 1..f[u[1]]}

LEMMA ColumnSize ==
  ASSUME NEW x, NEW n \in Nat
  PROVE  IsFiniteSet({x} \X (1..n)) /\ Cardinality({x} \X (1..n)) = n
  <1>1. IsFiniteSet(1..n) /\ Cardinality(1..n) = n
    BY FS_Interval
  <1>2. IsFiniteSet({x}) /\ Cardinality({x}) = 1
    BY FS_Singleton
  <1> QED
    BY <1>1, <1>2, FS_Product

LEMMA DisjointUnion ==
  ASSUME NEW S, NEW T, IsFiniteSet(S), IsFiniteSet(T), S \cap T = {}
  PROVE  /\ IsFiniteSet(S \cup T)
         /\ Cardinality(S \cup T) = Cardinality(S) + Cardinality(T)
  <1>1. Cardinality(S) \in Nat /\ Cardinality(T) \in Nat
    BY FS_CardinalityType
  <1>2. Cardinality(S \cap T) = 0
    BY FS_EmptySet
  <1>3. /\ IsFiniteSet(S \cup T)
        /\ Cardinality(S \cup T) = Cardinality(S) + Cardinality(T) - Cardinality(S \cap T)
    BY FS_Union, Zenon
  <1> QED
    BY <1>1, <1>2, <1>3

\* A function that changes at one point changes its sum by the difference there.
LEMMA AreaChange ==
  ASSUME NEW S, NEW f \in [S -> Nat], NEW g \in [S -> Nat], NEW x \in S,
         \A y \in S \ {x} : g[y] = f[y], IsFiniteSet(Area(S, f))
  PROVE  /\ IsFiniteSet(Area(S, g))
         /\ Cardinality(Area(S, f)) \in Nat /\ Cardinality(Area(S, g)) \in Nat
         /\ Cardinality(Area(S, g)) + f[x] = Cardinality(Area(S, f)) + g[x]
  <1> DEFINE rest == Area(S, f) \ ({x} \X (1..f[x]))
  <1>0. f[x] \in Nat /\ g[x] \in Nat
    OBVIOUS
  <1>1. Area(S, f) = rest \cup ({x} \X (1..f[x])) /\ rest \cap ({x} \X (1..f[x])) = {}
    BY <1>0 DEF Area
  <1>2. Area(S, g) = rest \cup ({x} \X (1..g[x])) /\ rest \cap ({x} \X (1..g[x])) = {}
    <2>1. Area(S, g) = rest \cup ({x} \X (1..g[x]))
      BY <1>0 DEF Area
    <2>2. rest \cap ({x} \X (1..g[x])) = {}
      BY <1>0 DEF Area
    <2> QED
      BY <2>1, <2>2
  <1>3. IsFiniteSet(rest) /\ Cardinality(rest) \in Nat
    BY FS_Subset, FS_CardinalityType
  <1> HIDE DEF rest
  <1>4. Cardinality(Area(S, f)) = Cardinality(rest) + f[x]
    <2>1. IsFiniteSet({x} \X (1..f[x])) /\ Cardinality({x} \X (1..f[x])) = f[x]
      BY <1>0, ColumnSize
    <2>2. /\ IsFiniteSet(rest \cup ({x} \X (1..f[x])))
          /\ Cardinality(rest \cup ({x} \X (1..f[x]))) =
               Cardinality(rest) + Cardinality({x} \X (1..f[x]))
      BY <1>1, <1>3, <2>1, DisjointUnion
    <2> QED
      BY <1>1, <2>1, <2>2
  <1>5. IsFiniteSet(Area(S, g)) /\ Cardinality(Area(S, g)) = Cardinality(rest) + g[x]
    <2>1. IsFiniteSet({x} \X (1..g[x])) /\ Cardinality({x} \X (1..g[x])) = g[x]
      BY <1>0, ColumnSize
    <2>2. /\ IsFiniteSet(rest \cup ({x} \X (1..g[x])))
          /\ Cardinality(rest \cup ({x} \X (1..g[x]))) =
               Cardinality(rest) + Cardinality({x} \X (1..g[x]))
      BY <1>2, <1>3, <2>1, DisjointUnion
    <2> QED
      BY <1>2, <2>1, <2>2
  <1> QED
    BY <1>0, <1>3, <1>4, <1>5

LEMMA AreaOfZero ==
  ASSUME NEW S, NEW f, \A x \in S : f[x] = 0
  PROVE  IsFiniteSet(Area(S, f)) /\ Cardinality(Area(S, f)) = 0
  <1>1. Area(S, f) = {}
    BY DEF Area
  <1> QED
    BY <1>1, FS_EmptySet

LEMMA AreaBelow ==
  ASSUME NEW S, NEW f \in [S -> Nat], NEW g \in [S -> Nat], \A x \in S : g[x] <= f[x],
         IsFiniteSet(Area(S, f))
  PROVE  /\ Cardinality(Area(S, g)) \in Nat /\ Cardinality(Area(S, f)) \in Nat
         /\ Cardinality(Area(S, g)) <= Cardinality(Area(S, f))
  <1>1. Area(S, g) \subseteq Area(S, f)
    BY DEF Area
  <1>2. /\ IsFiniteSet(Area(S, g))
        /\ Cardinality(Area(S, g)) <= Cardinality(Area(S, f))
    BY <1>1, FS_Subset
  <1> QED
    BY <1>2, FS_CardinalityType

LEMMA AreaPositive ==
  ASSUME NEW S, NEW f \in [S -> Nat], NEW x \in S, f[x] > 0, IsFiniteSet(Area(S, f))
  PROVE  Cardinality(Area(S, f)) \in Nat \ {0}
  <1>1. <<x, 1>> \in Area(S, f)
    BY DEF Area
  <1> QED
    BY <1>1, FS_EmptySet, FS_CardinalityType

-----------------------------------------------------------------------------
(* What is still under way for a task *)

\* Places of an execution from which the handler may still do its work, and those
\* from which the attempt is counted before the row is asked for another one.
LivePcs == {"load", "mark", "handle", "except", "retrying", "publish"}
PendingPcs == {"load", "mark", "retrying", "publish"}

Executes(e, t) == e # Idle /\ e.task = t

LiveW(e, t) == IF Executes(e, t) /\ e.pc \in LivePcs THEN 1 ELSE 0
PendingW(e, t) == IF Executes(e, t) /\ e.pc \in PendingPcs THEN 1 ELSE 0

\* The attempts that Celery's count still lets an execution and its retries make.
CreditW(e, t) ==
  IF ~Executes(e, t) THEN 0
  ELSE IF e.pc \in {"load", "mark"} THEN MaxAttempts - e.retries
  ELSE IF e.pc \in {"failed", "ack"} THEN 0
  ELSE MaxAttempts - e.retries - 1

LiveOf(t) == [p \in Workers |-> LiveW(worker[p], t)]
PendingOf(t) == [p \in Workers |-> PendingW(worker[p], t)]
CreditOf(t) == [p \in Workers |-> CreditW(worker[p], t)]
ValueOf(t) == [k \in Retries |-> ready[t][k] * (MaxAttempts - k)]

Finite(t) ==
  /\ IsFiniteSet(Area(Retries, ready[t]))
  /\ IsFiniteSet(Area(Retries, ValueOf(t)))
  /\ IsFiniteSet(Area(Workers, LiveOf(t)))
  /\ IsFiniteSet(Area(Workers, PendingOf(t)))
  /\ IsFiniteSet(Area(Workers, CreditOf(t)))

ToSend(t) == IF t \in sending THEN 1 ELSE 0
Ready(t) == Cardinality(Area(Retries, ready[t]))
Value(t) == Cardinality(Area(Retries, ValueOf(t)))
LiveN(t) == Cardinality(Area(Workers, LiveOf(t)))
PendingN(t) == Cardinality(Area(Workers, PendingOf(t)))
CreditN(t) == Cardinality(Area(Workers, CreditOf(t)))

Live(t) == ToSend(t) + Ready(t) + LiveN(t)
Pending(t) == ToSend(t) + Ready(t) + PendingN(t)
Credit(t) == ToSend(t) * MaxAttempts + Value(t) + CreditN(t)

LEMMA CountTypes ==
  ASSUME NEW t, Finite(t)
  PROVE  /\ ToSend(t) \in {0, 1} /\ Ready(t) \in Nat /\ Value(t) \in Nat
         /\ LiveN(t) \in Nat /\ PendingN(t) \in Nat /\ CreditN(t) \in Nat
         /\ Live(t) \in Nat /\ Pending(t) \in Nat /\ Credit(t) \in Nat
         /\ Credit(t) = Value(t) + CreditN(t) + (IF t \in sending THEN MaxAttempts ELSE 0)
  <1>1. /\ ToSend(t) \in {0, 1} /\ Ready(t) \in Nat /\ Value(t) \in Nat
        /\ LiveN(t) \in Nat /\ PendingN(t) \in Nat /\ CreditN(t) \in Nat
    BY FS_CardinalityType DEF Finite, ToSend, Ready, Value, LiveN, PendingN, CreditN
  <1>2. ToSend(t) * MaxAttempts = IF t \in sending THEN MaxAttempts ELSE 0
    BY QueueAssumption DEF ToSend
  <1> QED
    BY <1>1, <1>2, QueueAssumption DEF Live, Pending, Credit

LEMMA WeightTypes ==
  ASSUME NEW e \in Execution \cup {Idle}, NEW t
  PROVE  /\ LiveW(e, t) \in {0, 1} /\ PendingW(e, t) \in {0, 1} /\ CreditW(e, t) \in Nat
         /\ PendingW(e, t) <= LiveW(e, t)
         /\ CreditW(e, t) <= MaxAttempts
  BY QueueAssumption DEF LiveW, PendingW, CreditW, LivePcs, PendingPcs, Execution, Retries, Executes

LEMMA WeightsAreNat ==
  \A e \in Execution \cup {Idle} : \A t :
    LiveW(e, t) \in Nat /\ PendingW(e, t) \in Nat /\ CreditW(e, t) \in Nat
  <1> SUFFICES ASSUME NEW e \in Execution \cup {Idle}, NEW t
               PROVE  LiveW(e, t) \in Nat /\ PendingW(e, t) \in Nat /\ CreditW(e, t) \in Nat
    OBVIOUS
  <1> QED
    BY WeightTypes

LEMMA PendingIsLive ==
  ASSUME TypeInv, NEW t \in Tasks, Finite(t)
  PROVE  Pending(t) <= Live(t)
  <1>1. /\ LiveOf(t) \in [Workers -> Nat] /\ PendingOf(t) \in [Workers -> Nat]
        /\ \A p \in Workers : PendingOf(t)[p] <= LiveOf(t)[p]
    <2>1. \A p \in Workers :
            /\ LiveW(worker[p], t) \in Nat /\ PendingW(worker[p], t) \in Nat
            /\ PendingW(worker[p], t) <= LiveW(worker[p], t)
      <3>1. \A p \in Workers : worker[p] \in Execution \cup {Idle}
        BY DEF TypeInv, TypeOK
      <3> QED
        BY <3>1, WeightTypes
    <2> QED
      BY <2>1 DEF LiveOf, PendingOf
  <1>2. PendingN(t) <= LiveN(t)
    BY <1>1, AreaBelow DEF Finite, PendingN, LiveN
  <1> QED
    BY <1>2, CountTypes DEF Pending, Live

\* What an execution that changes does to the counts of a task.
LEMMA WorkerChange ==
  ASSUME TypeInv, NEW p \in Workers, NEW e \in Execution \cup {Idle}, Becomes(p, e),
         NEW t \in Tasks, Finite(t)
  PROVE  /\ IsFiniteSet(Area(Workers, LiveOf(t)'))
         /\ IsFiniteSet(Area(Workers, PendingOf(t)'))
         /\ IsFiniteSet(Area(Workers, CreditOf(t)'))
         /\ LiveN(t)' = LiveN(t) + LiveW(e, t) - LiveW(worker[p], t)
         /\ PendingN(t)' = PendingN(t) + PendingW(e, t) - PendingW(worker[p], t)
         /\ CreditN(t)' = CreditN(t) + CreditW(e, t) - CreditW(worker[p], t)
  <1>1. /\ worker \in [Workers -> Execution \cup {Idle}]
        /\ worker' \in [Workers -> Execution \cup {Idle}]
        /\ worker'[p] = e /\ \A q \in Workers \ {p} : worker'[q] = worker[q]
    BY DEF TypeInv, TypeOK, Becomes
  <1>2. /\ LiveOf(t) \in [Workers -> Nat] /\ PendingOf(t) \in [Workers -> Nat]
        /\ CreditOf(t) \in [Workers -> Nat]
        /\ LiveOf(t)[p] = LiveW(worker[p], t) /\ PendingOf(t)[p] = PendingW(worker[p], t)
        /\ CreditOf(t)[p] = CreditW(worker[p], t)
    BY <1>1, WeightTypes DEF LiveOf, PendingOf, CreditOf
  <1>3. /\ LiveOf(t)' = [q \in Workers |-> LiveW(worker'[q], t)]
        /\ PendingOf(t)' = [q \in Workers |-> PendingW(worker'[q], t)]
        /\ CreditOf(t)' = [q \in Workers |-> CreditW(worker'[q], t)]
    BY DEF LiveOf, PendingOf, CreditOf, LiveW, PendingW, CreditW, Executes
  <1>4. /\ LiveOf(t)' \in [Workers -> Nat] /\ PendingOf(t)' \in [Workers -> Nat]
        /\ CreditOf(t)' \in [Workers -> Nat]
        /\ LiveOf(t)'[p] = LiveW(e, t) /\ PendingOf(t)'[p] = PendingW(e, t)
        /\ CreditOf(t)'[p] = CreditW(e, t)
    BY <1>1, <1>3, WeightTypes
  <1>5. \A q \in Workers \ {p} : /\ LiveOf(t)'[q] = LiveOf(t)[q]
                                /\ PendingOf(t)'[q] = PendingOf(t)[q]
                                /\ CreditOf(t)'[q] = CreditOf(t)[q]
    BY <1>1, <1>3 DEF LiveOf, PendingOf, CreditOf
  <1>6. /\ IsFiniteSet(Area(Workers, LiveOf(t)')) /\ LiveN(t) \in Nat
        /\ Cardinality(Area(Workers, LiveOf(t)')) \in Nat
        /\ Cardinality(Area(Workers, LiveOf(t)')) + LiveW(worker[p], t)
             = LiveN(t) + LiveW(e, t)
    <2>1. PICK f \in [Workers -> Nat], g \in [Workers -> Nat] :
            f = LiveOf(t) /\ g = LiveOf(t)'
      BY <1>2, <1>4
    <2>2. IsFiniteSet(Area(Workers, f)) /\ LiveN(t) = Cardinality(Area(Workers, f))
      BY <2>1 DEF Finite, LiveN
    <2>3. \A q \in Workers \ {p} : g[q] = f[q]
      BY <1>5, <2>1
    <2>4. /\ IsFiniteSet(Area(Workers, g))
          /\ Cardinality(Area(Workers, f)) \in Nat /\ Cardinality(Area(Workers, g)) \in Nat
          /\ Cardinality(Area(Workers, g)) + f[p] = Cardinality(Area(Workers, f)) + g[p]
      BY <2>2, <2>3, AreaChange
    <2>5. f[p] = LiveW(worker[p], t) /\ g[p] = LiveW(e, t)
      BY <1>2, <1>4, <2>1
    <2> QED
      BY <2>1, <2>2, <2>4, <2>5
  <1>7. /\ IsFiniteSet(Area(Workers, PendingOf(t)')) /\ PendingN(t) \in Nat
        /\ Cardinality(Area(Workers, PendingOf(t)')) \in Nat
        /\ Cardinality(Area(Workers, PendingOf(t)')) + PendingW(worker[p], t)
             = PendingN(t) + PendingW(e, t)
    <2>1. PICK f \in [Workers -> Nat], g \in [Workers -> Nat] :
            f = PendingOf(t) /\ g = PendingOf(t)'
      BY <1>2, <1>4
    <2>2. IsFiniteSet(Area(Workers, f)) /\ PendingN(t) = Cardinality(Area(Workers, f))
      BY <2>1 DEF Finite, PendingN
    <2>3. \A q \in Workers \ {p} : g[q] = f[q]
      BY <1>5, <2>1
    <2>4. /\ IsFiniteSet(Area(Workers, g))
          /\ Cardinality(Area(Workers, f)) \in Nat /\ Cardinality(Area(Workers, g)) \in Nat
          /\ Cardinality(Area(Workers, g)) + f[p] = Cardinality(Area(Workers, f)) + g[p]
      BY <2>2, <2>3, AreaChange
    <2>5. f[p] = PendingW(worker[p], t) /\ g[p] = PendingW(e, t)
      BY <1>2, <1>4, <2>1
    <2> QED
      BY <2>1, <2>2, <2>4, <2>5
  <1>8. /\ IsFiniteSet(Area(Workers, CreditOf(t)')) /\ CreditN(t) \in Nat
        /\ Cardinality(Area(Workers, CreditOf(t)')) \in Nat
        /\ Cardinality(Area(Workers, CreditOf(t)')) + CreditW(worker[p], t)
             = CreditN(t) + CreditW(e, t)
    <2>1. PICK f \in [Workers -> Nat], g \in [Workers -> Nat] :
            f = CreditOf(t) /\ g = CreditOf(t)'
      BY <1>2, <1>4
    <2>2. IsFiniteSet(Area(Workers, f)) /\ CreditN(t) = Cardinality(Area(Workers, f))
      BY <2>1 DEF Finite, CreditN
    <2>3. \A q \in Workers \ {p} : g[q] = f[q]
      BY <1>5, <2>1
    <2>4. /\ IsFiniteSet(Area(Workers, g))
          /\ Cardinality(Area(Workers, f)) \in Nat /\ Cardinality(Area(Workers, g)) \in Nat
          /\ Cardinality(Area(Workers, g)) + f[p] = Cardinality(Area(Workers, f)) + g[p]
      BY <2>2, <2>3, AreaChange
    <2>5. f[p] = CreditW(worker[p], t) /\ g[p] = CreditW(e, t)
      BY <1>2, <1>4, <2>1
    <2> QED
      BY <2>1, <2>2, <2>4, <2>5
  <1>9. /\ LiveN(t)' = Cardinality(Area(Workers, LiveOf(t)'))
        /\ PendingN(t)' = Cardinality(Area(Workers, PendingOf(t)'))
        /\ CreditN(t)' = Cardinality(Area(Workers, CreditOf(t)'))
    BY DEF LiveN, PendingN, CreditN, Area
  <1>10. /\ LiveW(e, t) \in Nat /\ PendingW(e, t) \in Nat /\ CreditW(e, t) \in Nat
         /\ LiveW(worker[p], t) \in Nat /\ PendingW(worker[p], t) \in Nat
         /\ CreditW(worker[p], t) \in Nat
    BY <1>1, WeightTypes
  <1>11. LiveN(t)' = LiveN(t) + LiveW(e, t) - LiveW(worker[p], t)
    BY <1>6, <1>9, <1>10
  <1>12. PendingN(t)' = PendingN(t) + PendingW(e, t) - PendingW(worker[p], t)
    BY <1>7, <1>9, <1>10
  <1>13. CreditN(t)' = CreditN(t) + CreditW(e, t) - CreditW(worker[p], t)
    BY <1>8, <1>9, <1>10
  <1> QED
    BY <1>6, <1>7, <1>8, <1>11, <1>12, <1>13

\* What a message more or less does to the counts of its task.
LEMMA MessageChange ==
  ASSUME TypeInv, NEW t \in Tasks, Finite(t), NEW k \in Retries,
         ready' \in [Tasks -> [Retries -> Nat]],
         \A i \in Retries \ {k} : ready'[t][i] = ready[t][i]
  PROVE  /\ IsFiniteSet(Area(Retries, ready'[t]))
         /\ IsFiniteSet(Area(Retries, ValueOf(t)'))
         /\ Ready(t)' = Ready(t) + ready'[t][k] - ready[t][k]
         /\ Value(t)' = Value(t) + ready'[t][k] * (MaxAttempts - k)
                                 - ready[t][k] * (MaxAttempts - k)
  <1>1. ready[t] \in [Retries -> Nat] /\ ready'[t] \in [Retries -> Nat]
    BY DEF TypeInv, TypeOK
  <1>2. \A i \in Retries : MaxAttempts - i \in Nat
    BY QueueAssumption DEF Retries
  <1>3. ASSUME NEW a \in Nat, NEW b \in Nat PROVE a * b \in Nat
    BY <1>3
  <1>4. /\ ValueOf(t) \in [Retries -> Nat]
        /\ ValueOf(t)[k] = ready[t][k] * (MaxAttempts - k)
    BY <1>1, <1>2, <1>3 DEF ValueOf
  <1>5. ValueOf(t)' = [i \in Retries |-> ready'[t][i] * (MaxAttempts - i)]
    BY DEF ValueOf
  <1>6. /\ ValueOf(t)' \in [Retries -> Nat]
        /\ ValueOf(t)'[k] = ready'[t][k] * (MaxAttempts - k)
    BY <1>1, <1>2, <1>3, <1>5
  <1>7. \A i \in Retries \ {k} : ValueOf(t)'[i] = ValueOf(t)[i]
    BY <1>5 DEF ValueOf
  <1>8. /\ IsFiniteSet(Area(Retries, ready'[t])) /\ Ready(t) \in Nat
        /\ Cardinality(Area(Retries, ready'[t])) \in Nat
        /\ Cardinality(Area(Retries, ready'[t])) + ready[t][k] = Ready(t) + ready'[t][k]
    <2>1. PICK f \in [Retries -> Nat], g \in [Retries -> Nat] : f = ready[t] /\ g = ready'[t]
      BY <1>1
    <2>2. IsFiniteSet(Area(Retries, f)) /\ Ready(t) = Cardinality(Area(Retries, f))
      BY <2>1 DEF Finite, Ready
    <2>3. \A i \in Retries \ {k} : g[i] = f[i]
      BY <2>1
    <2>4. /\ IsFiniteSet(Area(Retries, g))
          /\ Cardinality(Area(Retries, f)) \in Nat /\ Cardinality(Area(Retries, g)) \in Nat
          /\ Cardinality(Area(Retries, g)) + f[k] = Cardinality(Area(Retries, f)) + g[k]
      BY <2>2, <2>3, AreaChange
    <2> QED
      BY <2>1, <2>2, <2>4
  <1>9. /\ IsFiniteSet(Area(Retries, ValueOf(t)')) /\ Value(t) \in Nat
        /\ Cardinality(Area(Retries, ValueOf(t)')) \in Nat
        /\ Cardinality(Area(Retries, ValueOf(t)')) + ready[t][k] * (MaxAttempts - k)
             = Value(t) + ready'[t][k] * (MaxAttempts - k)
    <2>1. PICK f \in [Retries -> Nat], g \in [Retries -> Nat] :
            f = ValueOf(t) /\ g = ValueOf(t)'
      BY <1>4, <1>6
    <2>2. IsFiniteSet(Area(Retries, f)) /\ Value(t) = Cardinality(Area(Retries, f))
      BY <2>1 DEF Finite, Value
    <2>3. \A i \in Retries \ {k} : g[i] = f[i]
      BY <1>7, <2>1
    <2>4. /\ IsFiniteSet(Area(Retries, g))
          /\ Cardinality(Area(Retries, f)) \in Nat /\ Cardinality(Area(Retries, g)) \in Nat
          /\ Cardinality(Area(Retries, g)) + f[k] = Cardinality(Area(Retries, f)) + g[k]
      BY <2>2, <2>3, AreaChange
    <2>5. /\ f[k] = ready[t][k] * (MaxAttempts - k)
          /\ g[k] = ready'[t][k] * (MaxAttempts - k)
      BY <1>4, <1>6, <2>1
    <2> QED
      BY <2>1, <2>2, <2>4, <2>5
  <1>10. /\ Ready(t)' = Cardinality(Area(Retries, ready'[t]))
         /\ Value(t)' = Cardinality(Area(Retries, ValueOf(t)'))
    BY DEF Ready, Value, Area
  <1>11. Ready(t)' = Ready(t) + ready'[t][k] - ready[t][k]
    BY <1>1, <1>8, <1>10
  <1>12. Value(t)' = Value(t) + ready'[t][k] * (MaxAttempts - k)
                              - ready[t][k] * (MaxAttempts - k)
    <2>1. ready'[t][k] * (MaxAttempts - k) \in Nat /\ ready[t][k] * (MaxAttempts - k) \in Nat
      BY <1>1, <1>2, <1>3
    <2> QED
      BY <1>9, <1>10, <2>1
  <1> QED
    BY <1>8, <1>9, <1>11, <1>12

Sent(t, k) == ready' = [ready EXCEPT ![t][k] = ready[t][k] + 1]
Taken(t, k) == ready[t][k] > 0 /\ ready' = [ready EXCEPT ![t][k] = ready[t][k] - 1]

LEMMA MessageSent ==
  ASSUME TypeInv, NEW t \in Tasks, NEW k \in Retries, Sent(t, k), NEW u \in Tasks, Finite(u)
  PROVE  /\ IsFiniteSet(Area(Retries, ready'[u]))
         /\ IsFiniteSet(Area(Retries, ValueOf(u)'))
         /\ Ready(u)' = IF u = t THEN Ready(u) + 1 ELSE Ready(u)
         /\ Value(u)' = IF u = t THEN Value(u) + (MaxAttempts - k) ELSE Value(u)
  <1>1. ready \in [Tasks -> [Retries -> Nat]]
    BY DEF TypeInv, TypeOK
  <1>2. /\ ready' \in [Tasks -> [Retries -> Nat]]
        /\ \A i \in Retries \ {k} : ready'[u][i] = ready[u][i]
        /\ ready'[u][k] = IF u = t THEN ready[u][k] + 1 ELSE ready[u][k]
    BY <1>1 DEF Sent
  <1>3. MaxAttempts - k \in Nat /\ ready[u][k] \in Nat
    BY <1>1, QueueAssumption DEF Retries
  <1>4. /\ IsFiniteSet(Area(Retries, ready'[u]))
        /\ IsFiniteSet(Area(Retries, ValueOf(u)'))
        /\ Ready(u)' = Ready(u) + ready'[u][k] - ready[u][k]
        /\ Value(u)' = Value(u) + ready'[u][k] * (MaxAttempts - k)
                                - ready[u][k] * (MaxAttempts - k)
    BY <1>2, MessageChange
  <1>5. ASSUME NEW a \in Nat, NEW b \in Nat
        PROVE  a * b \in Nat /\ (a + 1) * b = a * b + b
    BY <1>5
  <1>6. Ready(u) \in Nat /\ Value(u) \in Nat
    BY CountTypes
  <1>7. CASE u = t
    <2>1. /\ ready'[u][k] * (MaxAttempts - k)
               = ready[u][k] * (MaxAttempts - k) + (MaxAttempts - k)
          /\ ready[u][k] * (MaxAttempts - k) \in Nat
      BY <1>2, <1>3, <1>5, <1>7
    <2>2. Ready(u)' = Ready(u) + 1
      BY <1>2, <1>3, <1>4, <1>6, <1>7
    <2>3. Value(u)' = Value(u) + (MaxAttempts - k)
      BY <1>3, <1>4, <1>6, <2>1
    <2> QED
      BY <1>4, <1>7, <2>2, <2>3
  <1>8. CASE u # t
    <2>1. ready[u][k] * (MaxAttempts - k) \in Nat /\ ready'[u][k] = ready[u][k]
      BY <1>2, <1>3, <1>5, <1>8
    <2> QED
      BY <1>3, <1>4, <1>6, <1>8, <2>1
  <1> QED
    BY <1>7, <1>8

LEMMA MessageTaken ==
  ASSUME TypeInv, NEW t \in Tasks, NEW k \in Retries, Taken(t, k), NEW u \in Tasks, Finite(u)
  PROVE  /\ IsFiniteSet(Area(Retries, ready'[u]))
         /\ IsFiniteSet(Area(Retries, ValueOf(u)'))
         /\ Ready(u)' = IF u = t THEN Ready(u) - 1 ELSE Ready(u)
         /\ Value(u)' = IF u = t THEN Value(u) - (MaxAttempts - k) ELSE Value(u)
  <1>1. ready \in [Tasks -> [Retries -> Nat]]
    BY DEF TypeInv, TypeOK
  <1>2. /\ ready' \in [Tasks -> [Retries -> Nat]]
        /\ \A i \in Retries \ {k} : ready'[u][i] = ready[u][i]
        /\ ready'[u][k] = IF u = t THEN ready[u][k] - 1 ELSE ready[u][k]
    <2>1. ready[t][k] - 1 \in Nat
      BY <1>1 DEF Taken
    <2> QED
      BY <1>1, <2>1 DEF Taken
  <1>3. MaxAttempts - k \in Nat /\ ready[u][k] \in Nat /\ ready'[u][k] \in Nat
    BY <1>1, <1>2, QueueAssumption DEF Retries
  <1>4. /\ IsFiniteSet(Area(Retries, ready'[u]))
        /\ IsFiniteSet(Area(Retries, ValueOf(u)'))
        /\ Ready(u)' = Ready(u) + ready'[u][k] - ready[u][k]
        /\ Value(u)' = Value(u) + ready'[u][k] * (MaxAttempts - k)
                                - ready[u][k] * (MaxAttempts - k)
    BY <1>2, MessageChange
  <1>5. ASSUME NEW a \in Nat, NEW b \in Nat
        PROVE  a * b \in Nat /\ (a + 1) * b = a * b + b
    BY <1>5
  <1>6. Ready(u) \in Nat /\ Value(u) \in Nat
    BY CountTypes
  <1>7. CASE u = t
    <2>1. ready[u][k] = ready'[u][k] + 1
      BY <1>2, <1>3, <1>7
    <2>2. /\ ready[u][k] * (MaxAttempts - k)
               = ready'[u][k] * (MaxAttempts - k) + (MaxAttempts - k)
          /\ ready'[u][k] * (MaxAttempts - k) \in Nat
      BY <1>3, <1>5, <2>1
    <2>3. Ready(u)' = Ready(u) - 1
      BY <1>3, <1>4, <1>6, <2>1
    <2>4. Value(u)' = Value(u) - (MaxAttempts - k)
      BY <1>3, <1>4, <1>6, <2>2
    <2> QED
      BY <1>4, <1>7, <2>3, <2>4
  <1>8. CASE u # t
    <2>1. ready[u][k] * (MaxAttempts - k) \in Nat /\ ready'[u][k] = ready[u][k]
      BY <1>2, <1>3, <1>5, <1>8
    <2> QED
      BY <1>3, <1>4, <1>6, <1>8, <2>1
  <1> QED
    BY <1>7, <1>8

-----------------------------------------------------------------------------
(* Work and attempts *)

Reading(p, t) == Executes(worker[p], t) /\ worker[p].pc = "mark"

\* What faults[t] faults let all the deliveries of a task attempt.
Top(f) == MaxAttempts * (1 + f)

\* Each thing under way for a task stands for one more email, and there are no more
\* of them than one and the faults.
WorkInv(t) ==
  effects[t] + Live(t) <= (IF row[t] = NoRow THEN 0 ELSE 1) + faults[t]

\* After one fault at most: once the row has all its attempts, what is under way
\* may count as many more as there were faults, and counts on from the row.
CountInv(t) ==
  faults[t] <= 1 =>
    /\ row[t].attempts >= MaxAttempts =>
         row[t].attempts + Pending(t) <= MaxAttempts + faults[t]
    /\ \A p \in Workers :
         (Reading(p, t) /\ worker[p].seen.attempts >= MaxAttempts)
           => row[t].attempts = worker[p].seen.attempts

\* After any faults: X, the most that the row or a process has counted, and what
\* Celery's count lets those under way attempt, stay within Top.
CreditInv(t) ==
  \E X \in Nat :
    /\ row[t].attempts <= X
    /\ \A p \in Workers : Reading(p, t) => worker[p].seen.attempts <= X
    /\ X + Credit(t) <= Top(faults[t])

Explained(t) == Finite(t) /\ WorkInv(t) /\ CountInv(t) /\ CreditInv(t)

LEMMA TopGrows ==
  ASSUME NEW f \in Nat
  PROVE  Top(f) \in Nat /\ Top(f + 1) = Top(f) + MaxAttempts /\ Top(f) >= MaxAttempts
  <1>1. MaxAttempts \in Nat
    BY QueueAssumption
  <1>2. ASSUME NEW a \in Nat, NEW b \in Nat
        PROVE  a * b \in Nat /\ a * (1 + b) = a + a * b /\ a * (1 + (b + 1)) = a * (1 + b) + a
    BY <1>2
  <1>3. /\ MaxAttempts * (1 + f) = MaxAttempts + MaxAttempts * f
        /\ MaxAttempts * f \in Nat
        /\ MaxAttempts * (1 + (f + 1)) = MaxAttempts * (1 + f) + MaxAttempts
    BY <1>1, <1>2
  <1> QED
    BY <1>1, <1>3 DEF Top

\* A step that counts no attempt.
LEMMA Keeps ==
  ASSUME TypeInv, TypeInv', NEW t \in Tasks, Explained(t), Finite(t)',
         NEW d \in {0, 1}, faults'[t] = faults[t] + d,
         row'[t].attempts = row[t].attempts, row'[t] = NoRow <=> row[t] = NoRow,
         effects'[t] + Live(t)' <= effects[t] + Live(t) + d,
         row[t].attempts >= MaxAttempts => Pending(t)' <= Pending(t) + d,
         Credit(t)' <= Credit(t) + (IF d = 1 THEN MaxAttempts ELSE 0),
         \A q \in Workers : Reading(q, t)' =>
           \/ Reading(q, t) /\ worker'[q].seen.attempts = worker[q].seen.attempts
           \/ worker'[q].seen.attempts = row[t].attempts
  PROVE  Explained(t)'
  <1>0. /\ row[t].attempts \in Nat /\ faults[t] \in Nat /\ faults'[t] \in Nat
        /\ effects[t] \in Nat /\ effects'[t] \in Nat /\ MaxAttempts \in Nat
    BY QueueAssumption DEF TypeInv, TypeOK, Row, NoRow
  <1>1. /\ Live(t) \in Nat /\ Pending(t) \in Nat /\ Credit(t) \in Nat
        /\ Live(t)' \in Nat /\ Pending(t)' \in Nat /\ Credit(t)' \in Nat
    <2>1. Live(t) \in Nat /\ Pending(t) \in Nat /\ Credit(t) \in Nat
      BY CountTypes DEF Explained
    <2>2. Live(t)' \in Nat /\ Pending(t)' \in Nat /\ Credit(t)' \in Nat
      <3>1. ToSend(t)' \in {0, 1}
        BY DEF ToSend
      <3>2. ToSend(t)' * MaxAttempts \in Nat
        BY <1>0, <3>1
      <3>3. /\ Ready(t)' \in Nat /\ Value(t)' \in Nat /\ LiveN(t)' \in Nat
            /\ PendingN(t)' \in Nat /\ CreditN(t)' \in Nat
        BY FS_CardinalityType DEF Finite, Ready, Value, LiveN, PendingN, CreditN
      <3> QED
        BY <3>1, <3>2, <3>3 DEF Live, Pending, Credit
    <2> QED
      BY <2>1, <2>2
  <1>2. WorkInv(t)'
    BY <1>0, <1>1 DEF Explained, WorkInv
  <1>3. CountInv(t)'
    <2> SUFFICES ASSUME faults'[t] <= 1
                 PROVE  /\ row[t].attempts >= MaxAttempts =>
                             row[t].attempts + Pending(t)' <= MaxAttempts + faults'[t]
                        /\ \A p \in Workers :
                             (Reading(p, t)' /\ worker'[p].seen.attempts >= MaxAttempts)
                               => row[t].attempts = worker'[p].seen.attempts
      BY DEF CountInv
    <2>1. faults[t] <= 1
      BY <1>0
    <2>2. row[t].attempts >= MaxAttempts =>
            row[t].attempts + Pending(t)' <= MaxAttempts + faults'[t]
      BY <1>0, <1>1, <2>1 DEF Explained, CountInv
    <2>3. \A p \in Workers :
            (Reading(p, t)' /\ worker'[p].seen.attempts >= MaxAttempts)
              => row[t].attempts = worker'[p].seen.attempts
      BY <2>1 DEF Explained, CountInv
    <2> QED
      BY <2>2, <2>3
  <1>4. CreditInv(t)'
    <2>1. PICK X \in Nat :
            /\ row[t].attempts <= X
            /\ \A p \in Workers : Reading(p, t) => worker[p].seen.attempts <= X
            /\ X + Credit(t) <= Top(faults[t])
      BY DEF Explained, CreditInv
    <2>2. \A p \in Workers : Reading(p, t)' => worker'[p].seen.attempts <= X
      BY <2>1
    <2>3. X + Credit(t)' <= Top(faults'[t])
      <3>1. CASE d = 1
        BY <1>0, <1>1, <2>1, <3>1, TopGrows
      <3>2. CASE d = 0
        <4>1. faults'[t] = faults[t]
          BY <1>0, <3>2
        <4> QED
          BY <1>0, <1>1, <2>1, <3>2, <4>1, TopGrows
      <3> QED
        BY <3>1, <3>2
    <2> QED
      BY <2>1, <2>2, <2>3 DEF CreditInv, Top
  <1> QED
    BY <1>2, <1>3, <1>4 DEF Explained

\* A step of a process that counts no attempt: n messages more are ready, worth v
\* attempts, w emails are sent and d faults happen.
LEMMA ProcessKeeps ==
  ASSUME TypeInv, TypeInv', NEW t \in Tasks, Explained(t),
         NEW p \in Workers, NEW e \in Execution \cup {Idle}, Becomes(p, e),
         UNCHANGED sending,
         IsFiniteSet(Area(Retries, ready'[t])), IsFiniteSet(Area(Retries, ValueOf(t)')),
         NEW n \in Int, NEW v \in Int, Ready(t)' = Ready(t) + n, Value(t)' = Value(t) + v,
         NEW d \in {0, 1}, faults'[t] = faults[t] + d,
         NEW w \in {0, 1}, effects'[t] = effects[t] + w,
         row'[t].attempts = row[t].attempts, row'[t] = NoRow <=> row[t] = NoRow,
         w + n + LiveW(e, t) <= LiveW(worker[p], t) + d,
         row[t].attempts >= MaxAttempts =>
           n + PendingW(e, t) <= PendingW(worker[p], t) + d,
         v + CreditW(e, t) <= CreditW(worker[p], t) + (IF d = 1 THEN MaxAttempts ELSE 0),
         (Executes(e, t) /\ e.pc = "mark") => e.seen.attempts = row[t].attempts
  PROVE  Explained(t)'
  <1>1. /\ worker[p] \in Execution \cup {Idle} /\ MaxAttempts \in Nat
        /\ effects[t] \in Nat /\ effects'[t] \in Nat
    BY QueueAssumption DEF TypeInv, TypeOK
  <1>2. /\ LiveW(e, t) \in Nat /\ PendingW(e, t) \in Nat /\ CreditW(e, t) \in Nat
        /\ LiveW(worker[p], t) \in Nat /\ PendingW(worker[p], t) \in Nat
        /\ CreditW(worker[p], t) \in Nat
    BY <1>1, WeightsAreNat, Zenon
  <1>3. Finite(t)
    BY DEF Explained
  <1>4. /\ IsFiniteSet(Area(Workers, LiveOf(t)'))
        /\ IsFiniteSet(Area(Workers, PendingOf(t)'))
        /\ IsFiniteSet(Area(Workers, CreditOf(t)'))
        /\ LiveN(t)' = LiveN(t) + LiveW(e, t) - LiveW(worker[p], t)
        /\ PendingN(t)' = PendingN(t) + PendingW(e, t) - PendingW(worker[p], t)
        /\ CreditN(t)' = CreditN(t) + CreditW(e, t) - CreditW(worker[p], t)
    BY <1>3, WorkerChange
  <1>5. Finite(t)'
    BY <1>4 DEF Finite, Area
  <1>6. /\ ToSend(t) \in {0, 1} /\ Ready(t) \in Nat /\ Value(t) \in Nat
        /\ LiveN(t) \in Nat /\ PendingN(t) \in Nat /\ CreditN(t) \in Nat
    BY <1>3, CountTypes
  <1>7. ToSend(t)' = ToSend(t) /\ ToSend(t) * MaxAttempts \in Nat
    BY <1>1, <1>6 DEF ToSend
  <1>8. Live(t)' = Live(t) + n + LiveW(e, t) - LiveW(worker[p], t)
    <2>1. Live(t)' = ToSend(t)' + Ready(t)' + LiveN(t)'
      BY DEF Live
    <2> QED
      BY <1>2, <1>4, <1>6, <1>7, <2>1 DEF Live
  <1>9. Pending(t)' = Pending(t) + n + PendingW(e, t) - PendingW(worker[p], t)
    <2>1. Pending(t)' = ToSend(t)' + Ready(t)' + PendingN(t)'
      BY DEF Pending
    <2> QED
      BY <1>2, <1>4, <1>6, <1>7, <2>1 DEF Pending
  <1>10. Credit(t)' = Credit(t) + v + CreditW(e, t) - CreditW(worker[p], t)
    <2>1. Credit(t)' = ToSend(t)' * MaxAttempts + Value(t)' + CreditN(t)'
      BY DEF Credit
    <2>2. ToSend(t)' * MaxAttempts = ToSend(t) * MaxAttempts
      BY <1>7
    <2> QED
      BY <1>2, <1>4, <1>6, <1>7, <2>1, <2>2 DEF Credit
  <1>11. \A q \in Workers : Reading(q, t)' =>
           \/ Reading(q, t) /\ worker'[q].seen.attempts = worker[q].seen.attempts
           \/ worker'[q].seen.attempts = row[t].attempts
    <2>1. \A q \in Workers : worker'[q] = IF q = p THEN e ELSE worker[q]
      BY DEF Becomes, TypeInv, TypeOK
    <2> QED
      BY <2>1 DEF Reading, Executes
  <1>12. Live(t) \in Nat /\ Pending(t) \in Nat /\ Credit(t) \in Nat
    BY <1>3, CountTypes
  <1>13. effects'[t] + Live(t)' <= effects[t] + Live(t) + d
    BY <1>1, <1>2, <1>8, <1>12
  <1>14. row[t].attempts >= MaxAttempts => Pending(t)' <= Pending(t) + d
    BY <1>2, <1>9, <1>12
  <1>15. Credit(t)' <= Credit(t) + (IF d = 1 THEN MaxAttempts ELSE 0)
    BY <1>1, <1>2, <1>10, <1>12
  <1> QED
    BY <1>5, <1>11, <1>13, <1>14, <1>15, Keeps

\* A task without a row has nothing under way.
LEMMA NothingBefore ==
  ASSUME TypeInv, NEW t \in Tasks, row[t] = NoRow
  PROVE  /\ Finite(t) /\ Live(t) = 0 /\ Pending(t) = 0 /\ Credit(t) = 0
         /\ \A p \in Workers : ~Reading(p, t)
         /\ t \notin sending /\ LiveN(t) = 0 /\ PendingN(t) = 0 /\ CreditN(t) = 0
         /\ Ready(t) = 0 /\ Value(t) = 0
  <1>1. row[t] \notin Row
    BY DEF Row, NoRow, Status
  <1>2. t \notin sending /\ \A p \in Workers : ~Executes(worker[p], t)
    BY <1>1 DEF TypeInv, Known, Executes
  <1>3. \A k \in Retries : ready[t][k] = 0
    BY <1>1 DEF TypeInv, TypeOK, Known
  <1>4. \A k \in Retries : ValueOf(t)[k] = 0
    <2>1. \A k \in Retries : 0 * (MaxAttempts - k) = 0
      BY QueueAssumption DEF Retries
    <2> QED
      BY <1>3, <2>1 DEF ValueOf
  <1>5. \A p \in Workers : LiveOf(t)[p] = 0 /\ PendingOf(t)[p] = 0 /\ CreditOf(t)[p] = 0
    BY <1>2 DEF LiveOf, PendingOf, CreditOf, LiveW, PendingW, CreditW
  <1>6. Finite(t) /\ Ready(t) = 0 /\ Value(t) = 0 /\ LiveN(t) = 0 /\ PendingN(t) = 0
        /\ CreditN(t) = 0
    BY <1>3, <1>4, <1>5, AreaOfZero DEF Finite, Ready, Value, LiveN, PendingN, CreditN
  <1>7. ToSend(t) = 0 /\ ToSend(t) * MaxAttempts = 0
    BY <1>2, QueueAssumption DEF ToSend
  <1> QED
    BY <1>2, <1>6, <1>7 DEF Live, Pending, Credit, Reading

\* A task that a step of another one does not touch.
LEMMA OtherTask ==
  ASSUME TypeInv, TypeInv', NEW t \in Tasks, Explained(t),
         NEW p \in Workers, NEW e \in Execution \cup {Idle}, Becomes(p, e),
         ~Executes(e, t), ~Executes(worker[p], t), UNCHANGED sending,
         IsFiniteSet(Area(Retries, ready'[t])), IsFiniteSet(Area(Retries, ValueOf(t)')),
         Ready(t)' = Ready(t), Value(t)' = Value(t),
         faults'[t] = faults[t], effects'[t] = effects[t], row'[t] = row[t]
  PROVE  Explained(t)'
  <1>1. /\ LiveW(e, t) = 0 /\ PendingW(e, t) = 0 /\ CreditW(e, t) = 0
        /\ LiveW(worker[p], t) = 0 /\ PendingW(worker[p], t) = 0 /\ CreditW(worker[p], t) = 0
    BY DEF LiveW, PendingW, CreditW
  <1>2. /\ Ready(t) \in Nat /\ Value(t) \in Nat /\ effects[t] \in Nat /\ faults[t] \in Nat
    BY CountTypes DEF Explained, TypeInv, TypeOK
  <1>3. /\ Ready(t)' = Ready(t) + 0 /\ Value(t)' = Value(t) + 0
        /\ faults'[t] = faults[t] + 0 /\ effects'[t] = effects[t] + 0
        /\ row'[t].attempts = row[t].attempts /\ row'[t] = NoRow <=> row[t] = NoRow
    BY <1>2
  <1>4. /\ 0 + 0 + LiveW(e, t) <= LiveW(worker[p], t) + 0
        /\ 0 + PendingW(e, t) <= PendingW(worker[p], t) + 0
        /\ 0 + CreditW(e, t) <= CreditW(worker[p], t) + (IF 0 = 1 THEN MaxAttempts ELSE 0)
    BY <1>1
  <1>5. 0 \in {0, 1} /\ 0 \in Int
    OBVIOUS
  <1> QED
    BY <1>3, <1>4, <1>5, ProcessKeeps

LEMMA CreateExplained ==
  ASSUME TypeInv, TypeInv', NEW t \in Tasks, Create(t), NEW u \in Tasks, Explained(u)
  PROVE  Explained(u)'
  <1>0. /\ row \in [Tasks -> Row \cup {NoRow}] /\ faults[u] \in Nat /\ effects[u] \in Nat
        /\ MaxAttempts \in Nat \ {0}
    BY QueueAssumption DEF TypeInv, TypeOK
  <1>1. UNCHANGED <<ready, worker, effects, faults>>
    BY DEF Create
  <1>2. /\ Ready(u)' = Ready(u) /\ Value(u)' = Value(u) /\ LiveN(u)' = LiveN(u)
        /\ PendingN(u)' = PendingN(u) /\ CreditN(u)' = CreditN(u)
        /\ Finite(u)' /\ \A q \in Workers : Reading(q, u)' <=> Reading(q, u)
    BY <1>1 DEF Explained, Finite, Ready, Value, LiveN, PendingN, CreditN, ValueOf,
                LiveOf, PendingOf, CreditOf, Reading
  <1>3. CASE u = t
    <2>1. row[t] = NoRow /\ row'[t] = [status |-> "queued", attempts |-> 0] /\ t \in sending'
      BY <1>0 DEF Create
    <2>2. row'[t] # NoRow /\ row'[t].attempts = 0
      BY <2>1 DEF NoRow
    <2>3. ToSend(t)' = 1 /\ ToSend(t)' * MaxAttempts = MaxAttempts
      BY <1>0, <2>1 DEF ToSend
    <2>4. Live(t)' = 1 /\ Credit(t)' = MaxAttempts
      BY <1>0, <1>2, <1>3, <2>1, <2>3, NothingBefore DEF Live, Credit
    <2>5. Live(t) = 0 /\ \A p \in Workers : ~Reading(p, t)
      BY <2>1, NothingBefore
    <2>6. WorkInv(t)'
      BY <1>0, <1>1, <1>3, <2>1, <2>2, <2>4, <2>5 DEF Explained, WorkInv
    <2>7. CountInv(t)'
      BY <1>0, <1>2, <1>3, <2>2, <2>5 DEF CountInv
    <2>8. CreditInv(t)'
      <3>1. 0 + Credit(t)' <= Top(faults'[t])
        BY <1>0, <1>1, <1>3, <2>4, TopGrows
      <3>2. \A p \in Workers : ~Reading(p, t)'
        BY <1>2, <1>3, <2>5
      <3> QED
        BY <2>2, <3>1, <3>2 DEF CreditInv, Top
    <2> QED
      BY <1>2, <1>3, <2>6, <2>7, <2>8 DEF Explained
  <1>4. CASE u # t
    <2>1. row'[u] = row[u] /\ (u \in sending' <=> u \in sending)
      BY <1>0, <1>4 DEF Create
    <2>2. ToSend(u)' = ToSend(u)
      BY <2>1 DEF ToSend
    <2>3. Live(u)' = Live(u) /\ Pending(u)' = Pending(u) /\ Credit(u)' = Credit(u)
      BY <1>2, <2>2 DEF Live, Pending, Credit
    <2> QED
      BY <1>1, <1>2, <2>1, <2>3
      DEF Explained, WorkInv, CountInv, CreditInv, Top
  <1> QED
    BY <1>3, <1>4

LEMMA DispatchExplained ==
  ASSUME TypeInv, TypeInv', NEW t \in Tasks, Dispatch(t) \/ DispatchFails(t),
         NEW u \in Tasks, Explained(u)
  PROVE  Explained(u)'
  <1>0. /\ MaxAttempts \in Nat \ {0} /\ Finite(u) /\ 0 \in Retries /\ faults \in [Tasks -> Nat]
        /\ faults[u] \in Nat /\ effects[u] \in Nat
    BY QueueAssumption DEF Explained, TypeInv, TypeOK, Retries
  <1>1. /\ UNCHANGED <<row, worker, effects>>
        /\ t \in sending /\ sending' = sending \ {t}
    BY DEF Dispatch, DispatchFails
  <1>2. /\ LiveN(u)' = LiveN(u) /\ PendingN(u)' = PendingN(u) /\ CreditN(u)' = CreditN(u)
        /\ IsFiniteSet(Area(Workers, LiveOf(u)'))
        /\ IsFiniteSet(Area(Workers, PendingOf(u)'))
        /\ IsFiniteSet(Area(Workers, CreditOf(u)'))
        /\ \A q \in Workers : Reading(q, u)' <=> Reading(q, u)
    BY <1>0, <1>1 DEF Finite, LiveN, PendingN, CreditN, LiveOf, PendingOf, CreditOf, Reading
  <1>3. /\ ToSend(u) \in {0, 1} /\ Ready(u) \in Nat /\ Value(u) \in Nat
        /\ LiveN(u) \in Nat /\ PendingN(u) \in Nat /\ CreditN(u) \in Nat
        /\ Live(u) \in Nat /\ Pending(u) \in Nat /\ Credit(u) \in Nat
    BY <1>0, CountTypes
  <1>4. PICK d \in {0, 1} :
          /\ IsFiniteSet(Area(Retries, ready'[u])) /\ IsFiniteSet(Area(Retries, ValueOf(u)'))
          /\ faults'[u] = faults[u] + d
          /\ Ready(u)' = Ready(u) + (IF u = t THEN 1 - d ELSE 0)
          /\ Value(u)' = Value(u) + (IF u = t THEN (IF d = 1 THEN 0 ELSE MaxAttempts) ELSE 0)
    <2>1. CASE Dispatch(t)
      <3>1. Sent(t, 0) /\ faults'[u] = faults[u] + 0
        BY <1>0, <2>1 DEF Dispatch, Sent
      <3>2. /\ IsFiniteSet(Area(Retries, ready'[u])) /\ IsFiniteSet(Area(Retries, ValueOf(u)'))
            /\ Ready(u)' = IF u = t THEN Ready(u) + 1 ELSE Ready(u)
            /\ Value(u)' = IF u = t THEN Value(u) + (MaxAttempts - 0) ELSE Value(u)
        BY <1>0, <3>1, MessageSent
      <3> WITNESS 0 \in {0, 1}
      <3> QED
        BY <1>0, <1>3, <3>1, <3>2
    <2>2. CASE DispatchFails(t)
      <3>1. faults' = [faults EXCEPT ![t] = faults[t] + 1] /\ UNCHANGED ready
        BY <2>2, FaultIs DEF DispatchFails
      <3>2. /\ IsFiniteSet(Area(Retries, ready'[u])) /\ IsFiniteSet(Area(Retries, ValueOf(u)'))
            /\ Ready(u)' = Ready(u) /\ Value(u)' = Value(u)
        BY <1>0, <3>1 DEF Finite, Ready, Value, ValueOf
      <3>3. CASE u = t
        <4> WITNESS 1 \in {0, 1}
        <4> QED
          BY <1>0, <1>3, <3>1, <3>2, <3>3
      <3>4. CASE u # t
        <4> WITNESS 0 \in {0, 1}
        <4> QED
          BY <1>0, <1>3, <3>1, <3>2, <3>4
      <3> QED
        BY <3>3, <3>4
    <2> QED
      BY <2>1, <2>2
  <1>5. Finite(u)'
    BY <1>2, <1>4 DEF Finite, Area
  <1>6. ToSend(u)' = (IF u = t THEN 0 ELSE ToSend(u)) /\ (u = t => ToSend(u) = 1)
    BY <1>1 DEF ToSend
  <1>7. ToSend(u)' * MaxAttempts + (IF u = t THEN MaxAttempts ELSE 0) = ToSend(u) * MaxAttempts
        /\ ToSend(u) * MaxAttempts \in Nat /\ ToSend(u)' * MaxAttempts \in Nat
    BY <1>0, <1>3, <1>6
  <1>8. Live(u)' <= Live(u) + d /\ Pending(u)' <= Pending(u) + d
    <2>1. /\ Live(u)' = ToSend(u)' + Ready(u)' + LiveN(u)'
          /\ Pending(u)' = ToSend(u)' + Ready(u)' + PendingN(u)'
      BY DEF Live, Pending
    <2> QED
      BY <1>2, <1>3, <1>4, <1>6, <2>1 DEF Live, Pending
  <1>9. Credit(u)' <= Credit(u) + (IF d = 1 THEN MaxAttempts ELSE 0)
    <2>1. Credit(u)' = ToSend(u)' * MaxAttempts + Value(u)' + CreditN(u)'
      BY DEF Credit
    <2>2. Credit(u) = ToSend(u) * MaxAttempts + Value(u) + CreditN(u)
      BY DEF Credit
    <2> QED
      BY <1>0, <1>2, <1>3, <1>4, <1>7, <2>1, <2>2
  <1>10. effects'[u] + Live(u)' <= effects[u] + Live(u) + d
    <2>1. Live(u)' \in Int
      <3>1. Live(u)' = ToSend(u)' + Ready(u)' + LiveN(u)'
        BY DEF Live
      <3> QED
        BY <1>2, <1>3, <1>4, <1>6, <3>1
    <2> QED
      BY <1>0, <1>1, <1>3, <1>8, <2>1
  <1>11. \A q \in Workers : Reading(q, u)' =>
           Reading(q, u) /\ worker'[q].seen.attempts = worker[q].seen.attempts
    BY <1>1, <1>2
  <1>12. row'[u].attempts = row[u].attempts /\ (row'[u] = NoRow <=> row[u] = NoRow)
    BY <1>1
  <1> QED
    BY <1>4, <1>5, <1>8, <1>9, <1>10, <1>11, <1>12, Keeps

\* What a step does for task t: it publishes n messages with k retries, sends w
\* emails, and meets d faults.
Does(t, k, n, d, w) ==
  /\ n \in {0, 1} /\ d \in {0, 1} /\ w \in {0, 1} /\ k \in Retries
  /\ n = 0 => UNCHANGED ready
  /\ n = 1 => Sent(t, k)
  /\ \A u \in Tasks : faults'[u] = IF u = t THEN faults[u] + d ELSE faults[u]
  /\ \A u \in Tasks : effects'[u] = IF u = t THEN effects[u] + w ELSE effects[u]
  /\ UNCHANGED sending

\* ... and the execution e that it makes of o pays for that.
Pays(t, o, e, k, n, d, w) ==
  /\ w + n + LiveW(e, t) <= LiveW(o, t) + d
  /\ row[t].attempts >= MaxAttempts => n + PendingW(e, t) <= PendingW(o, t) + d
  /\ (IF n = 1 THEN MaxAttempts - k ELSE 0) + CreditW(e, t)
       <= CreditW(o, t) + (IF d = 1 THEN MaxAttempts ELSE 0)

\* The row of t keeps its attempts, and the others stay.
CountsNothing(t) ==
  /\ \A o \in Tasks \ {t} : row'[o] = row[o]
  /\ row'[t].attempts = row[t].attempts
  /\ row'[t] \in Row

\* A step of the execution of task t, by p, that counts no attempt.
LEMMA ExecutionKeeps ==
  ASSUME TypeInv, TypeInv', NEW p \in Workers, NEW t \in Tasks, Executes(worker[p], t),
         NEW e \in Execution \cup {Idle}, Becomes(p, e), e # Idle => e.task = t,
         NEW k, NEW n, NEW d, NEW w, Does(t, k, n, d, w),
         Pays(t, worker[p], e, k, n, d, w), CountsNothing(t),
         e.pc = "mark" => e.seen.attempts = row[t].attempts,
         NEW u \in Tasks, Explained(u)
  PROVE  Explained(u)'
  <1> DEFINE v == IF n = 1 THEN MaxAttempts - k ELSE 0
  <1> USE DEF Does, Pays, CountsNothing
  <1>0. /\ faults \in [Tasks -> Nat] /\ effects \in [Tasks -> Nat] /\ Finite(u)
        /\ MaxAttempts - k \in Int /\ v \in Int
        /\ Ready(u) \in Nat /\ Value(u) \in Nat
    <2>1. faults \in [Tasks -> Nat] /\ effects \in [Tasks -> Nat] /\ Finite(u)
      BY DEF Explained, TypeInv, TypeOK
    <2>2. MaxAttempts - k \in Int
      BY QueueAssumption DEF Retries
    <2>3. Ready(u) \in Nat /\ Value(u) \in Nat
      BY <2>1, CountTypes
    <2> QED
      BY <2>1, <2>2, <2>3
  <1>1. /\ IsFiniteSet(Area(Retries, ready'[u])) /\ IsFiniteSet(Area(Retries, ValueOf(u)'))
        /\ Ready(u)' = IF u = t THEN Ready(u) + n ELSE Ready(u)
        /\ Value(u)' = IF u = t THEN Value(u) + v ELSE Value(u)
    <2>1. CASE n = 0
      BY <1>0, <2>1 DEF Finite, Ready, Value, ValueOf
    <2>2. CASE n = 1
      BY <1>0, <2>2, MessageSent
    <2> QED
      BY <2>1, <2>2
  <1>2. row'[t] = NoRow <=> row[t] = NoRow
    <2>1. row[t] \in Row
      BY DEF TypeInv, Known, Executes
    <2>3. NoRow \notin Row
      BY DEF NoRow, Row, Status
    <2> QED
      BY <2>1, <2>3
  <1> HIDE DEF v
  <1>3. CASE u # t
    <2>1. ~Executes(e, u) /\ ~Executes(worker[p], u)
      BY <1>3 DEF Executes
    <2>2. faults'[u] = faults[u] /\ effects'[u] = effects[u] /\ row'[u] = row[u]
      BY <1>0, <1>3
    <2>3. Ready(u)' = Ready(u) /\ Value(u)' = Value(u)
      BY <1>1, <1>3
    <2> QED
      BY <1>1, <2>1, <2>2, <2>3, OtherTask
  <1>4. CASE u = t
    <2>1. faults'[u] = faults[u] + d /\ effects'[u] = effects[u] + w
      BY <1>0, <1>4
    <2>2. Ready(u)' = Ready(u) + n /\ Value(u)' = Value(u) + v
      BY <1>1, <1>4
    <2>3. /\ w + n + LiveW(e, u) <= LiveW(worker[p], u) + d
          /\ row[u].attempts >= MaxAttempts =>
               n + PendingW(e, u) <= PendingW(worker[p], u) + d
          /\ v + CreditW(e, u) <= CreditW(worker[p], u) + (IF d = 1 THEN MaxAttempts ELSE 0)
          /\ (Executes(e, u) /\ e.pc = "mark") => e.seen.attempts = row[u].attempts
      BY <1>4 DEF v
    <2>4. row'[u].attempts = row[u].attempts /\ (row'[u] = NoRow <=> row[u] = NoRow)
      BY <1>2, <1>4
    <2>5. n \in Int
      OBVIOUS
    <2> QED
      BY <1>0, <1>1, <2>1, <2>2, <2>3, <2>4, <2>5, ProcessKeeps
  <1> QED
    BY <1>3, <1>4

\* Where an execution of task t stands decides what it counts for.
LEMMA Weights ==
  ASSUME NEW e, NEW t
  PROVE  /\ ~Executes(e, t) =>
              LiveW(e, t) = 0 /\ PendingW(e, t) = 0 /\ CreditW(e, t) = 0
         /\ Executes(e, t) =>
              /\ e.pc \in {"load", "mark"} =>
                   /\ LiveW(e, t) = 1 /\ PendingW(e, t) = 1
                   /\ CreditW(e, t) = MaxAttempts - e.retries
              /\ e.pc \in {"handle", "except"} =>
                   /\ LiveW(e, t) = 1 /\ PendingW(e, t) = 0
                   /\ CreditW(e, t) = MaxAttempts - e.retries - 1
              /\ e.pc \in {"retrying", "publish"} =>
                   /\ LiveW(e, t) = 1 /\ PendingW(e, t) = 1
                   /\ CreditW(e, t) = MaxAttempts - e.retries - 1
              /\ e.pc = "complete" =>
                   /\ LiveW(e, t) = 0 /\ PendingW(e, t) = 0
                   /\ CreditW(e, t) = MaxAttempts - e.retries - 1
              /\ e.pc \in {"failed", "ack"} =>
                   LiveW(e, t) = 0 /\ PendingW(e, t) = 0 /\ CreditW(e, t) = 0
  BY DEF LiveW, PendingW, CreditW, LivePcs, PendingPcs

\* What every step of an execution finds.
LEMMA ExecutionFacts ==
  ASSUME TypeInv, NEW p \in Workers, NEW t, t = worker[p].task, worker[p] # Idle
  PROVE  /\ Executes(worker[p], t) /\ t \in Tasks /\ row[t] \in Row
         /\ row[t].attempts \in Nat /\ faults[t] \in Nat /\ effects[t] \in Nat
         /\ faults \in [Tasks -> Nat] /\ effects \in [Tasks -> Nat]
         /\ worker[p].retries \in Retries /\ MaxAttempts \in Nat
         /\ worker[p].retries \in Nat /\ worker[p].retries < MaxAttempts
         /\ Executes(Idle, t) = FALSE
         /\ worker[p].seen.attempts \in Nat
         /\ TypeOK /\ worker[p] \in Execution
  <1>1. TypeOK /\ row \in [Tasks -> Row \cup {NoRow}] /\ faults \in [Tasks -> Nat]
        /\ effects \in [Tasks -> Nat]
    BY DEF TypeInv, TypeOK
  <1>2. /\ worker[p] \in Execution /\ t \in Tasks /\ worker[p].retries \in Retries
        /\ worker[p].seen.attempts \in Nat
    BY <1>1, AtWork
  <1>3. row[t] \in Row
    BY DEF TypeInv, Known
  <1>4. row[t].attempts \in Nat /\ faults[t] \in Nat /\ effects[t] \in Nat
    BY <1>1, <1>2, <1>3 DEF Row
  <1>5. /\ MaxAttempts \in Nat /\ worker[p].retries \in Nat
        /\ worker[p].retries < MaxAttempts
    BY <1>2, QueueAssumption DEF Retries
  <1>6. Executes(worker[p], t) /\ Executes(Idle, t) = FALSE
    BY DEF Executes
  <1> QED
    BY <1>1, <1>2, <1>3, <1>4, <1>5, <1>6

LEMMA DoesNothing ==
  ASSUME TypeInv, NEW p \in Workers, NEW t, t = worker[p].task, worker[p] # Idle,
         UNCHANGED <<sending, ready, effects, faults>>
  PROVE  Does(t, worker[p].retries, 0, 0, 0)
  <1>1. /\ faults \in [Tasks -> Nat] /\ effects \in [Tasks -> Nat]
        /\ worker[p].retries \in Retries
    BY ExecutionFacts
  <1> QED
    BY <1>1 DEF Does

LEMMA DoesFail ==
  ASSUME TypeInv, NEW p \in Workers, NEW t, t = worker[p].task, worker[p] # Idle,
         UNCHANGED <<sending, effects>>, Fault(t)
  PROVE  /\ UNCHANGED ready => Does(t, worker[p].retries, 0, 1, 0)
         /\ Sent(t, worker[p].retries) => Does(t, worker[p].retries, 1, 1, 0)
  <1>1. /\ faults \in [Tasks -> Nat] /\ effects \in [Tasks -> Nat]
        /\ worker[p].retries \in Retries
    BY ExecutionFacts
  <1>2. faults' = [faults EXCEPT ![t] = faults[t] + 1]
    BY FaultIs
  <1> QED
    BY <1>1, <1>2 DEF Does

LEMMA RowStays ==
  ASSUME TypeInv, NEW t \in Tasks, row[t] \in Row, UNCHANGED row
  PROVE  CountsNothing(t)
  BY DEF CountsNothing

LEMMA AssignCountsNothing ==
  ASSUME TypeInv, NEW t \in Tasks, row[t] \in Row, NEW seen, NEW s \in Status,
         Assign(t, seen, s)
  PROVE  CountsNothing(t)
  BY AssignTyped DEF CountsNothing

LEMMA LoadExplained ==
  ASSUME TypeInv, TypeInv', NEW p \in Workers, Load(p), NEW u \in Tasks, Explained(u)
  PROVE  Explained(u)'
  <1> DEFINE t == worker[p].task
             e == SteppedSeeing(p, "mark", row[t])
  <1>1. worker[p] # Idle /\ worker[p].pc = "load"
    BY AtIsAtWork DEF Load, At
  <1>2. /\ Executes(worker[p], t) /\ t \in Tasks /\ row[t] \in Row
        /\ worker[p].retries \in Retries /\ TypeOK
    BY <1>1, ExecutionFacts
  <1>3. /\ Becomes(p, e) /\ e \in Execution /\ e.task = t /\ e.pc = "mark" /\ e.seen = row[t]
        /\ e.retries = worker[p].retries
    BY <1>1, <1>2, SeesIs DEF Load, Row, Seen, Pcs
  <1>4. UNCHANGED <<row, sending, ready, effects, faults>>
    BY DEF Load
  <1> HIDE DEF e
  <1>5. Executes(e, t)
    BY <1>3, NotIdle DEF Executes
  <1>6. Pays(t, worker[p], e, worker[p].retries, 0, 0, 0)
    <2>1. MaxAttempts \in Nat /\ worker[p].retries \in Nat
      BY <1>1, ExecutionFacts
    <2> QED
      BY <1>1, <1>2, <1>3, <1>5, <2>1, Weights DEF Pays
  <1>7. Does(t, worker[p].retries, 0, 0, 0) /\ CountsNothing(t)
    BY <1>1, <1>2, <1>4, DoesNothing, RowStays
  <1> HIDE DEF t
  <1> QED
    BY <1>2, <1>3, <1>6, <1>7, ExecutionKeeps

LEMMA HandleExplained ==
  ASSUME TypeInv, TypeInv', NEW p \in Workers, Handle(p), NEW u \in Tasks, Explained(u)
  PROVE  Explained(u)'
  <1> DEFINE t == worker[p].task
  <1>1. worker[p] # Idle /\ worker[p].pc = "handle"
    BY AtIsAtWork DEF Handle, At
  <1>2. /\ Executes(worker[p], t) /\ t \in Tasks /\ row[t] \in Row
        /\ worker[p].retries \in Retries /\ TypeOK
        /\ MaxAttempts \in Nat /\ worker[p].retries \in Nat
    BY <1>1, ExecutionFacts
  <1>3. PICK s \in Seen : Sees(p, "complete", s)
    <2>1. row[t] \in Seen /\ [status |-> "expired", attempts |-> 0] \in Seen
      BY <1>2 DEF Row, Seen
    <2> QED
      BY <2>1 DEF Handle
  <1> DEFINE e == SteppedSeeing(p, "complete", s)
  <1>4. /\ Becomes(p, e) /\ e \in Execution /\ e.task = t /\ e.pc = "complete"
        /\ e.retries = worker[p].retries
    BY <1>1, <1>2, <1>3, SeesIs DEF Pcs
  <1>5. UNCHANGED <<row, sending, ready, faults>> /\ effects' = [effects EXCEPT ![t] = effects[t] + 1]
    BY DEF Handle
  <1> HIDE DEF e
  <1>6. Executes(e, t)
    BY <1>4, NotIdle DEF Executes
  <1>7. Pays(t, worker[p], e, worker[p].retries, 0, 0, 1)
    BY <1>1, <1>2, <1>4, <1>6, Weights DEF Pays
  <1>8. Does(t, worker[p].retries, 0, 0, 1)
    <2>1. faults \in [Tasks -> Nat] /\ effects \in [Tasks -> Nat]
      BY <1>1, ExecutionFacts
    <2> QED
      BY <1>2, <1>5, <2>1 DEF Does
  <1>9. CountsNothing(t)
    BY <1>2, <1>5, RowStays
  <1>10. e.pc = "mark" => e.seen.attempts = row[t].attempts
    BY <1>4
  <1> HIDE DEF t
  <1> QED
    BY <1>2, <1>4, <1>7, <1>8, <1>9, <1>10, ExecutionKeeps

\* The handler raises, or a statement fails: to the except block.
LEMMA RaisesExplained ==
  ASSUME TypeInv, TypeInv', NEW p \in Workers, HandleFails(p) \/ Breaks(p),
         NEW u \in Tasks, Explained(u)
  PROVE  Explained(u)'
  <1> DEFINE t == worker[p].task
             e == Stepped(p, "except")
  <1>1. worker[p] # Idle
    BY AtIsAtWork DEF HandleFails, Breaks
  <1>2. /\ Executes(worker[p], t) /\ t \in Tasks /\ row[t] \in Row
        /\ worker[p].retries \in Retries /\ TypeOK
        /\ MaxAttempts \in Nat /\ worker[p].retries \in Nat
    BY <1>1, ExecutionFacts
  <1>3. /\ Becomes(p, e) /\ e \in Execution /\ e.task = t /\ e.pc = "except"
        /\ e.retries = worker[p].retries
    BY <1>1, <1>2, GotoIs DEF HandleFails, Breaks, Pcs
  <1>4. UNCHANGED <<row, sending, ready, effects>>
    BY DEF HandleFails, Breaks
  <1> HIDE DEF e
  <1>5. Executes(e, t)
    BY <1>3, NotIdle DEF Executes
  <1>6. PICK d \in {0, 1} : /\ Does(t, worker[p].retries, 0, d, 0)
                            /\ Pays(t, worker[p], e, worker[p].retries, 0, d, 0)
    <2>1. CASE HandleFails(p)
      <3>1. worker[p].pc = "handle"
        BY <2>1 DEF HandleFails, At
      <3>2. Does(t, worker[p].retries, 0, 0, 0)
        BY <1>1, <1>4, <2>1, DoesNothing DEF HandleFails
      <3>3. Pays(t, worker[p], e, worker[p].retries, 0, 0, 0)
        BY <1>2, <1>3, <1>5, <3>1, Weights DEF Pays
      <3> QED
        BY <3>2, <3>3
    <2>2. CASE Breaks(p)
      <3>1. worker[p].pc \in {"load", "mark", "complete"}
        BY <2>2 DEF Breaks, At
      <3>2. Does(t, worker[p].retries, 0, 1, 0)
        BY <1>1, <1>4, <2>2, DoesFail DEF Breaks
      <3>3. Pays(t, worker[p], e, worker[p].retries, 0, 1, 0)
        BY <1>2, <1>3, <1>5, <3>1, Weights DEF Pays
      <3> QED
        BY <3>2, <3>3
    <2> QED
      BY <2>1, <2>2
  <1>7. CountsNothing(t)
    BY <1>2, <1>4, RowStays
  <1>8. e.pc = "mark" => e.seen.attempts = row[t].attempts
    BY <1>3
  <1> HIDE DEF t
  <1> QED
    BY <1>2, <1>3, <1>6, <1>7, <1>8, ExecutionKeeps

\* The except block asks the row whether there is another attempt.
LEMMA ExceptExplained ==
  ASSUME TypeInv, TypeInv', NEW p \in Workers, Except(p), NEW u \in Tasks, Explained(u)
  PROVE  Explained(u)'
  <1> DEFINE t == worker[p].task
             c == IF should_retry_task(row[t]) THEN "retrying" ELSE "failed"
             e == SteppedSeeing(p, c, row[t])
  <1>1. worker[p] # Idle /\ worker[p].pc = "except"
    BY AtIsAtWork DEF Except, At
  <1>2. /\ Executes(worker[p], t) /\ t \in Tasks /\ row[t] \in Row
        /\ worker[p].retries \in Retries /\ TypeOK
        /\ MaxAttempts \in Nat /\ worker[p].retries \in Nat
        /\ worker[p].retries < MaxAttempts /\ row[t].attempts \in Nat
    BY <1>1, ExecutionFacts
  <1>3. /\ Becomes(p, e) /\ e \in Execution /\ e.task = t /\ e.pc = c
        /\ e.retries = worker[p].retries
    <2>1. c \in Pcs /\ row[t] \in Seen /\ Sees(p, c, row[t])
      BY <1>2 DEF Except, Row, Seen, Pcs
    <2> HIDE DEF c
    <2> QED
      BY <1>1, <1>2, <2>1, SeesIs
  <1>4. UNCHANGED <<row, sending, ready, effects, faults>>
    BY DEF Except
  <1>5. c = "failed" \/ (c = "retrying" /\ row[t].attempts < MaxAttempts)
    BY DEF should_retry_task
  <1> HIDE DEF e, c
  <1>6. Executes(e, t)
    BY <1>3, NotIdle DEF Executes
  <1>7. Pays(t, worker[p], e, worker[p].retries, 0, 0, 0)
    BY <1>1, <1>2, <1>3, <1>5, <1>6, Weights DEF Pays
  <1>8. Does(t, worker[p].retries, 0, 0, 0) /\ CountsNothing(t)
    BY <1>1, <1>2, <1>4, DoesNothing, RowStays
  <1>9. e.pc = "mark" => e.seen.attempts = row[t].attempts
    BY <1>3, <1>5
  <1> HIDE DEF t
  <1> QED
    BY <1>2, <1>3, <1>7, <1>8, <1>9, ExecutionKeeps

\* The status of the row, and on.
LEMMA MarkedExplained ==
  ASSUME TypeInv, TypeInv', NEW p \in Workers,
         MarkCompleted(p) \/ MarkRetrying(p) \/ MarkFailed(p), NEW u \in Tasks, Explained(u)
  PROVE  Explained(u)'
  <1> DEFINE t == worker[p].task
  <1>1. worker[p] # Idle
    BY AtIsAtWork DEF MarkCompleted, MarkRetrying, MarkFailed
  <1>2. /\ Executes(worker[p], t) /\ t \in Tasks /\ row[t] \in Row
        /\ worker[p].retries \in Retries /\ TypeOK
        /\ MaxAttempts \in Nat /\ worker[p].retries \in Nat
        /\ worker[p].retries < MaxAttempts
    BY <1>1, ExecutionFacts
  <1>3. PICK c \in Pcs, s \in Status :
          /\ Goto(p, c) /\ Assign(t, worker[p].seen, s)
          /\ \/ worker[p].pc = "retrying" /\ c = "publish"
             \/ worker[p].pc \in {"complete", "failed"} /\ c = "ack"
    BY DEF MarkCompleted, MarkRetrying, MarkFailed, At, Pcs, Status
  <1> DEFINE e == Stepped(p, c)
  <1>4. /\ Becomes(p, e) /\ e \in Execution /\ e.task = t /\ e.pc = c
        /\ e.retries = worker[p].retries
    BY <1>1, <1>2, <1>3, GotoIs
  <1>5. UNCHANGED <<sending, ready, effects, faults>>
    BY DEF MarkCompleted, MarkRetrying, MarkFailed
  <1> HIDE DEF e
  <1>6. Executes(e, t)
    BY <1>4, NotIdle DEF Executes
  <1>7. Pays(t, worker[p], e, worker[p].retries, 0, 0, 0)
    BY <1>2, <1>3, <1>4, <1>6, Weights DEF Pays
  <1>8. Does(t, worker[p].retries, 0, 0, 0)
    BY <1>1, <1>5, DoesNothing
  <1>9. CountsNothing(t)
    BY <1>2, <1>3, AssignCountsNothing
  <1>10. e.pc = "mark" => e.seen.attempts = row[t].attempts
    BY <1>3, <1>4
  <1> HIDE DEF t
  <1> QED
    BY <1>2, <1>4, <1>7, <1>8, <1>9, <1>10, ExecutionKeeps

LEMMA RetryExplained ==
  ASSUME TypeInv, TypeInv', NEW p \in Workers, Retry(p), NEW u \in Tasks, Explained(u)
  PROVE  Explained(u)'
  <1> DEFINE t == worker[p].task
             e == Stepped(p, "ack")
  <1>1. worker[p] # Idle /\ worker[p].pc = "publish"
    BY AtIsAtWork DEF Retry, At
  <1>2. /\ Executes(worker[p], t) /\ t \in Tasks /\ row[t] \in Row
        /\ worker[p].retries \in Retries /\ TypeOK
        /\ MaxAttempts \in Nat /\ worker[p].retries \in Nat
        /\ worker[p].retries < MaxAttempts
    BY <1>1, ExecutionFacts
  <1>3. /\ Becomes(p, e) /\ e \in Execution /\ e.task = t /\ e.pc = "ack"
        /\ e.retries = worker[p].retries
    BY <1>1, <1>2, GotoIs DEF Retry, Pcs
  <1>4. UNCHANGED <<row, sending, effects, faults>>
    BY DEF Retry
  <1> HIDE DEF e
  <1>5. Executes(e, t)
    BY <1>3, NotIdle DEF Executes
  <1>6. faults \in [Tasks -> Nat] /\ effects \in [Tasks -> Nat]
    BY <1>1, ExecutionFacts
  <1>7. PICK k \in Retries, n \in {0, 1} : /\ Does(t, k, n, 0, 0)
                                           /\ Pays(t, worker[p], e, k, n, 0, 0)
    <2> DEFINE k == worker[p].retries + 1
    <2>1. CASE k \in Retries
      <3>1. Sent(t, k)
        BY <2>1 DEF Retry, Sent
      <3>2. Does(t, k, 1, 0, 0)
        BY <1>4, <1>6, <2>1, <3>1 DEF Does
      <3>3. Pays(t, worker[p], e, k, 1, 0, 0)
        BY <1>1, <1>2, <1>3, <1>5, Weights DEF Pays
      <3> QED
        BY <2>1, <3>2, <3>3
    <2>2. CASE k \notin Retries
      <3>1. UNCHANGED ready
        BY <2>2 DEF Retry
      <3>2. Does(t, worker[p].retries, 0, 0, 0)
        BY <1>2, <1>4, <1>6, <3>1 DEF Does
      <3>3. Pays(t, worker[p], e, worker[p].retries, 0, 0, 0)
        BY <1>1, <1>2, <1>3, <1>5, Weights DEF Pays
      <3> QED
        BY <1>2, <3>2, <3>3
    <2> QED
      BY <2>1, <2>2
  <1>8. CountsNothing(t)
    BY <1>2, <1>4, RowStays
  <1>9. e.pc = "mark" => e.seen.attempts = row[t].attempts
    BY <1>3
  <1> HIDE DEF t
  <1> QED
    BY <1>2, <1>3, <1>7, <1>8, <1>9, ExecutionKeeps

\* The execution is over: acknowledged, lost, or to be delivered again.
LEMMA OverExplained ==
  ASSUME TypeInv, TypeInv', NEW p \in Workers, Ack(p) \/ Lose(p) \/ Crash(p),
         NEW u \in Tasks, Explained(u)
  PROVE  Explained(u)'
  <1> DEFINE t == worker[p].task
  <1>1. worker[p] # Idle
    BY AtIsAtWork DEF Ack, Lose, Crash
  <1>2. /\ Executes(worker[p], t) /\ t \in Tasks /\ row[t] \in Row
        /\ worker[p].retries \in Retries /\ TypeOK
        /\ MaxAttempts \in Nat /\ worker[p].retries \in Nat
        /\ worker[p].retries < MaxAttempts /\ worker[p] \in Execution
    BY <1>1, ExecutionFacts
  <1>3. Becomes(p, Idle) /\ UNCHANGED <<row, sending, effects>>
    BY DEF Ack, Lose, Crash, Becomes
  <1>4. LiveW(Idle, t) = 0 /\ PendingW(Idle, t) = 0 /\ CreditW(Idle, t) = 0
    BY DEF LiveW, PendingW, CreditW, Executes
  <1>5. /\ LiveW(worker[p], t) \in Nat /\ PendingW(worker[p], t) \in Nat
        /\ CreditW(worker[p], t) \in Nat
    BY <1>2, WeightTypes
  <1>6. \E n \in {0, 1}, d \in {0, 1} :
          /\ Does(t, worker[p].retries, n, d, 0)
          /\ Pays(t, worker[p], Idle, worker[p].retries, n, d, 0)
    <2>1. CASE Ack(p)
      <3>1. Does(t, worker[p].retries, 0, 0, 0)
        BY <1>1, <1>3, <2>1, DoesNothing DEF Ack
      <3>2. Pays(t, worker[p], Idle, worker[p].retries, 0, 0, 0)
        BY <1>4, <1>5 DEF Pays
      <3> QED
        BY <3>1, <3>2
    <2>2. CASE Lose(p)
      <3>1. Does(t, worker[p].retries, 0, 1, 0)
        BY <1>1, <1>3, <2>2, DoesFail DEF Lose
      <3>2. Pays(t, worker[p], Idle, worker[p].retries, 0, 1, 0)
        BY <1>2, <1>4, <1>5 DEF Pays
      <3> QED
        BY <3>1, <3>2
    <2>3. CASE Crash(p)
      <3>1. Fault(t) /\ Sent(t, worker[p].retries)
        BY <2>3 DEF Crash, Sent
      <3>2. Does(t, worker[p].retries, 1, 1, 0)
        BY <1>1, <1>3, <3>1, DoesFail
      <3>3. Pays(t, worker[p], Idle, worker[p].retries, 1, 1, 0)
        BY <1>2, <1>4, <1>5 DEF Pays
      <3> QED
        BY <3>2, <3>3
    <2> QED
      BY <2>1, <2>2, <2>3
  <1>7. CountsNothing(t)
    BY <1>2, <1>3, RowStays
  <1>8. Idle.pc # "mark"
    BY DEF Idle
  <1> HIDE DEF t
  <1>9. PICK n \in {0, 1}, d \in {0, 1} :
          /\ Does(t, worker[p].retries, n, d, 0)
          /\ Pays(t, worker[p], Idle, worker[p].retries, n, d, 0)
    BY <1>6
  <1> QED
    BY <1>2, <1>3, <1>7, <1>8, <1>9, ExecutionKeeps

LEMMA TakeExplained ==
  ASSUME TypeInv, TypeInv', NEW p \in Workers, NEW t \in Tasks, NEW k \in Retries,
         Take(p, t, k), NEW u \in Tasks, Explained(u)
  PROVE  Explained(u)'
  <1> DEFINE e == [pc |-> "load", task |-> t, retries |-> k,
                   seen |-> [status |-> "expired", attempts |-> 0]]
  <1>1. e \in Execution /\ e.task = t /\ e.pc = "load" /\ e.retries = k
    BY DEF Execution, Pcs
  <1>2. /\ worker[p] = Idle /\ Becomes(p, e) /\ Taken(t, k)
        /\ UNCHANGED <<row, sending, effects, faults>>
    BY DEF Take, Becomes, Taken
  <1> HIDE DEF e
  <1>3. Finite(u) /\ Ready(u) \in Nat /\ Value(u) \in Nat
    BY CountTypes DEF Explained
  <1>4. /\ IsFiniteSet(Area(Retries, ready'[u])) /\ IsFiniteSet(Area(Retries, ValueOf(u)'))
        /\ Ready(u)' = IF u = t THEN Ready(u) - 1 ELSE Ready(u)
        /\ Value(u)' = IF u = t THEN Value(u) - (MaxAttempts - k) ELSE Value(u)
    BY <1>2, <1>3, MessageTaken
  <1>5. ~Executes(worker[p], u)
    BY <1>2 DEF Executes
  <1>6. CASE u # t
    <2>1. ~Executes(e, u)
      BY <1>1, <1>6 DEF Executes
    <2> QED
      BY <1>1, <1>2, <1>4, <1>5, <1>6, <2>1, OtherTask
  <1>7. CASE u = t
    <2> DEFINE n == -1
               v == -(MaxAttempts - k)
    <2>0. MaxAttempts \in Nat /\ k \in Nat
      BY QueueAssumption DEF Retries
    <2>1. n \in Int /\ v \in Int /\ Ready(u)' = Ready(u) + n /\ Value(u)' = Value(u) + v
      BY <1>3, <1>4, <1>7, <2>0
    <2>2. Executes(e, u)
      BY <1>1, <1>7, NotIdle DEF Executes
    <2>3. /\ LiveW(e, u) = 1 /\ PendingW(e, u) = 1 /\ CreditW(e, u) = MaxAttempts - k
          /\ LiveW(worker[p], u) = 0 /\ PendingW(worker[p], u) = 0
          /\ CreditW(worker[p], u) = 0
      BY <1>1, <1>5, <2>2, Weights
    <2>4. /\ 0 + n + LiveW(e, u) <= LiveW(worker[p], u) + 0
          /\ n + PendingW(e, u) <= PendingW(worker[p], u) + 0
          /\ v + CreditW(e, u) <= CreditW(worker[p], u) + (IF 0 = 1 THEN MaxAttempts ELSE 0)
      BY <2>0, <2>3
    <2>5. /\ faults'[u] = faults[u] + 0 /\ effects'[u] = effects[u] + 0
          /\ row'[u].attempts = row[u].attempts /\ row'[u] = NoRow <=> row[u] = NoRow
      BY <1>2 DEF TypeInv, TypeOK
    <2>6. (Executes(e, u) /\ e.pc = "mark") => e.seen.attempts = row[u].attempts
      BY <1>1
    <2>7. 0 \in {0, 1}
      OBVIOUS
    <2> HIDE DEF n, v
    <2> QED
      BY <1>1, <1>2, <1>4, <2>1, <2>4, <2>5, <2>6, <2>7, ProcessKeeps
  <1> QED
    BY <1>6, <1>7

\* The row with a status and a count of its own.
Counted(r, s, n) == [r EXCEPT !.status = s, !.attempts = n]

LEMMA CountedIsARow ==
  ASSUME NEW r \in Row, NEW s \in Status, NEW n \in Nat
  PROVE  Counted(r, s, n) \in Row /\ Counted(r, s, n).attempts = n
  BY DEF Counted, Row

\* The attempt is counted on from what was read.
LEMMA MarkExplained ==
  ASSUME TypeInv, TypeInv', NEW p \in Workers, MarkProcessing(p),
         NEW u \in Tasks, Explained(u)
  PROVE  Explained(u)'
  <1> DEFINE t == worker[p].task
             a == worker[p].seen.attempts
             e == Stepped(p, "handle")
  <1>1. worker[p] # Idle /\ worker[p].pc = "mark"
    BY AtIsAtWork DEF MarkProcessing, At
  <1>2. /\ Executes(worker[p], t) /\ t \in Tasks /\ row[t] \in Row
        /\ worker[p].retries \in Retries /\ TypeOK
        /\ MaxAttempts \in Nat /\ worker[p].retries \in Nat
        /\ worker[p].retries < MaxAttempts /\ a \in Nat
        /\ row[t].attempts \in Nat /\ faults[t] \in Nat /\ effects[t] \in Nat
    BY <1>1, ExecutionFacts
  <1>3. /\ Becomes(p, e) /\ e \in Execution /\ e.task = t /\ e.pc = "handle"
        /\ e.retries = worker[p].retries
    BY <1>1, <1>2, GotoIs DEF MarkProcessing, Pcs
  <1> DEFINE s == IF worker[p].seen.status = "processing" THEN row[t].status ELSE "processing"
             r == [row[t] EXCEPT !.status = s, !.attempts = a + 1]
  <1>4. /\ UNCHANGED <<sending, ready, effects, faults>>
        /\ row' = [row EXCEPT ![t] = r]
    BY DEF MarkProcessing
  <1>5. r \in Row /\ r.attempts = a + 1
    <2>1. s \in Status
      BY <1>2 DEF Row, Status
    <2>2. a + 1 \in Nat
      BY <1>2
    <2>3. r = Counted(row[t], s, a + 1)
      BY DEF Counted
    <2> HIDE DEF s, a, r
    <2> QED
      BY <1>2, <2>1, <2>2, <2>3, CountedIsARow
  <1> HIDE DEF r
  <1>6. row'[t] = r /\ \A o \in Tasks \ {t} : row'[o] = row[o]
    BY <1>2, <1>4 DEF TypeOK
  <1> HIDE DEF e
  <1>7. Finite(u) /\ Ready(u)' = Ready(u) /\ Value(u)' = Value(u)
        /\ IsFiniteSet(Area(Retries, ready'[u])) /\ IsFiniteSet(Area(Retries, ValueOf(u)'))
    BY <1>4 DEF Explained, Finite, Ready, Value, ValueOf
  <1>8. CASE u # t
    <2>1. ~Executes(e, u) /\ ~Executes(worker[p], u)
      BY <1>3, <1>8 DEF Executes
    <2> QED
      BY <1>3, <1>4, <1>6, <1>7, <1>8, <2>1, OtherTask
  <1>9. CASE u = t
    <2> DEFINE m == row[u].attempts
               f == faults[u]
    <2>1. /\ IsFiniteSet(Area(Workers, LiveOf(u)'))
          /\ IsFiniteSet(Area(Workers, PendingOf(u)'))
          /\ IsFiniteSet(Area(Workers, CreditOf(u)'))
          /\ LiveN(u)' = LiveN(u) + LiveW(e, u) - LiveW(worker[p], u)
          /\ PendingN(u)' = PendingN(u) + PendingW(e, u) - PendingW(worker[p], u)
          /\ CreditN(u)' = CreditN(u) + CreditW(e, u) - CreditW(worker[p], u)
      BY <1>3, <1>7, WorkerChange
    <2>2. Executes(e, u) /\ Executes(worker[p], u)
      BY <1>2, <1>3, <1>9, NotIdle DEF Executes
    <2>3. /\ LiveW(e, u) = 1 /\ PendingW(e, u) = 0
          /\ LiveW(worker[p], u) = 1 /\ PendingW(worker[p], u) = 1
          /\ CreditW(e, u) = MaxAttempts - worker[p].retries - 1
          /\ CreditW(worker[p], u) = MaxAttempts - worker[p].retries
      BY <1>1, <1>3, <2>2, Weights
    <2>4. /\ ToSend(u) \in {0, 1} /\ Ready(u) \in Nat /\ Value(u) \in Nat
          /\ LiveN(u) \in Nat /\ PendingN(u) \in Nat /\ CreditN(u) \in Nat
          /\ Live(u) \in Nat /\ Pending(u) \in Nat /\ Credit(u) \in Nat
      BY <1>7, CountTypes
    <2>5. /\ LiveN(u)' = LiveN(u) /\ PendingN(u)' = PendingN(u) - 1
          /\ CreditN(u)' = CreditN(u) - 1
      BY <1>2, <2>1, <2>3, <2>4
    <2>6. ToSend(u)' = ToSend(u) /\ ToSend(u) * MaxAttempts \in Nat
      BY <1>2, <1>4, <2>4 DEF ToSend
    <2>7. /\ Live(u)' = Live(u) /\ Pending(u)' = Pending(u) - 1 /\ Credit(u)' = Credit(u) - 1
      <3>1. /\ Live(u)' = ToSend(u)' + Ready(u)' + LiveN(u)'
            /\ Pending(u)' = ToSend(u)' + Ready(u)' + PendingN(u)'
            /\ Credit(u)' = ToSend(u)' * MaxAttempts + Value(u)' + CreditN(u)'
        BY DEF Live, Pending, Credit
      <3>2. PICK z \in Nat : z = ToSend(u) * MaxAttempts
        BY <2>6
      <3>3. ToSend(u)' * MaxAttempts = z
        BY <2>6, <3>2
      <3>4. Credit(u)' = z + Value(u)' + CreditN(u)' /\ Credit(u) = z + Value(u) + CreditN(u)
        BY <3>1, <3>2, <3>3 DEF Credit
      <3>5. Live(u)' = Live(u) /\ Pending(u)' = Pending(u) - 1
        BY <1>7, <2>4, <2>5, <2>6, <3>1 DEF Live, Pending
      <3>6. Credit(u)' = Credit(u) - 1
        BY <1>7, <2>4, <2>5, <3>4
      <3> QED
        BY <3>5, <3>6
    <2>8. Finite(u)'
      BY <1>7, <2>1 DEF Finite, Area
    <2>9. Pending(u) <= 1 + f
      <3>1. Pending(u) <= Live(u)
        BY <1>7, PendingIsLive
      <3>2. effects[u] + Live(u) <= 1 + f
        BY <1>2, <1>9, <2>4 DEF Explained, WorkInv
      <3> QED
        BY <1>2, <1>9, <2>4, <3>1, <3>2
    <2>10. row'[u].attempts = a + 1 /\ row'[u] # NoRow /\ faults'[u] = f /\ effects'[u] = effects[u]
      BY <1>4, <1>5, <1>6, <1>9 DEF Row, NoRow, Status
    <2>11. /\ m \in Nat /\ f \in Nat /\ a \in Nat /\ MaxAttempts \in Nat
           /\ row[u] # NoRow
      BY <1>2, <1>9 DEF Row, NoRow, Status
    <2>12. Reading(p, u)
      BY <1>1, <2>2 DEF Reading
    <2>13. \A q \in Workers : Reading(q, u)' =>
             q # p /\ Reading(q, u) /\ worker'[q] = worker[q]
      <3>1. \A q \in Workers : worker'[q] = IF q = p THEN e ELSE worker[q]
        BY <1>3 DEF Becomes, TypeInv, TypeOK
      <3> QED
        BY <1>3, <3>1 DEF Reading, Executes
    <2>14. WorkInv(u)'
      BY <2>7, <2>10, <2>11 DEF Explained, WorkInv
    <2>15. CountInv(u)'
      <3> SUFFICES ASSUME f <= 1
                   PROVE  /\ a + 1 >= MaxAttempts => a + 1 + Pending(u)' <= MaxAttempts + f
                          /\ \A q \in Workers :
                               (Reading(q, u)' /\ worker'[q].seen.attempts >= MaxAttempts)
                                 => a + 1 = worker'[q].seen.attempts
        BY <2>10 DEF CountInv
      <3>1. /\ m >= MaxAttempts => m + Pending(u) <= MaxAttempts + f
            /\ \A q \in Workers :
                 (Reading(q, u) /\ worker[q].seen.attempts >= MaxAttempts)
                   => m = worker[q].seen.attempts
        BY DEF Explained, CountInv
      <3>2. a >= MaxAttempts => m = a
        BY <2>12, <3>1
      <3>3. a + 1 >= MaxAttempts => a + 1 + Pending(u)' <= MaxAttempts + f
        <4> HIDE DEF m, a, f
        <4> QED
          BY <2>4, <2>7, <2>9, <2>11, <3>1, <3>2
      <3>4. ASSUME NEW q \in Workers, Reading(q, u)', worker'[q].seen.attempts >= MaxAttempts
            PROVE  FALSE
        <4>1. Reading(q, u) /\ q # p /\ worker'[q] = worker[q]
          BY <2>13, <3>4
        <4>2. m >= MaxAttempts
          BY <3>1, <3>4, <4>1
        <4>3. Pending(u)' <= 0
          <5> HIDE DEF m, a, f
          <5> QED
            BY <2>4, <2>7, <2>11, <3>1, <4>2
        <4>4. PendingN(u)' \in Nat \ {0}
          <5>1. PICK g \in [Workers -> Nat] : g = PendingOf(u)'
            <6>1. \A o \in Workers : PendingW(worker'[o], u) \in Nat
              BY WeightsAreNat DEF TypeInv, TypeOK
            <6>2. PendingOf(u)' = [o \in Workers |-> PendingW(worker'[o], u)]
              BY DEF PendingOf, PendingW, Executes
            <6> QED
              BY <6>1, <6>2
          <5>2. g[q] = 1
            <6>1. PendingOf(u)' = [o \in Workers |-> PendingW(worker'[o], u)]
              BY DEF PendingOf, PendingW, Executes
            <6>2. PendingW(worker[q], u) = 1
              BY <4>1, Weights DEF Reading
            <6> QED
              BY <4>1, <5>1, <6>1, <6>2
          <5>3. IsFiniteSet(Area(Workers, g)) /\ PendingN(u)' = Cardinality(Area(Workers, g))
            BY <2>1, <5>1 DEF PendingN, Area
          <5> QED
            BY <5>2, <5>3, AreaPositive
        <4>5. Pending(u)' = ToSend(u)' + Ready(u)' + PendingN(u)'
          BY DEF Pending
        <4> QED
          BY <1>7, <2>4, <2>6, <4>3, <4>4, <4>5
      <3> QED
        BY <3>3, <3>4
    <2>16. CreditInv(u)'
      <3>1. PICK X \in Nat :
              /\ m <= X
              /\ \A q \in Workers : Reading(q, u) => worker[q].seen.attempts <= X
              /\ X + Credit(u) <= Top(f)
        BY DEF Explained, CreditInv
      <3>2. a <= X
        BY <2>12, <3>1
      <3>3. a + 1 <= X + 1 /\ X + 1 \in Nat
        BY <2>11, <3>2
      <3>4. X + 1 + Credit(u)' <= Top(faults'[u])
        <4>1. Top(f) \in Nat
          BY <2>11, TopGrows
        <4> QED
          BY <2>4, <2>7, <2>10, <3>1, <4>1
      <3>5. \A q \in Workers : Reading(q, u)' => worker'[q].seen.attempts <= X + 1
        <4> SUFFICES ASSUME NEW q \in Workers, Reading(q, u)'
                     PROVE  worker'[q].seen.attempts <= X + 1
          OBVIOUS
        <4>1. Reading(q, u) /\ worker'[q] = worker[q]
          BY <2>13
        <4>2. worker[q].seen.attempts \in Nat
          BY <1>2, <4>1, AtWork DEF Reading, Executes
        <4> QED
          BY <3>1, <4>1, <4>2
      <3> QED
        BY <2>10, <3>3, <3>4, <3>5 DEF CreditInv, Top
    <2> QED
      BY <2>8, <2>14, <2>15, <2>16 DEF Explained
  <1> QED
    BY <1>8, <1>9

AllExplained == \A t \in Tasks : Explained(t)

LEMMA ExplainedInit == Init => AllExplained
  <1> SUFFICES ASSUME Init, NEW t \in Tasks PROVE Explained(t)
    BY DEF AllExplained
  <1>1. TypeInv
    BY TypeInit
  <1>2. row[t] = NoRow /\ effects[t] = 0 /\ faults[t] = 0 /\ row[t].attempts = 0
    BY DEF Init, NoRow
  <1>3. /\ Finite(t) /\ Live(t) = 0 /\ Pending(t) = 0 /\ Credit(t) = 0
        /\ \A p \in Workers : ~Reading(p, t)
    BY <1>1, <1>2, NothingBefore
  <1>4. WorkInv(t)
    BY <1>2, <1>3 DEF WorkInv
  <1>5. CountInv(t)
    BY <1>2, <1>3, QueueAssumption DEF CountInv
  <1>6. CreditInv(t)
    <2>1. Top(0) \in Nat
      BY TopGrows
    <2>2. 0 + Credit(t) <= Top(faults[t])
      BY <1>2, <1>3, <2>1
    <2> QED
      BY <1>2, <1>3, <2>2 DEF CreditInv
  <1> QED
    BY <1>3, <1>4, <1>5, <1>6 DEF Explained

LEMMA ExplainedStep == TypeInv /\ TypeInv' /\ AllExplained /\ [Next]_vars => AllExplained'
  <1> SUFFICES ASSUME TypeInv, TypeInv', AllExplained, [Next]_vars, NEW u \in Tasks
               PROVE  Explained(u)'
    BY DEF AllExplained
  <1>0. Explained(u)
    BY DEF AllExplained
  <1>1. ASSUME NEW t \in Tasks, Create(t) \/ Dispatch(t) \/ DispatchFails(t)
        PROVE  Explained(u)'
    BY <1>0, <1>1, CreateExplained, DispatchExplained
  <1>2. ASSUME NEW p \in Workers, TakeAny(p) PROVE Explained(u)'
    BY <1>0, <1>2, TakeExplained DEF TakeAny
  <1>3. ASSUME NEW p \in Workers, Load(p) \/ MarkProcessing(p) \/ Handle(p)
        PROVE  Explained(u)'
    BY <1>0, <1>3, LoadExplained, MarkExplained, HandleExplained
  <1>4. ASSUME NEW p \in Workers, HandleFails(p) \/ Breaks(p) \/ Except(p)
        PROVE  Explained(u)'
    BY <1>0, <1>4, RaisesExplained, ExceptExplained
  <1>5. ASSUME NEW p \in Workers, MarkCompleted(p) \/ MarkRetrying(p) \/ MarkFailed(p)
        PROVE  Explained(u)'
    BY <1>0, <1>5, MarkedExplained
  <1>6. ASSUME NEW p \in Workers, Retry(p) \/ Ack(p) \/ Lose(p) \/ Crash(p)
        PROVE  Explained(u)'
    BY <1>0, <1>6, RetryExplained, OverExplained
  <1>7. CASE UNCHANGED vars
    BY <1>0, <1>7
    DEF vars, Explained, Finite, WorkInv, CountInv, CreditInv, Live, Pending, Credit, ToSend,
        Ready, Value, LiveN, PendingN, CreditN, ValueOf, LiveOf, PendingOf, CreditOf, Reading
  <1> QED
    BY <1>1, <1>2, <1>3, <1>4, <1>5, <1>6, <1>7 DEF Next, Step

LEMMA ExplainedInvariant == Spec => [](TypeInv /\ AllExplained)
  BY TypeInit, TypeStep, ExplainedInit, ExplainedStep, PTL DEF Spec

LEMMA ExplainedFacts ==
  ASSUME TypeInv, AllExplained, NEW t \in Tasks
  PROVE  /\ effects[t] <= 1 + faults[t]
         /\ row[t].attempts <= IF faults[t] <= 1 THEN MaxAttempts + faults[t]
                               ELSE MaxAttempts * (1 + faults[t])
  <1>0. /\ Explained(t) /\ faults[t] \in Nat /\ effects[t] \in Nat /\ MaxAttempts \in Nat
        /\ row[t].attempts \in Nat
    BY QueueAssumption DEF AllExplained, TypeInv, TypeOK, Row, NoRow
  <1>1. Live(t) \in Nat /\ Pending(t) \in Nat /\ Credit(t) \in Nat
    BY <1>0, CountTypes DEF Explained
  <1>2. effects[t] <= 1 + faults[t]
    BY <1>0, <1>1 DEF Explained, WorkInv
  <1>3. CASE faults[t] <= 1
    BY <1>0, <1>1, <1>2, <1>3 DEF Explained, CountInv
  <1>4. CASE ~(faults[t] <= 1)
    <2>1. PICK X \in Nat : row[t].attempts <= X /\ X + Credit(t) <= Top(faults[t])
      BY <1>0 DEF Explained, CreditInv
    <2>2. Top(faults[t]) \in Nat
      BY <1>0, TopGrows
    <2>3. row[t].attempts <= Top(faults[t])
      BY <1>0, <1>1, <2>1, <2>2
    <2> QED
      BY <1>2, <1>4, <2>3 DEF Top
  <1> QED
    BY <1>3, <1>4

\* However processes die, statements fail and messages are lost or delivered again,
\* an email is sent once, and once more at most for each of those faults.
THEOREM WorkIsDoneOncePerFault == Spec => []WorkDoneOncePerFault
  <1>1. TypeInv /\ AllExplained => WorkDoneOncePerFault
    BY ExplainedFacts DEF WorkDoneOncePerFault
  <1> QED
    BY <1>1, ExplainedInvariant, PTL

\* The attempts of a row stay within max_attempts without a fault, exceed it by one
\* at most after one, and whatever the faults by what Celery's count lets the
\* deliveries attempt that they repeat.
THEOREM AttemptsAreExplained == Spec => []AttemptsExplained
  <1>1. TypeInv /\ AllExplained => AttemptsExplained
    BY ExplainedFacts DEF AttemptsExplained
  <1> QED
    BY <1>1, ExplainedInvariant, PTL

=============================================================================
