--------------------------- MODULE UserVpnProofs ---------------------------
(***************************************************************************)
(* Proofs about UserVpn, for every finite set of users, every set of       *)
(* processes and every bound.                                              *)
(***************************************************************************)
EXTENDS UserVpn, FiniteSetTheorems, WellFoundedInduction, TLAPS

\* An onboarding after its first UPDATE, and the other requests.
Sending == {"provision", "config", "mail", "commit"}
Saving == {"detach", "create", "save"}

\* What a request has set, of what it read: n passwords have been generated, and
\* ev has happened.  An onboarding sets a password newer than all; the others none,
\* or the user's own.  An onboarding names no device over another.
PasswordOf(q, n) ==
  /\ q.old.pw <= n
  /\ q.pc \in Sending =>
       q.locked /\ q.mine.must /\ q.mine.pw > q.old.pw /\ q.mine.pw <= n
  /\ q.pc \in Saving =>
       \/ q.mine.pw = q.old.pw /\ (q.mine.must <=> q.old.must)
       \/ q.mine.pw = Own /\ q.old.pw # Own

DeviceOf(q) ==
  /\ q.pc \in {"provision", "create"} => q.mine.vpn = NoDevice
  /\ q.pc \in Sending => q.mine.vpn = q.old.vpn \/ q.old.vpn = NoDevice
  /\ q.mine.active # q.old.active =>
       q.pc \in {"detach", "save"} /\ q.mine.vpn \in {q.old.vpn, NoDevice}
  /\ q.pc = "detach" =>
       /\ q.mine.vpn = q.old.vpn
       /\ q.then \in {"create", "save"} /\ (q.mine.active # q.old.active => q.then = "save")

FieldsOf(q, n, ev) ==
  /\ PasswordOf(q, n)
  /\ DeviceOf(q)
  /\ q.pc = "password" => q.mine = q.old
  /\ (q.job /\ q.old.sent) => "welcomed" \in ev
  /\ q.pc = "next" => q.rest # {} /\ ~q.locked

\* What a request's reading still says of the rows r and the inboxes box.
StateOf(q, r, box, ev) ==
  /\ q.locked => r[q.user] = q.old \/ "stale" \in ev
  /\ q.pc = "commit" => box[q.user].pw = q.mine.pw \/ "fault" \in ev

TypeInv == TypeOK /\ IsFiniteSet(devices)
FieldsInv == \A w \in Workers : Busy(w) => FieldsOf(req[w], temps, events)
StateInv == \A w \in Workers : Busy(w) => StateOf(req[w], row, inbox, events)
PasswordInv == \A u \in Users : row[u].pw <= temps

Inv == TypeInv /\ FieldsInv /\ StateInv /\ PasswordInv

-----------------------------------------------------------------------------
(* Rows, requests and their fields *)

\* The fields of a request in flight.
LEMMA RequestFields ==
  ASSUME TypeInv, NEW w \in Workers, Busy(w)
  PROVE  /\ req[w] \in Request
         /\ req[w].pc \in Pcs /\ req[w].user \in Users
         /\ req[w].old \in Row /\ req[w].mine \in Row
         /\ req[w].locked \in BOOLEAN /\ req[w].job \in BOOLEAN
         /\ req[w].rest \subseteq Users /\ req[w].then \in Pcs /\ req[w].config \in Nat
  BY DEF TypeInv, TypeOK, Request, Busy

\* The columns of a row.
LEMMA RowFields ==
  ASSUME NEW r \in Row
  PROVE  /\ r.pw \in Nat /\ r.vpn \in Nat
         /\ r.must \in BOOLEAN /\ r.sent \in BOOLEAN /\ r.active \in BOOLEAN
  BY DEF Row

\* A process that is somewhere is not idle.
LEMMA BusyAt ==
  ASSUME NEW w, NEW pc \in Pcs, At(w, pc)
  PROVE  Busy(w) /\ req[w].pc = pc
  BY DEF At, Busy, Idle, Pcs

LEMMA IdleIsNowhere == Idle.pc = "idle" /\ Idle \notin Request
  BY DEF Idle, Request, Pcs

\* What a request is when it starts.
LEMMA ReadingFields ==
  ASSUME TypeInv, NEW u \in Users, NEW pc \in Pcs
  PROVE  /\ Reading(u, pc) \in Request
         /\ Reading(u, pc).pc = pc /\ Reading(u, pc).user = u
         /\ Reading(u, pc).old = row[u] /\ Reading(u, pc).mine = row[u]
         /\ ~Reading(u, pc).locked /\ ~Reading(u, pc).job
         /\ Reading(u, pc).rest = {} /\ Reading(u, pc).then = pc
  BY DEF Reading, TypeInv, TypeOK, Request, Pcs, NoDevice

LEMMA JobReadingFields ==
  ASSUME TypeInv, NEW u \in Users, NEW rest \in SUBSET Users
  PROVE  /\ JobReading(u, rest) \in Request
         /\ JobReading(u, rest).pc = "password" /\ JobReading(u, rest).user = u
         /\ JobReading(u, rest).old = row[u] /\ JobReading(u, rest).mine = row[u]
         /\ ~JobReading(u, rest).locked
  <1> DEFINE q == Reading(u, "password")
  <1>1. /\ q \in Request /\ q.pc = "password" /\ q.user = u
        /\ q.old = row[u] /\ q.mine = row[u] /\ ~q.locked
    BY ReadingFields DEF Pcs
  <1>2. JobReading(u, rest) = [q EXCEPT !.job = TRUE, !.rest = rest]
    BY DEF JobReading
  <1> HIDE DEF q
  <1> QED
    BY <1>1, <1>2 DEF Request

\* A process turns to something else.
LEMMA BecomesIs ==
  ASSUME TypeInv, NEW w \in Workers, NEW q, Becomes(w, q)
  PROVE  /\ req'[w] = q /\ DOMAIN req' = Workers
         /\ \A v \in Workers \ {w} : req'[v] = req[v]
  BY DEF Becomes, TypeInv, TypeOK

\* Nobody but w has written the user's row.
Alone(w, u) ==
  \A v \in Workers \ {w} : ~(Busy(v) /\ req[v].locked /\ req[v].user = u)

LEMMA LockedIsAlone ==
  ASSUME TypeInv, NEW w \in Workers, Busy(w), req[w].locked
  PROVE  Alone(w, req[w].user)
  BY DEF TypeInv, TypeOK, Alone

LEMMA UnblockedIsAlone ==
  ASSUME NEW w \in Workers, ~Blocked(w)
  PROVE  Alone(w, req[w].user)
  BY DEF Blocked, Alone

\* The columns a request has changed are written, the others keep their values.
LEMMA MergedIs ==
  ASSUME TypeInv, NEW w \in Workers, Busy(w)
  PROVE  LET m == req[w].mine
             o == req[w].old
             r == row[req[w].user]
         IN /\ Merged(w) \in Row
            /\ Merged(w).pw = IF m.pw # o.pw THEN m.pw ELSE r.pw
            /\ Merged(w).vpn = IF m.vpn # o.vpn THEN m.vpn ELSE r.vpn
            /\ Merged(w).must = IF m.must # o.must THEN m.must ELSE r.must
  <1>1. req[w].mine \in Row /\ req[w].old \in Row /\ row[req[w].user] \in Row
    BY RequestFields DEF TypeInv, TypeOK
  <1> QED
    BY <1>1 DEF Merged, Row

\* The least of some users is one of them.
LEMMA LeastIsIn ==
  ASSUME NEW us \in SUBSET Users, us # {}
  PROVE  Least(us) \in us
  <1>1. us \subseteq Nat
    BY UserVpnAssumption
  <1> DEFINE R == OpToRel(<, Nat)
  <1>2. IsWellFoundedOn(R, Nat)
    BY NatLessThanWellFounded
  <1>3. PICK u \in us : \A v \in us : ~(<<v, u>> \in R)
    <2> HIDE DEF R
    <2> QED
      BY <1>1, <1>2, WFMin
  <1>4. \A v \in us : ~(v < u)
    BY <1>1, <1>3 DEF OpToRel
  <1>5. \A v \in us : u <= v
    BY <1>1, <1>4
  <1> QED
    BY <1>5 DEF Least

-----------------------------------------------------------------------------
(* A process that turns to something else *)

\* The types, when at most one lock is added.
LEMMA Typed ==
  ASSUME TypeInv, NEW w \in Workers, NEW q \in Request \cup {Idle}, Becomes(w, q),
         q # Idle => (q.locked => Alone(w, q.user)),
         row' \in [Users -> Row], devices' \subseteq Device, IsFiniteSet(devices'),
         inbox' \in [Users -> Mail \cup {NoMail}], temps' \in Nat, started' \in Nat,
         events' \subseteq Events
  PROVE  TypeInv'
  <1>1. req' \in [Workers -> Request \cup {Idle}]
    BY DEF Becomes, TypeInv, TypeOK
  <1>2. ASSUME NEW v \in Workers, NEW x \in Workers,
               req'[v] # Idle, req'[x] # Idle, req'[v].locked, req'[x].locked,
               req'[v].user = req'[x].user
        PROVE  v = x
    <2>1. CASE v = w /\ x # w
      BY <1>2, <2>1, BecomesIs DEF Alone, Busy
    <2>2. CASE v # w /\ x = w
      BY <1>2, <2>2, BecomesIs DEF Alone, Busy
    <2>3. CASE v # w /\ x # w
      <3>1. req'[v] = req[v] /\ req'[x] = req[x]
        BY <2>3, BecomesIs
      <3> QED
        BY <1>2, <3>1 DEF TypeInv, TypeOK, Busy
    <2> QED
      BY <2>1, <2>2, <2>3
  <1> QED
    BY <1>1, <1>2 DEF TypeInv, TypeOK, Busy

\* What holds of a request goes on to hold as passwords and events are added.
LEMMA FieldsLast ==
  ASSUME NEW q \in Request, NEW n \in Nat, NEW m \in Nat, n <= m, NEW ev, NEW fv,
         ev \subseteq fv, FieldsOf(q, n, ev)
  PROVE  FieldsOf(q, m, fv)
  <1>1. q.old.pw \in Nat /\ q.mine.pw \in Nat
    BY RowFields DEF Request
  <1>2. PasswordOf(q, m)
    BY <1>1 DEF FieldsOf, PasswordOf
  <1>3. DeviceOf(q)
    BY DEF FieldsOf, DeviceOf
  <1> QED
    BY <1>2, <1>3 DEF FieldsOf

\* A step that writes no row.
LEMMA Moves ==
  ASSUME Inv, NEW w \in Workers, NEW q \in Request \cup {Idle}, Becomes(w, q),
         UNCHANGED row, devices' \subseteq Device, IsFiniteSet(devices'),
         inbox' \in [Users -> Mail \cup {NoMail}], temps' \in Nat, started' \in Nat,
         events' \subseteq Events, temps <= temps', events \subseteq events',
         \A v \in Workers \ {w} : (Busy(v) /\ At(v, "commit")) =>
           inbox'[req[v].user] = inbox[req[v].user],
         q # Idle => /\ q.locked => Alone(w, q.user)
                     /\ FieldsOf(q, temps', events')
                     /\ StateOf(q, row, inbox', events')
  PROVE  Inv'
  <1>1. TypeInv'
    BY Typed DEF Inv, TypeInv, TypeOK
  <1>2. FieldsInv'
    <2> SUFFICES ASSUME NEW v \in Workers, Busy(v)'
                 PROVE  FieldsOf(req'[v], temps', events')
      BY DEF FieldsInv
    <2>1. CASE v = w
      BY <2>1, BecomesIs DEF Inv, Busy
    <2>2. CASE v # w
      <3>1. req'[v] = req[v] /\ Busy(v)
        BY <2>2, BecomesIs DEF Inv, Busy
      <3>2. req[v] \in Request /\ FieldsOf(req[v], temps, events)
        BY <3>1, RequestFields DEF Inv, FieldsInv
      <3>3. temps \in Nat
        BY DEF Inv, TypeInv, TypeOK
      <3> QED
        BY <3>1, <3>2, <3>3, FieldsLast
    <2> QED
      BY <2>1, <2>2
  <1>3. StateInv'
    <2> SUFFICES ASSUME NEW v \in Workers, Busy(v)'
                 PROVE  StateOf(req'[v], row', inbox', events')
      BY DEF StateInv
    <2>1. CASE v = w
      BY <2>1, BecomesIs DEF Inv, Busy
    <2>2. CASE v # w
      <3>1. req'[v] = req[v] /\ Busy(v)
        BY <2>2, BecomesIs DEF Inv, Busy
      <3>2. StateOf(req[v], row, inbox, events)
        BY <3>1 DEF Inv, StateInv
      <3>3. req[v].pc = "commit" => inbox'[req[v].user] = inbox[req[v].user]
        BY <2>2, <3>1 DEF At
      <3> QED
        BY <3>1, <3>2, <3>3 DEF StateOf
    <2> QED
      BY <2>1, <2>2
  <1>4. PasswordInv'
    <2>1. \A u \in Users : row[u].pw \in Nat
      BY RowFields DEF Inv, TypeInv, TypeOK
    <2> QED
      BY <2>1 DEF Inv, PasswordInv, TypeInv, TypeOK
  <1> QED
    BY <1>1, <1>2, <1>3, <1>4 DEF Inv

\* A commit.
LEMMA Writes ==
  ASSUME Inv, NEW w \in Workers, Busy(w), NEW q \in Request \cup {Idle}, Becomes(w, q),
         Alone(w, req[w].user), req[w].pc \in {"commit", "save"},
         row' = [row EXCEPT ![req[w].user] = Merged(w)],
         UNCHANGED <<devices, inbox, temps, started>>,
         events' \subseteq Events, events \subseteq events',
         row[req[w].user] = req[w].old \/ "stale" \in events',
         q # Idle => /\ ~q.locked /\ q.pc # "commit"
                     /\ q.user = req[w].user /\ q.old = req[w].old
                     /\ FieldsOf(q, temps, events)
  PROVE  Inv'
  <1> DEFINE u == req[w].user
  <1>1. /\ u \in Users /\ Merged(w) \in Row /\ req[w] \in Request
        /\ row \in [Users -> Row] /\ temps \in Nat
    BY RequestFields, MergedIs DEF Inv, TypeInv, TypeOK
  <1>2. /\ row' \in [Users -> Row] /\ row'[u] = Merged(w)
        /\ \A x \in Users \ {u} : row'[x] = row[x]
    BY <1>1
  <1>3. TypeInv'
    <2>1. q # Idle => (q.locked => Alone(w, q.user))
      OBVIOUS
    <2> QED
      BY <1>2, <2>1, Typed DEF Inv, TypeInv, TypeOK
  <1>4. FieldsInv'
    <2> SUFFICES ASSUME NEW v \in Workers, Busy(v)'
                 PROVE  FieldsOf(req'[v], temps', events')
      BY DEF FieldsInv
    <2>1. CASE v = w
      <3>1. req'[v] = q /\ q \in Request
        BY <2>1, BecomesIs DEF Inv, Busy
      <3> QED
        BY <1>1, <3>1, FieldsLast DEF Busy
    <2>2. CASE v # w
      <3>1. req'[v] = req[v] /\ Busy(v)
        BY <2>2, BecomesIs DEF Inv, Busy
      <3>2. req[v] \in Request /\ FieldsOf(req[v], temps, events)
        BY <3>1, RequestFields DEF Inv, FieldsInv
      <3> QED
        BY <1>1, <3>1, <3>2, FieldsLast
    <2> QED
      BY <2>1, <2>2
  <1>6. StateInv'
    <2> SUFFICES ASSUME NEW v \in Workers, Busy(v)'
                 PROVE  StateOf(req'[v], row', inbox', events')
      BY DEF StateInv
    <2>1. CASE v = w
      <3>1. req'[v] = q /\ q # Idle
        BY <2>1, BecomesIs DEF Inv, Busy
      <3> QED
        BY <3>1 DEF StateOf
    <2>2. CASE v # w
      <3>1. req'[v] = req[v] /\ Busy(v) /\ req[v].user \in Users
        BY <2>2, BecomesIs, RequestFields DEF Inv, Busy
      <3>2. StateOf(req[v], row, inbox, events)
        BY <3>1 DEF Inv, StateInv
      <3>3. req[v].locked => row'[req[v].user] = req[v].old \/ "stale" \in events'
        <4>1. req[v].locked => req[v].user # u
          BY <2>2, <3>1 DEF Alone
        <4> QED
          BY <1>2, <3>1, <3>2, <4>1 DEF StateOf
      <3>4. req[v].pc = "commit" => inbox'[req[v].user].pw = req[v].mine.pw \/ "fault" \in events'
        BY <3>2 DEF StateOf
      <3> QED
        BY <3>1, <3>3, <3>4 DEF StateOf
    <2> QED
      BY <2>1, <2>2
  <1>7. PasswordInv'
    <2>1. PasswordOf(req[w], temps)
      BY DEF Inv, FieldsInv, FieldsOf
    <2>2. Merged(w).pw = IF req[w].mine.pw # req[w].old.pw THEN req[w].mine.pw ELSE row[u].pw
      BY MergedIs DEF Inv
    <2>3. row[u].pw <= temps
      BY <1>1 DEF Inv, PasswordInv
    <2>4. Merged(w).pw <= temps
      BY <1>1, <2>1, <2>2, <2>3 DEF PasswordOf, Sending, Saving, Own
    <2> QED
      BY <1>2, <2>4 DEF Inv, PasswordInv
  <1> QED
    BY <1>3, <1>4, <1>6, <1>7 DEF Inv

-----------------------------------------------------------------------------
(* Requests start *)

\* A request starts with what it reads.
LEMMA StartKeeps ==
  ASSUME Inv, NEW w \in Workers, NEW q \in Request, Start(w, q),
         ~q.locked, q.pc # "commit", q.old = row[q.user], FieldsOf(q, temps, events)
  PROVE  Inv'
  <1>1. started' \in Nat
    <2>1. IsFiniteSet(q.rest)
      BY UserVpnAssumption, FS_Subset DEF Request
    <2>2. Cardinality(q.rest) \in Nat
      BY <2>1, FS_CardinalityType
    <2> QED
      BY <2>2 DEF Start, Inv, TypeInv, TypeOK
  <1>2. StateOf(q, row, inbox, events)
    BY DEF StateOf
  <1>3. /\ Becomes(w, q) /\ UNCHANGED <<row, devices, inbox, temps, events>>
        /\ TypeOK /\ IsFiniteSet(devices)
    BY DEF Start, Inv, TypeInv
  <1>4. temps \in Nat /\ temps <= temps
    BY <1>3 DEF TypeOK
  <1> QED
    BY <1>1, <1>2, <1>3, <1>4, Moves DEF TypeOK

\* What has only been read is sound.
LEMMA ReadingIsSound ==
  ASSUME Inv, NEW u \in Users, NEW q \in Request, NEW ev, q.old = row[u], q.mine = row[u],
         q.pc \notin Sending, q.pc # "next",
         q.pc = "create" => row[u].vpn = NoDevice,
         q.pc = "detach" => q.then \in {"create", "save"},
         (q.job /\ row[u].sent) => "welcomed" \in ev
  PROVE  FieldsOf(q, temps, ev)
  <1>1. row[u].pw <= temps
    BY DEF Inv, PasswordInv
  <1>2. PasswordOf(q, temps)
    BY <1>1 DEF PasswordOf
  <1>3. DeviceOf(q)
    BY DEF DeviceOf, Sending
  <1> QED
    BY <1>2, <1>3 DEF FieldsOf

LEMMA StartOnboardKeeps ==
  ASSUME Inv, NEW w \in Workers, NEW u \in Users, StartOnboard(w, u)
  PROVE  Inv'
  <1> DEFINE q == Reading(u, "password")
  <1>1. /\ q \in Request /\ q.pc = "password" /\ q.user = u /\ q.old = row[u]
        /\ q.mine = row[u] /\ ~q.locked /\ ~q.job
    BY ReadingFields DEF Inv, Pcs
  <1>2. Start(w, q)
    BY DEF StartOnboard
  <1> HIDE DEF q
  <1>3. FieldsOf(q, temps, events)
    BY <1>1, ReadingIsSound DEF Sending
  <1> QED
    BY <1>1, <1>2, <1>3, StartKeeps

LEMMA StartJobKeeps ==
  ASSUME Inv, NEW w \in Workers, StartJob(w)
  PROVE  Inv'
  <1> DEFINE u == Least(Pending)
             q == JobReading(u, Pending \ {u})
  <1>1. u \in Pending /\ Pending \subseteq Users
    BY LeastIsIn DEF StartJob, Pending
  <1>2. u \in Users /\ ~row[u].sent
    BY <1>1 DEF Pending
  <1>3. Start(w, q)
    BY DEF StartJob
  <1> HIDE DEF u
  <1>4. /\ q \in Request /\ q.pc = "password" /\ q.user = u /\ q.old = row[u]
        /\ q.mine = row[u] /\ ~q.locked
    BY <1>1, <1>2, JobReadingFields DEF Inv
  <1> HIDE DEF q
  <1>5. FieldsOf(q, temps, events)
    BY <1>2, <1>4, ReadingIsSound DEF Sending
  <1> QED
    BY <1>3, <1>4, <1>5, StartKeeps

\* A request that is to give up the device, when there is one.
LEMMA DetachingFields ==
  ASSUME Inv, NEW u \in Users, NEW then \in {"create", "save"}
  PROVE  /\ Detaching(u, then) \in Request
         /\ Detaching(u, then).pc = IF row[u].vpn = NoDevice THEN then ELSE "detach"
         /\ Detaching(u, then).user = u /\ Detaching(u, then).old = row[u]
         /\ Detaching(u, then).mine = row[u] /\ ~Detaching(u, then).locked
         /\ ~Detaching(u, then).job /\ Detaching(u, then).then = then
  <1> DEFINE pc == IF row[u].vpn = NoDevice THEN then ELSE "detach"
             q == Reading(u, pc)
  <1>1. pc \in Pcs /\ then \in Pcs
    BY DEF Pcs
  <1> HIDE DEF pc
  <1>2. /\ q \in Request /\ q.pc = pc /\ q.user = u /\ q.old = row[u]
        /\ q.mine = row[u] /\ ~q.locked /\ ~q.job
    BY <1>1, ReadingFields DEF Inv
  <1>3. Detaching(u, then) = [q EXCEPT !.then = then]
    BY DEF Detaching, pc
  <1> HIDE DEF q
  <1> QED
    BY <1>1, <1>2, <1>3 DEF Request, pc

LEMMA StartDetachingKeeps ==
  ASSUME Inv, NEW w \in Workers, NEW u \in Users,
         StartGenerate(w, u) \/ StartRevoke(w, u)
  PROVE  Inv'
  <1>1. PICK then \in {"create", "save"} : Start(w, Detaching(u, then))
    BY DEF StartGenerate, StartRevoke
  <1> DEFINE q == Detaching(u, then)
  <1>2. /\ q \in Request /\ q.user = u /\ q.old = row[u] /\ q.mine = row[u] /\ ~q.locked
        /\ ~q.job /\ q.then = then
        /\ q.pc = IF row[u].vpn = NoDevice THEN then ELSE "detach"
    BY DetachingFields
  <1> HIDE DEF q
  <1>3. FieldsOf(q, temps, events)
    BY <1>2, ReadingIsSound DEF Sending
  <1> QED
    BY <1>1, <1>2, <1>3, StartKeeps DEF q

LEMMA StartDeactivateKeeps ==
  ASSUME Inv, NEW w \in Workers, NEW u \in Users, StartDeactivate(w, u)
  PROVE  Inv'
  <1> DEFINE d == Detaching(u, "save")
             m == [row[u] EXCEPT !.active = FALSE]
             q == [d EXCEPT !.mine = m]
  <1>1. /\ d \in Request /\ d.user = u /\ d.old = row[u] /\ d.mine = row[u] /\ ~d.locked
        /\ ~d.job /\ d.then = "save" /\ d.pc \in {"detach", "save"}
    BY DetachingFields
  <1>2. row[u] \in Row /\ row[u].pw \in Nat /\ row[u].pw <= temps
    BY RowFields DEF Inv, TypeInv, TypeOK, PasswordInv
  <1>3. /\ m \in Row /\ m.pw = row[u].pw /\ m.vpn = row[u].vpn /\ m.must = row[u].must
    BY <1>2 DEF Row
  <1>4. Start(w, q)
    <2>1. q = [d EXCEPT !.mine.active = FALSE]
      <3> HIDE DEF d
      <3> QED
        BY <1>1 DEF Request
    <2> HIDE DEF q
    <2> QED
      BY <2>1 DEF StartDeactivate
  <1> HIDE DEF d, m
  <1>5. /\ q \in Request /\ q.user = u /\ q.old = row[u] /\ q.mine = m /\ ~q.locked
        /\ ~q.job /\ q.then = "save" /\ q.pc \in {"detach", "save"}
    BY <1>1, <1>3 DEF Request
  <1> HIDE DEF q
  <1>6. FieldsOf(q, temps, events)
    <2>1. PasswordOf(q, temps)
      BY <1>2, <1>3, <1>5 DEF PasswordOf, Sending
    <2>2. DeviceOf(q)
      BY <1>3, <1>5 DEF DeviceOf
    <2> QED
      BY <1>5, <2>1, <2>2 DEF FieldsOf
  <1> QED
    BY <1>4, <1>5, <1>6, StartKeeps

LEMMA StartActivateKeeps ==
  ASSUME Inv, NEW w \in Workers, NEW u \in Users, StartActivate(w, u)
  PROVE  Inv'
  <1> DEFINE d == Reading(u, "save")
             m == [row[u] EXCEPT !.active = TRUE]
             q == [d EXCEPT !.mine = m]
  <1>1. /\ d \in Request /\ d.user = u /\ d.old = row[u] /\ d.mine = row[u] /\ ~d.locked
        /\ ~d.job /\ d.pc = "save"
    BY ReadingFields DEF Pcs, Inv
  <1>2. row[u] \in Row /\ row[u].pw \in Nat /\ row[u].pw <= temps
    BY RowFields DEF Inv, TypeInv, TypeOK, PasswordInv
  <1>3. /\ m \in Row /\ m.pw = row[u].pw /\ m.vpn = row[u].vpn /\ m.must = row[u].must
    BY <1>2 DEF Row
  <1>4. Start(w, q)
    <2>1. q = [d EXCEPT !.mine.active = TRUE]
      <3> HIDE DEF d
      <3> QED
        BY <1>1 DEF Request
    <2> HIDE DEF q
    <2> QED
      BY <2>1 DEF StartActivate
  <1> HIDE DEF d, m
  <1>5. /\ q \in Request /\ q.user = u /\ q.old = row[u] /\ q.mine = m /\ ~q.locked
        /\ ~q.job /\ q.pc = "save"
    BY <1>1, <1>3 DEF Request
  <1> HIDE DEF q
  <1>6. FieldsOf(q, temps, events)
    <2>1. PasswordOf(q, temps)
      BY <1>2, <1>3, <1>5 DEF PasswordOf, Sending
    <2>2. DeviceOf(q)
      BY <1>3, <1>5 DEF DeviceOf
    <2> QED
      BY <1>5, <2>1, <2>2 DEF FieldsOf
  <1> QED
    BY <1>4, <1>5, <1>6, StartKeeps

LEMMA StartChangeKeeps ==
  ASSUME Inv, NEW w \in Workers, NEW u \in Users, StartChange(w, u)
  PROVE  Inv'
  <1> DEFINE d == Reading(u, "save")
             m == [row[u] EXCEPT !.pw = Own, !.must = FALSE]
             q == [d EXCEPT !.mine = m]
  <1>1. /\ d \in Request /\ d.user = u /\ d.old = row[u] /\ d.mine = row[u] /\ ~d.locked
        /\ ~d.job /\ d.pc = "save"
    BY ReadingFields DEF Pcs, Inv
  <1>2. row[u] \in Row /\ row[u].pw \in Nat /\ row[u].pw <= temps
    BY RowFields DEF Inv, TypeInv, TypeOK, PasswordInv
  <1>3. /\ m \in Row /\ m.pw = Own /\ m.vpn = row[u].vpn /\ m.active = row[u].active
    BY <1>2 DEF Row, Own
  <1>4. Start(w, q) /\ row[u].pw # Own
    <2>1. q = [d EXCEPT !.mine.pw = Own, !.mine.must = FALSE]
      <3> HIDE DEF d
      <3> QED
        BY <1>1 DEF Request, Row
    <2> HIDE DEF q
    <2> QED
      BY <2>1 DEF StartChange
  <1> HIDE DEF d, m
  <1>5. /\ q \in Request /\ q.user = u /\ q.old = row[u] /\ q.mine = m /\ ~q.locked
        /\ ~q.job /\ q.pc = "save"
    BY <1>1, <1>3 DEF Request
  <1> HIDE DEF q
  <1>6. FieldsOf(q, temps, events)
    <2>1. PasswordOf(q, temps)
      BY <1>2, <1>3, <1>4, <1>5 DEF PasswordOf, Sending
    <2>2. DeviceOf(q)
      BY <1>3, <1>5 DEF DeviceOf
    <2> QED
      BY <1>5, <2>1, <2>2 DEF FieldsOf
  <1> QED
    BY <1>4, <1>5, <1>6, StartKeeps

-----------------------------------------------------------------------------
(* Requests go on *)

\* Of a request that stays with its reading and its lock, the reading's claims stay.
LEMMA StateLasts ==
  ASSUME Inv, NEW w \in Workers, Busy(w), NEW q \in Request, NEW box, NEW ev,
         events \subseteq ev, q.user = req[w].user, q.old = req[w].old,
         q.locked => req[w].locked,
         q.pc = "commit" => box[q.user].pw = q.mine.pw \/ "fault" \in ev
  PROVE  StateOf(q, row, box, ev)
  BY DEF Inv, StateInv, StateOf

\* An onboarding past its first UPDATE may only name a device where there was none.
LEMMA SendingLasts ==
  ASSUME Inv, NEW w \in Workers, Busy(w), req[w].pc \in Sending, NEW q \in Request,
         NEW ev, events \subseteq ev, q.pc \in Sending \ {"provision"},
         q.old = req[w].old, q.locked, q.job <=> req[w].job,
         q.mine.pw = req[w].mine.pw, q.mine.must, q.mine.active = req[w].mine.active,
         q.mine.vpn = req[w].mine.vpn \/ req[w].mine.vpn = NoDevice
  PROVE  FieldsOf(q, temps, ev)
  <1>1. FieldsOf(req[w], temps, events)
    BY DEF Inv, FieldsInv
  <1>2. PasswordOf(q, temps)
    BY <1>1 DEF FieldsOf, PasswordOf, Sending, Saving
  <1>3. DeviceOf(q)
    BY <1>1 DEF FieldsOf, DeviceOf, Sending
  <1> QED
    BY <1>1, <1>2, <1>3 DEF FieldsOf, Sending

\* A new device.
LEMMA NewDeviceIs ==
  ASSUME TypeInv, NEW w \in Workers, Busy(w)
  PROVE  /\ NewDevice(w) \in Device /\ NewDevice(w).user = req[w].user
         /\ NewDevice(w).id \in Nat \ {0}
         /\ devices \cup {NewDevice(w)} \subseteq Device
         /\ IsFiniteSet(devices \cup {NewDevice(w)})
  <1>1. Cardinality(devices) \in Nat /\ req[w].user \in Users
    BY FS_CardinalityType, RequestFields DEF TypeInv
  <1>2. /\ NewDevice(w) \in Device /\ NewDevice(w).user = req[w].user
        /\ NewDevice(w).id \in Nat \ {0}
    BY <1>1 DEF NewDevice, DeviceFor, Device
  <1>3. IsFiniteSet(devices \cup {NewDevice(w)})
    BY FS_AddElement DEF TypeInv
  <1> QED
    BY <1>2, <1>3 DEF TypeInv, TypeOK

\* A superadmin's device.
LEMMA ByAdminKeeps ==
  ASSUME Inv, CreateByAdmin
  PROVE  Inv'
  <1>1. Cardinality(devices) \in Nat /\ started \in Nat
    BY FS_CardinalityType DEF Inv, TypeInv, TypeOK
  <1>2. DeviceFor(Nobody) \in Device
    BY <1>1 DEF DeviceFor, Device
  <1>3. devices' \subseteq Device /\ IsFiniteSet(devices') /\ started' \in Nat
    BY <1>1, <1>2, FS_AddElement DEF CreateByAdmin, Inv, TypeInv, TypeOK
  <1>4. UNCHANGED <<row, inbox, req, temps, events>>
    BY DEF CreateByAdmin
  <1>5. TypeInv'
    BY <1>3, <1>4 DEF Inv, TypeInv, TypeOK, Busy
  <1>6. FieldsInv' /\ StateInv' /\ PasswordInv'
    BY <1>4 DEF Inv, FieldsInv, StateInv, PasswordInv, Busy
  <1> QED
    BY <1>5, <1>6 DEF Inv

\* What the invariant says of one request, and of the state's types.
LEMMA InvOf ==
  ASSUME Inv, NEW w \in Workers, Busy(w)
  PROVE  /\ TypeInv /\ TypeOK /\ IsFiniteSet(devices) /\ temps \in Nat /\ started \in Nat
         /\ events \subseteq Events /\ devices \subseteq Device
         /\ inbox \in [Users -> Mail \cup {NoMail}] /\ row \in [Users -> Row]
         /\ req[w] \in Request /\ req[w].user \in Users
         /\ FieldsOf(req[w], temps, events) /\ StateOf(req[w], row, inbox, events)
         /\ row[req[w].user].pw <= temps
  BY RequestFields DEF Inv, TypeInv, TypeOK, FieldsInv, StateInv, PasswordInv

LEMMA EventsGrow ==
  ASSUME TypeOK, NEW new \in SUBSET Events, Note(new)
  PROVE  events' \subseteq Events /\ events \subseteq events' /\ new \subseteq events'
  BY DEF Note, TypeOK

LEMMA FaultIsNoted ==
  ASSUME TypeOK, Fault
  PROVE  events' \subseteq Events /\ events \subseteq events' /\ "fault" \in events'
  BY EventsGrow DEF Fault, Events

LEMMA StalenessIsNoted ==
  ASSUME TypeOK, NEW w, Note(Staleness(w))
  PROVE  /\ events' \subseteq Events /\ events \subseteq events'
         /\ row[req[w].user] = req[w].old \/ "stale" \in events'
  BY DEF Staleness, Note, Events, TypeOK

\* A request that is given up.
LEMMA GivesUp ==
  ASSUME Inv, NEW w \in Workers, Busy(w), Becomes(w, Idle), UNCHANGED <<row, inbox>>,
         devices' \subseteq Device, IsFiniteSet(devices'),
         UNCHANGED <<temps, started>>, events' \subseteq Events, events \subseteq events'
  PROVE  Inv'
  <1>1. /\ inbox' \in [Users -> Mail \cup {NoMail}] /\ temps' \in Nat /\ started' \in Nat
        /\ temps <= temps'
    BY InvOf
  <1> QED
    BY <1>1, Moves

LEMMA CrashKeeps ==
  ASSUME Inv, NEW w \in Workers, Crash(w)
  PROVE  Inv'
  <1>1. Busy(w) /\ Becomes(w, Idle) /\ UNCHANGED <<row, devices, inbox, temps, started>> /\ Fault
    BY DEF Crash
  <1> QED
    BY <1>1, InvOf, FaultIsNoted, GivesUp

LEMMA OnboardPasswordKeeps ==
  ASSUME Inv, NEW w \in Workers, OnboardPassword(w)
  PROVE  Inv'
  <1>1. Busy(w) /\ req[w].pc = "password"
    BY BusyAt DEF OnboardPassword, Pcs
  <1>2. /\ TypeOK /\ temps \in Nat /\ started \in Nat /\ devices \subseteq Device
        /\ IsFiniteSet(devices) /\ inbox \in [Users -> Mail \cup {NoMail}]
        /\ req[w] \in Request /\ req[w].user \in Users /\ FieldsOf(req[w], temps, events)
        /\ req[w].mine = req[w].old /\ req[w].old \in Row /\ req[w].old.pw <= temps
    BY <1>1, InvOf, RequestFields DEF FieldsOf, PasswordOf
  <1> DEFINE m == Reset(w)
             pc == IF req[w].mine.vpn = NoDevice THEN "provision" ELSE "mail"
             q == [req[w] EXCEPT !.locked = TRUE, !.mine = m, !.pc = pc]
  <1>3. /\ m \in Row /\ m.pw = temps + 1 /\ m.must /\ m.vpn = req[w].old.vpn
        /\ m.active = req[w].old.active
    <2> DEFINE n == temps + 1
               o == req[w].old
    <2>1. n \in Nat /\ o \in Row /\ m = [o EXCEPT !.pw = n, !.must = TRUE]
      BY <1>2 DEF Reset
    <2> HIDE DEF n, o, m
    <2>2. m \in Row /\ m.pw = n /\ m.must /\ m.vpn = o.vpn /\ m.active = o.active
      BY <2>1 DEF Row
    <2> QED
      BY <2>2 DEF n, o
  <1>4. pc \in Pcs /\ pc \in {"provision", "mail"} /\ (pc = "provision" => m.vpn = NoDevice)
    BY <1>2, <1>3 DEF Pcs
  <1>5. /\ Becomes(w, q) /\ Note(Staleness(w)) /\ temps' = temps + 1
        /\ UNCHANGED <<row, devices, inbox, started>>
        /\ Alone(w, req[w].user)
    BY UnblockedIsAlone DEF OnboardPassword
  <1> HIDE DEF m, pc
  <1>6. /\ q \in Request /\ q.locked /\ q.mine = m /\ q.pc = pc /\ q.old = req[w].old
        /\ q.user = req[w].user /\ q.job = req[w].job
    BY <1>2, <1>3, <1>4 DEF Request
  <1> HIDE DEF q
  <1>7. /\ events' \subseteq Events /\ events \subseteq events'
        /\ row[req[w].user] = req[w].old \/ "stale" \in events'
    BY <1>2, <1>5, StalenessIsNoted
  <1>8. FieldsOf(q, temps', events')
    <2>1. PasswordOf(q, temps')
      BY <1>2, <1>3, <1>4, <1>5, <1>6, RowFields DEF PasswordOf, Saving
    <2>2. DeviceOf(q)
      BY <1>3, <1>4, <1>6 DEF DeviceOf
    <2> QED
      BY <1>2, <1>4, <1>6, <1>7, <2>1, <2>2 DEF FieldsOf
  <1>9. StateOf(q, row, inbox', events')
    <2>1. StateOf(req[w], row, inbox, events)
      BY <1>1, InvOf
    <2> QED
      BY <1>4, <1>6, <1>7, <2>1 DEF StateOf
  <1>10. temps' \in Nat /\ temps <= temps'
    BY <1>2, <1>5
  <1> QED
    BY <1>2, <1>5, <1>6, <1>7, <1>8, <1>9, <1>10, Moves

\* An onboarding that goes on without writing a mail.
LEMMA SendingMoves ==
  ASSUME Inv, NEW w \in Workers, Busy(w), req[w].pc \in Sending, NEW q \in Request,
         Becomes(w, q), UNCHANGED <<row, inbox, temps, started>>,
         devices' \subseteq Device, IsFiniteSet(devices'),
         events' \subseteq Events, events \subseteq events',
         q.pc \in {"config", "mail"}, q.user = req[w].user,
         q.old = req[w].old, q.locked = req[w].locked, q.job = req[w].job,
         q.mine.pw = req[w].mine.pw, q.mine.must = req[w].mine.must,
         q.mine.active = req[w].mine.active,
         q.mine.vpn = req[w].mine.vpn \/ req[w].mine.vpn = NoDevice
  PROVE  Inv'
  <1>1. req[w].locked /\ req[w].mine.must
    BY InvOf DEF FieldsOf, PasswordOf
  <1>2. FieldsOf(q, temps, events')
    BY <1>1, SendingLasts DEF Sending
  <1>3. StateOf(q, row, inbox', events')
    BY StateLasts
  <1>4. Alone(w, q.user)
    BY <1>1, LockedIsAlone, InvOf
  <1>5. /\ inbox' \in [Users -> Mail \cup {NoMail}] /\ temps' \in Nat /\ started' \in Nat
        /\ temps <= temps'
    BY InvOf
  <1> QED
    BY <1>2, <1>3, <1>4, <1>5, Moves

LEMMA GotoIs ==
  ASSUME TypeInv, NEW w \in Workers, Busy(w), NEW pc \in Pcs, Goto(w, pc)
  PROVE  \E q \in Request :
           /\ Becomes(w, q) /\ q.pc = pc /\ q.user = req[w].user /\ q.old = req[w].old
           /\ q.mine = req[w].mine /\ q.locked = req[w].locked /\ q.job = req[w].job
  <1> DEFINE q == [req[w] EXCEPT !.pc = pc]
  <1>1. /\ q \in Request /\ q.pc = pc /\ q.user = req[w].user /\ q.old = req[w].old
        /\ q.mine = req[w].mine /\ q.locked = req[w].locked /\ q.job = req[w].job
    BY RequestFields DEF Request
  <1>2. Becomes(w, q)
    BY DEF Goto
  <1> QED
    BY <1>1, <1>2

\* An onboarding or a creation names a device.
Names(w, pc, id) == Becomes(w, [req[w] EXCEPT !.pc = pc, !.mine.vpn = id])

LEMMA NamedIs ==
  ASSUME TypeInv, NEW w \in Workers, Busy(w), NEW pc \in Pcs, NEW id \in Nat,
         Names(w, pc, id)
  PROVE  \E q \in Request :
           /\ Becomes(w, q) /\ q.pc = pc /\ q.user = req[w].user /\ q.old = req[w].old
           /\ q.locked = req[w].locked /\ q.job = req[w].job /\ q.mine.vpn = id
           /\ q.mine.pw = req[w].mine.pw /\ q.mine.must = req[w].mine.must
           /\ q.mine.active = req[w].mine.active
  <1> DEFINE m == [req[w].mine EXCEPT !.vpn = id]
             q == [req[w] EXCEPT !.pc = pc, !.mine = m]
  <1>0. /\ req[w] \in Request /\ Becomes(w, q)
        /\ m \in Row /\ m.vpn = id /\ m.pw = req[w].mine.pw
        /\ m.must = req[w].mine.must /\ m.active = req[w].mine.active
    <2>1. req[w] \in Request /\ req[w].mine \in Row
      BY RequestFields
    <2>2. q = [req[w] EXCEPT !.pc = pc, !.mine.vpn = id]
      BY <2>1 DEF Request
    <2>3. Becomes(w, q)
      BY <2>2 DEF Names
    <2> QED
      BY <2>1, <2>3 DEF Row
  <1> HIDE DEF m
  <1>1. /\ q \in Request /\ q.pc = pc /\ q.user = req[w].user /\ q.old = req[w].old
        /\ q.locked = req[w].locked /\ q.job = req[w].job /\ q.mine.vpn = id
        /\ q.mine.pw = req[w].mine.pw /\ q.mine.must = req[w].mine.must
        /\ q.mine.active = req[w].mine.active
    BY <1>0 DEF Request
  <1> QED
    BY <1>0, <1>1

LEMMA ProvisionKeeps ==
  ASSUME Inv, NEW w \in Workers, Provision(w)
  PROVE  Inv'
  <1>1. Busy(w) /\ req[w].pc = "provision"
    BY BusyAt DEF Provision, Pcs
  <1>2. /\ TypeInv /\ TypeOK /\ events \subseteq Events /\ devices \subseteq Device
        /\ IsFiniteSet(devices) /\ req[w].mine.vpn = NoDevice
        /\ req[w].pc \in Sending /\ UNCHANGED <<row, inbox, temps, started>>
    BY <1>1, InvOf DEF FieldsOf, DeviceOf, Sending, Provision
  <1>3. CASE /\ devices' = devices \cup {NewDevice(w)}
             /\ Becomes(w, [req[w] EXCEPT !.pc = "config", !.mine.vpn = NewDevice(w).id])
             /\ UNCHANGED events
    <2>1. PICK q \in Request :
            /\ Becomes(w, q) /\ q.pc = "config" /\ q.user = req[w].user /\ q.old = req[w].old
            /\ q.locked = req[w].locked /\ q.job = req[w].job
            /\ q.mine.pw = req[w].mine.pw /\ q.mine.must = req[w].mine.must
            /\ q.mine.active = req[w].mine.active
      <3> DEFINE id == NewDevice(w).id
      <3>1. /\ "config" \in Pcs /\ id \in Nat
            /\ Names(w, "config", id)
        BY <1>1, <1>2, <1>3, NewDeviceIs DEF Pcs, Names
      <3> HIDE DEF id
      <3> QED
        BY <1>1, <1>2, <3>1, NamedIs
    <2>2. devices' \subseteq Device /\ IsFiniteSet(devices')
      BY <1>1, <1>2, <1>3, NewDeviceIs
    <2> QED
      BY <1>1, <1>2, <1>3, <2>1, <2>2, SendingMoves
  <1>4. CASE CreateFails(w) /\ Goto(w, "mail")
    <2>1. PICK q \in Request :
            /\ Becomes(w, q) /\ q.pc = "mail" /\ q.user = req[w].user /\ q.old = req[w].old
            /\ q.mine = req[w].mine /\ q.locked = req[w].locked /\ q.job = req[w].job
      BY <1>1, <1>2, <1>4, GotoIs DEF Pcs
    <2>2. /\ devices' \subseteq Device /\ IsFiniteSet(devices')
          /\ events' \subseteq Events /\ events \subseteq events'
      BY <1>1, <1>2, <1>4, NewDeviceIs, FaultIsNoted DEF CreateFails
    <2> QED
      BY <1>1, <1>2, <2>1, <2>2, SendingMoves
  <1> QED
    BY <1>3, <1>4 DEF Provision

LEMMA FetchConfigKeeps ==
  ASSUME Inv, NEW w \in Workers, FetchConfig(w)
  PROVE  Inv'
  <1>1. Busy(w) /\ req[w].pc = "config"
    BY BusyAt DEF FetchConfig, Pcs
  <1>2. /\ TypeInv /\ TypeOK /\ events \subseteq Events /\ devices' \subseteq Device
        /\ IsFiniteSet(devices') /\ req[w] \in Request /\ req[w].mine \in Row
        /\ req[w].pc \in Sending /\ UNCHANGED <<row, inbox, temps, started>>
    BY <1>1, InvOf, RequestFields DEF Sending, FetchConfig
  <1>3. /\ events' \subseteq Events /\ events \subseteq events'
        /\ \E q \in Request :
             /\ Becomes(w, q) /\ q.pc = "mail" /\ q.user = req[w].user /\ q.old = req[w].old
             /\ q.mine = req[w].mine /\ q.locked = req[w].locked /\ q.job = req[w].job
    <2>1. CASE /\ Becomes(w, [req[w] EXCEPT !.pc = "mail", !.config = req[w].mine.vpn])
               /\ UNCHANGED events
      <3> DEFINE id == req[w].mine.vpn
                 q == [req[w] EXCEPT !.pc = "mail", !.config = id]
      <3>1. Becomes(w, q) /\ id \in Nat
        BY <1>2, <2>1, RowFields
      <3> HIDE DEF id
      <3>2. /\ q \in Request /\ q.pc = "mail" /\ q.user = req[w].user /\ q.old = req[w].old
            /\ q.mine = req[w].mine /\ q.locked = req[w].locked /\ q.job = req[w].job
        BY <1>2, <3>1 DEF Request, Pcs
      <3> QED
        BY <1>2, <2>1, <3>1, <3>2
    <2>2. CASE Fault /\ Goto(w, "mail")
      BY <1>1, <1>2, <2>2, GotoIs, FaultIsNoted DEF Pcs
    <2> QED
      BY <2>1, <2>2 DEF FetchConfig
  <1> QED
    BY <1>1, <1>2, <1>3, SendingMoves

\* The mail carries the password that is being set: nobody else has a mail for this
\* user on the way to its commit.
LEMMA SendMailKeeps ==
  ASSUME Inv, NEW w \in Workers, SendMail(w)
  PROVE  Inv'
  <1>1. Busy(w) /\ req[w].pc = "mail"
    BY BusyAt DEF SendMail, Pcs
  <1> DEFINE u == req[w].user
             box == [inbox EXCEPT ![u] = WelcomeMail(w)]
  <1>2. /\ TypeInv /\ TypeOK /\ events \subseteq Events /\ devices' \subseteq Device
        /\ IsFiniteSet(devices') /\ req[w] \in Request /\ req[w].mine \in Row /\ u \in Users
        /\ req[w].pc \in Sending /\ UNCHANGED <<row, devices, temps, started>>
        /\ temps \in Nat /\ started \in Nat /\ inbox \in [Users -> Mail \cup {NoMail}]
        /\ FieldsOf(req[w], temps, events) /\ Alone(w, u) /\ req[w].locked /\ req[w].mine.must
        /\ req[w].mine.pw > req[w].old.pw /\ req[w].old \in Row
    BY <1>1, InvOf, RequestFields, LockedIsAlone DEF Sending, SendMail, FieldsOf, PasswordOf
  <1>3. WelcomeMail(w) \in Mail /\ WelcomeMail(w).pw = req[w].mine.pw
    <2>1. req[w].mine.pw \in Nat \ {0} /\ req[w].config \in Nat
      BY <1>1, <1>2, RowFields, RequestFields
    <2> QED
      BY <2>1 DEF WelcomeMail, Mail
  <1>4. /\ box \in [Users -> Mail \cup {NoMail}] /\ box[u].pw = req[w].mine.pw
        /\ \A x \in Users \ {u} : box[x] = inbox[x]
    BY <1>2, <1>3
  <1>5. inbox' \in {inbox, box}
    BY DEF SendMail
  <1>6. /\ events' \subseteq Events /\ events \subseteq events'
        /\ inbox' = box \/ "fault" \in events'
        /\ \E q \in Request :
             /\ Becomes(w, q) /\ q.pc = "commit" /\ q.user = u /\ q.old = req[w].old
             /\ q.mine.pw = req[w].mine.pw /\ q.mine.must = req[w].mine.must
             /\ q.mine.vpn = req[w].mine.vpn /\ q.mine.active = req[w].mine.active
             /\ q.locked = req[w].locked /\ q.job = req[w].job
    <2>1. CASE /\ inbox' = box
               /\ Becomes(w, [req[w] EXCEPT !.pc = "commit", !.mine.sent = TRUE])
               /\ UNCHANGED events
      <3> DEFINE m == [req[w].mine EXCEPT !.sent = TRUE]
                 q == [req[w] EXCEPT !.pc = "commit", !.mine = m]
      <3>1. q = [req[w] EXCEPT !.pc = "commit", !.mine.sent = TRUE]
        BY <1>2 DEF Request
      <3>2. Becomes(w, q)
        BY <2>1, <3>1
      <3>3. /\ m \in Row /\ m.pw = req[w].mine.pw /\ m.must = req[w].mine.must
            /\ m.vpn = req[w].mine.vpn /\ m.active = req[w].mine.active
        BY <1>2 DEF Row
      <3> HIDE DEF m
      <3>4. /\ q \in Request /\ q.pc = "commit" /\ q.user = u /\ q.old = req[w].old
            /\ q.mine = m /\ q.locked = req[w].locked /\ q.job = req[w].job
        BY <1>2, <3>3 DEF Request, Pcs
      <3> HIDE DEF q
      <3> QED
        BY <1>2, <2>1, <3>2, <3>3, <3>4
    <2>2. CASE Fault /\ inbox' \in {inbox, box} /\ Goto(w, "commit")
      <3>1. PICK q \in Request :
              /\ Becomes(w, q) /\ q.pc = "commit" /\ q.user = u /\ q.old = req[w].old
              /\ q.mine = req[w].mine /\ q.locked = req[w].locked /\ q.job = req[w].job
        BY <1>1, <1>2, <2>2, GotoIs DEF Pcs
      <3> QED
        BY <1>2, <2>2, <3>1, FaultIsNoted
    <2> QED
      BY <2>1, <2>2 DEF SendMail
  <1> HIDE DEF box
  <1>7. PICK q \in Request :
          /\ Becomes(w, q) /\ q.pc = "commit" /\ q.user = u /\ q.old = req[w].old
          /\ q.mine.pw = req[w].mine.pw /\ q.mine.must = req[w].mine.must
          /\ q.mine.vpn = req[w].mine.vpn /\ q.mine.active = req[w].mine.active
          /\ q.locked = req[w].locked /\ q.job = req[w].job
    BY <1>6
  <1>8. FieldsOf(q, temps, events')
    BY <1>1, <1>2, <1>6, <1>7, SendingLasts DEF Sending
  <1>9. StateOf(q, row, inbox', events')
    <2>1. inbox'[q.user].pw = q.mine.pw \/ "fault" \in events'
      BY <1>4, <1>6, <1>7
    <2> QED
      BY <1>1, <1>6, <1>7, <2>1, StateLasts
  <1>10. ASSUME NEW v \in Workers \ {w}, Busy(v), At(v, "commit")
         PROVE  inbox'[req[v].user] = inbox[req[v].user]
    <2>1. req[v].locked /\ req[v].user \in Users
      BY <1>10, InvOf DEF FieldsOf, PasswordOf, Sending, At
    <2>2. req[v].user # u
      BY <1>2, <1>10, <2>1 DEF Alone
    <2> QED
      BY <1>4, <1>5, <2>1, <2>2
  <1>11. inbox' \in [Users -> Mail \cup {NoMail}] /\ temps' \in Nat /\ started' \in Nat /\ temps <= temps'
    BY <1>2, <1>4, <1>5
  <1> QED
    BY <1>2, <1>6, <1>7, <1>8, <1>9, <1>10, <1>11, Moves

\* What the job's way to its next user leaves of a request.
LEMMA EndedIs ==
  ASSUME Inv, NEW w \in Workers, Busy(w), req[w].pc = "commit"
  PROVE  /\ Ended(w) \in Request \cup {Idle}
         /\ Ended(w) # Idle =>
              /\ ~Ended(w).locked /\ Ended(w).pc = "next"
              /\ Ended(w).user = req[w].user /\ Ended(w).old = req[w].old
              /\ FieldsOf(Ended(w), temps, events)
  <1> DEFINE q == [req[w] EXCEPT !.pc = "next", !.locked = FALSE]
  <1>1. req[w] \in Request /\ FieldsOf(req[w], temps, events)
    BY InvOf
  <1>2. /\ q \in Request /\ ~q.locked /\ q.pc = "next" /\ q.user = req[w].user
        /\ q.old = req[w].old /\ q.mine = req[w].mine /\ q.job = req[w].job
        /\ q.rest = req[w].rest
    BY <1>1 DEF Request, Pcs
  <1>3. Ended(w) = IF req[w].rest = {} THEN Idle ELSE q
    BY DEF Ended
  <1> HIDE DEF q
  <1>4. ASSUME req[w].rest # {}
        PROVE  FieldsOf(q, temps, events)
    <2>1. PasswordOf(q, temps)
      BY <1>1, <1>2 DEF FieldsOf, PasswordOf, Sending, Saving
    <2>2. DeviceOf(q)
      BY <1>1, <1>2 DEF FieldsOf, DeviceOf, Sending
    <2> QED
      BY <1>1, <1>2, <1>4, <2>1, <2>2 DEF FieldsOf
  <1> QED
    BY <1>2, <1>3, <1>4

LEMMA OnboardCommitKeeps ==
  ASSUME Inv, NEW w \in Workers, OnboardCommit(w)
  PROVE  Inv'
  <1>1. Busy(w) /\ req[w].pc = "commit"
    BY BusyAt DEF OnboardCommit, Pcs
  <1> DEFINE q == Ended(w)
  <1>2. /\ TypeOK /\ IsFiniteSet(devices) /\ events \subseteq Events /\ devices \subseteq Device
        /\ temps \in Nat /\ started \in Nat /\ inbox \in [Users -> Mail \cup {NoMail}]
        /\ FieldsOf(req[w], temps, events) /\ StateOf(req[w], row, inbox, events)
        /\ req[w] \in Request
    BY <1>1, InvOf
  <1>3. /\ q \in Request \cup {Idle}
        /\ q # Idle => /\ ~q.locked /\ q.pc = "next" /\ q.user = req[w].user
                       /\ q.old = req[w].old /\ FieldsOf(q, temps, events)
    BY <1>1, EndedIs
  <1>4. /\ Becomes(w, q) /\ UNCHANGED <<devices, inbox, temps, started>>
        /\ Alone(w, req[w].user)
    BY UnblockedIsAlone DEF OnboardCommit
  <1> HIDE DEF q
  <1>5. CASE row' = [row EXCEPT ![req[w].user] = Merged(w)] /\ UNCHANGED events
    <2>1. row[req[w].user] = req[w].old \/ "stale" \in events
      BY <1>1, <1>2 DEF FieldsOf, PasswordOf, StateOf, Sending
    <2> QED
      BY <1>1, <1>2, <1>3, <1>4, <1>5, <2>1, Writes
  <1>6. CASE Fault /\ UNCHANGED row
    <2>1. events' \subseteq Events /\ events \subseteq events'
      BY <1>2, <1>6, FaultIsNoted
    <2>2. q # Idle => FieldsOf(q, temps', events') /\ StateOf(q, row, inbox', events')
      <3>1. SUFFICES ASSUME q # Idle
                     PROVE  FieldsOf(q, temps, events') /\ StateOf(q, row, inbox', events')
        BY <1>4
      <3>2. q \in Request /\ ~q.locked /\ q.pc = "next" /\ q.user = req[w].user /\ q.old = req[w].old
        BY <1>3, <3>1
      <3>3. FieldsOf(q, temps, events')
        BY <1>2, <1>3, <2>1, <3>1, <3>2, FieldsLast
      <3>4. StateOf(q, row, inbox', events')
        BY <1>1, <2>1, <3>2, StateLasts
      <3> QED
        BY <3>3, <3>4
    <2> QED
      BY <1>2, <1>3, <1>4, <1>6, <2>1, <2>2, Moves
  <1> QED
    BY <1>5, <1>6 DEF OnboardCommit

LEMMA SaveKeeps ==
  ASSUME Inv, NEW w \in Workers, Save(w)
  PROVE  Inv'
  <1>1. Busy(w) /\ req[w].pc = "save"
    BY BusyAt DEF Save, Pcs
  <1>2. /\ Becomes(w, Idle) /\ UNCHANGED <<devices, inbox, temps, started>>
        /\ Alone(w, req[w].user)
        /\ TypeOK /\ IsFiniteSet(devices) /\ events \subseteq Events /\ devices \subseteq Device
    BY <1>1, UnblockedIsAlone, InvOf DEF Save
  <1>3. CASE row' = [row EXCEPT ![req[w].user] = Merged(w)] /\ Note(Staleness(w))
    BY <1>1, <1>2, <1>3, StalenessIsNoted, Writes
  <1>4. CASE UNCHANGED <<row, events>>
    BY <1>1, <1>2, <1>4, GivesUp
  <1>5. CASE Fault /\ UNCHANGED row
    BY <1>1, <1>2, <1>5, FaultIsNoted, GivesUp
  <1> QED
    BY <1>3, <1>4, <1>5 DEF Save

LEMMA DetachKeeps ==
  ASSUME Inv, NEW w \in Workers, Detach(w)
  PROVE  Inv'
  <1>1. Busy(w) /\ req[w].pc = "detach"
    BY BusyAt DEF Detach, Pcs
  <1>2. /\ UNCHANGED <<row, devices, inbox, temps, started>>
        /\ TypeInv /\ TypeOK /\ IsFiniteSet(devices) /\ events \subseteq Events
        /\ devices \subseteq Device /\ temps \in Nat /\ started \in Nat
        /\ inbox \in [Users -> Mail \cup {NoMail}] /\ req[w] \in Request
        /\ FieldsOf(req[w], temps, events)
        /\ req[w].then \in {"create", "save"} /\ req[w].then \in Pcs
    BY <1>1, InvOf DEF Detach, FieldsOf, DeviceOf, Pcs
  <1>3. CASE /\ Becomes(w, [req[w] EXCEPT !.pc = req[w].then, !.mine.vpn = NoDevice])
             /\ UNCHANGED events
    <2> DEFINE then == req[w].then
    <2>1. PICK q \in Request :
            /\ Becomes(w, q) /\ q.pc = then /\ q.user = req[w].user /\ q.old = req[w].old
            /\ q.locked = req[w].locked /\ q.job = req[w].job /\ q.mine.vpn = NoDevice
            /\ q.mine.pw = req[w].mine.pw /\ q.mine.must = req[w].mine.must
            /\ q.mine.active = req[w].mine.active
      <3>1. then \in Pcs /\ NoDevice \in Nat
        BY <1>2 DEF NoDevice
      <3>2. Names(w, then, NoDevice)
        BY <1>3 DEF Names
      <3> HIDE DEF then
      <3> QED
        BY <1>1, <1>2, <3>1, <3>2, NamedIs
    <2>2. events' \subseteq Events /\ events \subseteq events'
      BY <1>2, <1>3
    <2>3. PasswordOf(q, temps)
      BY <1>1, <1>2, <2>1 DEF FieldsOf, PasswordOf, Sending, Saving
    <2>4. DeviceOf(q)
      BY <1>1, <1>2, <2>1, <2>2 DEF FieldsOf, DeviceOf, Sending
    <2>5. FieldsOf(q, temps, events')
      BY <1>2, <2>1, <2>2, <2>3, <2>4 DEF FieldsOf
    <2>6. StateOf(q, row, inbox', events')
      BY <1>1, <1>2, <2>1, <2>2, StateLasts
    <2>7. q.locked => Alone(w, q.user)
      BY <1>1, <1>2, <2>1, LockedIsAlone
    <2> QED
      BY <1>2, <2>1, <2>2, <2>5, <2>6, <2>7, Moves
  <1>4. CASE Fault /\ Becomes(w, Idle)
    BY <1>1, <1>2, <1>4, FaultIsNoted, GivesUp
  <1> QED
    BY <1>3, <1>4 DEF Detach

LEMMA CreateKeeps ==
  ASSUME Inv, NEW w \in Workers, Create(w)
  PROVE  Inv'
  <1>1. Busy(w) /\ req[w].pc = "create"
    BY BusyAt DEF Create, Pcs
  <1>2. /\ UNCHANGED <<row, inbox, temps, started>>
        /\ TypeInv /\ TypeOK /\ IsFiniteSet(devices) /\ events \subseteq Events
        /\ devices \subseteq Device /\ temps \in Nat /\ started \in Nat
        /\ inbox \in [Users -> Mail \cup {NoMail}] /\ req[w] \in Request
        /\ FieldsOf(req[w], temps, events)
    BY <1>1, InvOf DEF Create
  <1>3. CASE /\ devices' = devices \cup {NewDevice(w)}
             /\ Becomes(w, [req[w] EXCEPT !.pc = "save", !.mine.vpn = NewDevice(w).id])
             /\ UNCHANGED events
    <2>1. PICK q \in Request :
            /\ Becomes(w, q) /\ q.pc = "save" /\ q.user = req[w].user /\ q.old = req[w].old
            /\ q.locked = req[w].locked /\ q.job = req[w].job
            /\ q.mine.pw = req[w].mine.pw /\ q.mine.must = req[w].mine.must
            /\ q.mine.active = req[w].mine.active
      <3> DEFINE id == NewDevice(w).id
      <3>1. /\ "save" \in Pcs /\ id \in Nat
            /\ Names(w, "save", id)
        BY <1>1, <1>2, <1>3, NewDeviceIs DEF Pcs, Names
      <3> HIDE DEF id
      <3> QED
        BY <1>1, <1>2, <3>1, NamedIs
    <2>2. devices' \subseteq Device /\ IsFiniteSet(devices')
      BY <1>1, <1>2, <1>3, NewDeviceIs
    <2>3. PasswordOf(q, temps)
      BY <1>1, <1>2, <2>1 DEF FieldsOf, PasswordOf, Sending, Saving
    <2>4. DeviceOf(q)
      BY <1>1, <1>2, <2>1 DEF FieldsOf, DeviceOf, Sending
    <2>5. FieldsOf(q, temps, events)
      BY <1>2, <2>1, <2>3, <2>4 DEF FieldsOf
    <2>6. StateOf(q, row, inbox', events)
      BY <1>1, <1>2, <2>1, StateLasts
    <2>7. q.locked => Alone(w, q.user)
      BY <1>1, <1>2, <2>1, LockedIsAlone
    <2> QED
      BY <1>2, <1>3, <2>1, <2>2, <2>5, <2>6, <2>7, Moves
  <1>4. CASE CreateFails(w) /\ Becomes(w, Idle)
    <2>1. /\ devices' \subseteq Device /\ IsFiniteSet(devices')
          /\ events' \subseteq Events /\ events \subseteq events'
      BY <1>1, <1>2, <1>4, NewDeviceIs, FaultIsNoted DEF CreateFails
    <2> QED
      BY <1>1, <1>2, <1>4, <2>1, GivesUp
  <1> QED
    BY <1>3, <1>4 DEF Create

\* The job takes up the next user, or passes over one who has been deactivated.
LEMMA JobNextKeeps ==
  ASSUME Inv, NEW w \in Workers, JobNext(w)
  PROVE  Inv'
  <1>1. Busy(w) /\ req[w].pc = "next"
    BY BusyAt DEF JobNext, Pcs
  <1> DEFINE u == Least(req[w].rest)
             rest == req[w].rest \ {u}
  <1>2. /\ UNCHANGED <<row, devices, inbox, temps, started>>
        /\ TypeInv /\ TypeOK /\ IsFiniteSet(devices) /\ events \subseteq Events
        /\ devices \subseteq Device /\ temps \in Nat /\ started \in Nat
        /\ inbox \in [Users -> Mail \cup {NoMail}] /\ req[w] \in Request
        /\ FieldsOf(req[w], temps, events) /\ req[w].rest \subseteq Users /\ ~req[w].locked
    BY <1>1, InvOf, RequestFields DEF JobNext, FieldsOf
  <1>3. u \in Users /\ rest \in SUBSET Users
    BY <1>1, <1>2, LeastIsIn DEF FieldsOf
  <1>4. CASE /\ row[u].active
             /\ Becomes(w, JobReading(u, rest))
             /\ Note(IF u \in Pending THEN {} ELSE {"welcomed"})
    <2> DEFINE q == JobReading(u, rest)
    <2> HIDE DEF u, rest
    <2>1. /\ q \in Request /\ q.pc = "password" /\ q.user = u /\ q.old = row[u]
          /\ q.mine = row[u] /\ ~q.locked
      BY <1>2, <1>3, JobReadingFields
    <2>2. Becomes(w, q)
      BY <1>4
    <2> HIDE DEF q
    <2>3. /\ events' \subseteq Events /\ events \subseteq events'
          /\ u \in Pending \/ "welcomed" \in events'
      BY <1>2, <1>4 DEF Note, Events
    <2>4. FieldsOf(q, temps, events')
      BY <1>3, <2>1, <2>3, ReadingIsSound DEF Sending, Pending
    <2>5. StateOf(q, row, inbox', events')
      BY <2>1 DEF StateOf
    <2> QED
      BY <1>2, <2>1, <2>2, <2>3, <2>4, <2>5, Moves
  <1>5. CASE /\ ~row[u].active
             /\ Becomes(w, IF rest = {} THEN Idle ELSE [req[w] EXCEPT !.rest = rest])
             /\ UNCHANGED events
    <2>1. CASE rest = {}
      BY <1>1, <1>2, <1>5, <2>1, GivesUp
    <2>2. CASE rest # {}
      <3> DEFINE q == [req[w] EXCEPT !.rest = rest]
      <3>1. Becomes(w, q)
        BY <1>5, <2>2
      <3> HIDE DEF u, rest
      <3>2. /\ q \in Request /\ ~q.locked /\ q.pc = "next" /\ q.user = req[w].user
            /\ q.old = req[w].old /\ q.mine = req[w].mine /\ q.job = req[w].job /\ q.rest = rest
        BY <1>1, <1>2, <1>3 DEF Request
      <3> HIDE DEF q
      <3>3. PasswordOf(q, temps)
        BY <1>1, <1>2, <3>2 DEF FieldsOf, PasswordOf, Sending, Saving
      <3>4. DeviceOf(q)
        BY <1>1, <1>2, <3>2 DEF FieldsOf, DeviceOf
      <3>5. FieldsOf(q, temps, events)
        BY <1>2, <2>2, <3>2, <3>3, <3>4 DEF FieldsOf
      <3>6. StateOf(q, row, inbox, events)
        BY <1>1, <3>2, StateLasts
      <3> QED
        BY <1>2, <1>5, <3>1, <3>2, <3>5, <3>6, Moves
    <2> QED
      BY <2>1, <2>2
  <1> QED
    BY <1>4, <1>5 DEF JobNext

-----------------------------------------------------------------------------
(* The invariant *)

LEMMA InvInit ==
  ASSUME Init
  PROVE  Inv
  <1>1. TypeOK
    <2>1. Imported \in Row /\ Created \in Row
      BY DEF Imported, Created, Row, Own, NoDevice
    <2>2. \A w \in Workers : ~Busy(w)
      BY DEF Init, Busy
    <2> QED
      BY <2>1, <2>2 DEF Init, TypeOK
  <1>2. \A u \in Users : row[u].pw = 0
    BY DEF Init, Imported, Created, Own
  <1>3. \A w \in Workers : ~Busy(w)
    BY DEF Init, Busy
  <1> QED
    BY <1>1, <1>2, <1>3, FS_EmptySet DEF Inv, TypeInv, FieldsInv, StateInv, PasswordInv, Init

LEMMA InvStep ==
  ASSUME Inv, [Next]_vars
  PROVE  Inv'
  <1>1. ASSUME NEW w \in Workers, NEW u \in Users,
               \/ StartOnboard(w, u) \/ StartGenerate(w, u) \/ StartRevoke(w, u)
               \/ StartDeactivate(w, u) \/ StartActivate(w, u) \/ StartChange(w, u)
        PROVE  Inv'
    BY <1>1, StartOnboardKeeps, StartDetachingKeeps, StartDeactivateKeeps,
       StartActivateKeeps, StartChangeKeeps
  <1>2. ASSUME NEW w \in Workers, StartJob(w) \/ Step(w) \/ Crash(w)
        PROVE  Inv'
    BY <1>2, StartJobKeeps, JobNextKeeps, OnboardPasswordKeeps, ProvisionKeeps,
       FetchConfigKeeps, SendMailKeeps, OnboardCommitKeeps, DetachKeeps, CreateKeeps,
       SaveKeeps, CrashKeeps DEF Step
  <1>3. CASE UNCHANGED vars
    BY <1>3 DEF vars, Inv, TypeInv, TypeOK, FieldsInv, StateInv, PasswordInv, Busy
  <1> QED
    BY <1>1, <1>2, <1>3, ByAdminKeeps DEF Next

LEMMA InvHolds == Spec => []Inv
  <1> QED
    BY InvInit, InvStep, PTL DEF Spec

\* Rows, devices, mails and requests keep their types, and of two processes at most
\* one has written a user's row and not committed it: the UPDATE of an onboarding,
\* ahead of its calls, waits for the others'.
THEOREM TypeCorrect == Spec => []TypeOK
  <1>1. Inv => TypeOK
    BY DEF Inv, TypeInv
  <1> QED
    BY <1>1, InvHolds, PTL

\* The job replaces the password of a user who was welcomed only if it found them
\* welcomed when it came to them, or the row had changed under its reading.
THEOREM JobLeavesTheWelcomed == Spec => JobKeepsWelcomed
  <1> DEFINE Keeps ==
        \A w \in Workers, u \in Users :
          (At(w, "commit") /\ ~At(w, "commit")' /\ req[w].job /\ req[w].user = u
             /\ row[u].sent /\ row'[u].pw # row[u].pw)
            => Excused({"welcomed", "stale"})
  <1>1. Inv => Keeps
    <2> SUFFICES ASSUME Inv, NEW w \in Workers, At(w, "commit"), req[w].job,
                        row[req[w].user].sent
                 PROVE  Excused({"welcomed", "stale"})
      OBVIOUS
    <2>1. Busy(w) /\ req[w].pc = "commit"
      BY BusyAt DEF Pcs
    <2>2. FieldsOf(req[w], temps, events) /\ StateOf(req[w], row, inbox, events)
      BY <2>1, InvOf
    <2>3. req[w].locked /\ (req[w].old.sent => "welcomed" \in events)
      BY <2>1, <2>2 DEF FieldsOf, PasswordOf, Sending
    <2>4. row[req[w].user] = req[w].old \/ "stale" \in events
      BY <2>2, <2>3 DEF StateOf
    <2> QED
      BY <2>3, <2>4 DEF Excused
  <1>2. Inv => [Keeps]_vars
    BY <1>1
  <1> QED
    BY <1>2, InvHolds, PTL DEF JobKeepsWelcomed

-----------------------------------------------------------------------------
(* The kinds of step *)

\* A process takes up a user.
Reads(w) ==
  /\ ~Busy(w) \/ req[w].pc = "next"
  /\ UNCHANGED <<row, devices, inbox>>

\* A request goes on: with a mail, with a device, or with neither.
Goes(w) ==
  /\ Busy(w) /\ req[w].pc # "commit"
  /\ req'[w] # Idle /\ req'[w].pc # "next" /\ req'[w].user = req[w].user
  /\ req'[w].old = req[w].old
  /\ \/ req'[w].mine.vpn = req[w].mine.vpn
     \/ req[w].mine.vpn \in {NoDevice, req[w].old.vpn}
  /\ UNCHANGED row
  /\ \/ UNCHANGED inbox
     \/ /\ req'[w].pc = "commit"
        /\ \A u \in Users \ {req[w].user} : inbox'[u] = inbox[u]
  /\ \A d \in devices' \ devices : d.user = req[w].user /\ d.id = req'[w].mine.vpn

Fails == UNCHANGED row /\ "fault" \in events'

Commits(w) ==
  /\ Busy(w) /\ req[w].pc \in {"commit", "save"}
  /\ row' = [row EXCEPT ![req[w].user] = Merged(w)]
  /\ row[req[w].user] = req[w].old \/ "stale" \in events'
  /\ UNCHANGED <<devices, inbox>>
  /\ req'[w] = Idle \/ req'[w].pc = "next"

\* A PUT that changes is_active is answered 4xx.
Refused(w) ==
  /\ Busy(w) /\ req[w].pc = "save" /\ req[w].mine.active # req[w].old.active
  /\ UNCHANGED <<row, devices, inbox>>
  /\ req'[w] = Idle

Does(w) == Reads(w) \/ Goes(w) \/ Fails \/ Commits(w) \/ Refused(w)

Others(w) == events \subseteq events' /\ \A v \in Workers \ {w} : req'[v] = req[v]

LEMMA StartDoes ==
  ASSUME Inv, NEW w \in Workers, NEW q, Start(w, q)
  PROVE  Does(w) /\ Others(w)
  <1>1. Becomes(w, q) /\ ~Busy(w) /\ UNCHANGED <<row, devices, inbox, events>>
    BY DEF Start
  <1> QED
    BY <1>1, BecomesIs DEF Inv, Does, Reads, Others

LEMMA BeginsDoes ==
  ASSUME Inv, NEW w \in Workers, NEW u \in Users,
         \/ StartOnboard(w, u) \/ StartGenerate(w, u) \/ StartRevoke(w, u)
         \/ StartDeactivate(w, u) \/ StartActivate(w, u) \/ StartChange(w, u)
  PROVE  Does(w) /\ Others(w)
  <1>1. CASE StartOnboard(w, u)
    BY <1>1, StartDoes DEF StartOnboard
  <1>2. CASE StartGenerate(w, u)
    BY <1>2, StartDoes DEF StartGenerate
  <1>3. CASE StartRevoke(w, u)
    BY <1>3, StartDoes DEF StartRevoke
  <1>4. CASE StartDeactivate(w, u)
    BY <1>4, StartDoes DEF StartDeactivate
  <1>5. CASE StartActivate(w, u)
    BY <1>5, StartDoes DEF StartActivate
  <1>6. CASE StartChange(w, u)
    BY <1>6, StartDoes DEF StartChange
  <1> QED
    BY <1>1, <1>2, <1>3, <1>4, <1>5, <1>6

LEMMA FaultDoes ==
  ASSUME Inv, NEW w \in Workers, NEW q, Becomes(w, q), Fault, UNCHANGED row
  PROVE  Does(w) /\ Others(w)
  <1>1. TypeInv /\ TypeOK
    BY DEF Inv, TypeInv
  <1> QED
    BY <1>1, BecomesIs, FaultIsNoted DEF Does, Fails, Others

\* A request that goes on without a mail or a device.
LEMMA QuietDoes ==
  ASSUME Inv, NEW w \in Workers, Busy(w), req[w].pc # "commit", NEW q \in Request,
         Becomes(w, q), q.pc # "next", q.user = req[w].user,
         q.old = req[w].old,
         q.mine.vpn = req[w].mine.vpn \/ req[w].mine.vpn = req[w].old.vpn,
         UNCHANGED <<row, devices, inbox>>, events \subseteq events'
  PROVE  Does(w) /\ Others(w)
  <1>1. req'[w] = q /\ q # Idle /\ \A v \in Workers \ {w} : req'[v] = req[v]
    BY BecomesIs, IdleIsNowhere DEF Inv
  <1>2. devices' \ devices = {}
    OBVIOUS
  <1>3. Goes(w)
    BY <1>1, <1>2 DEF Goes
  <1> QED
    BY <1>1, <1>3 DEF Does, Others

\* A request that goes on with a new device.
LEMMA NamingDoes ==
  ASSUME Inv, NEW w \in Workers, Busy(w), req[w].pc \in {"provision", "create"},
         NEW pc \in {"config", "save"}, Names(w, pc, NewDevice(w).id),
         devices' = devices \cup {NewDevice(w)}, UNCHANGED <<row, inbox, events>>
  PROVE  Does(w) /\ Others(w)
  <1>1. TypeInv /\ FieldsOf(req[w], temps, events) /\ NewDevice(w).user = req[w].user
    BY InvOf, NewDeviceIs
  <1>2. req[w].mine.vpn = NoDevice
    BY <1>1 DEF FieldsOf, DeviceOf
  <1> DEFINE id == NewDevice(w).id
  <1>3. PICK q \in Request :
          /\ Becomes(w, q) /\ q.pc = pc /\ q.user = req[w].user /\ q.old = req[w].old
          /\ q.mine.vpn = id
    <2>1. pc \in Pcs /\ id \in Nat /\ Names(w, pc, id)
      BY <1>1, NewDeviceIs DEF Pcs
    <2> HIDE DEF id
    <2> QED
      BY <1>1, <2>1, NamedIs
  <1>4. req'[w] = q /\ q # Idle /\ \A v \in Workers \ {w} : req'[v] = req[v]
    BY <1>1, <1>3, BecomesIs, IdleIsNowhere
  <1>5. \A d \in devices' \ devices : d = NewDevice(w)
    OBVIOUS
  <1>6. Goes(w)
    BY <1>1, <1>2, <1>3, <1>4, <1>5 DEF Goes
  <1> QED
    BY <1>4, <1>6 DEF Does, Others

LEMMA OnboardPasswordDoes ==
  ASSUME Inv, NEW w \in Workers, OnboardPassword(w)
  PROVE  Does(w) /\ Others(w)
  <1>1. Busy(w) /\ req[w].pc = "password"
    BY BusyAt DEF OnboardPassword, Pcs
  <1>2. TypeOK /\ temps \in Nat /\ req[w] \in Request /\ req[w].mine \in Row
    BY <1>1, InvOf, RequestFields
  <1> DEFINE m == Reset(w)
             pc == IF req[w].mine.vpn = NoDevice THEN "provision" ELSE "mail"
             q == [req[w] EXCEPT !.locked = TRUE, !.mine = m, !.pc = pc]
  <1>3. m \in Row /\ m.vpn = req[w].mine.vpn
    <2> DEFINE n == temps + 1
               o == req[w].mine
    <2>1. n \in Nat /\ o \in Row /\ m = [o EXCEPT !.pw = n, !.must = TRUE]
      BY <1>2 DEF Reset
    <2> HIDE DEF n, o, m
    <2>2. m \in Row /\ m.vpn = o.vpn
      BY <2>1 DEF Row
    <2> QED
      BY <2>2 DEF o
  <1>4. pc \in {"provision", "mail"} /\ pc \in Pcs
    BY DEF Pcs
  <1>5. Becomes(w, q) /\ Note(Staleness(w)) /\ UNCHANGED <<row, devices, inbox>>
    BY DEF OnboardPassword
  <1> HIDE DEF m, pc
  <1>6. /\ q \in Request /\ q.mine = m /\ q.pc = pc /\ q.user = req[w].user
        /\ q.old = req[w].old
    BY <1>2, <1>3, <1>4 DEF Request
  <1> HIDE DEF q
  <1> QED
    BY <1>1, <1>2, <1>3, <1>4, <1>5, <1>6, StalenessIsNoted, QuietDoes

LEMMA ProvisionDoes ==
  ASSUME Inv, NEW w \in Workers, Provision(w)
  PROVE  Does(w) /\ Others(w)
  <1>1. Busy(w) /\ req[w].pc = "provision"
    BY BusyAt DEF Provision, Pcs
  <1>2. CASE /\ devices' = devices \cup {NewDevice(w)}
             /\ Becomes(w, [req[w] EXCEPT !.pc = "config", !.mine.vpn = NewDevice(w).id])
             /\ UNCHANGED events
    <2>1. Names(w, "config", NewDevice(w).id)
      BY <1>2 DEF Names
    <2> QED
      BY <1>1, <1>2, <2>1, NamingDoes DEF Provision
  <1>3. CASE CreateFails(w) /\ Goto(w, "mail")
    BY <1>3, FaultDoes DEF CreateFails, Goto, Provision
  <1> QED
    BY <1>2, <1>3 DEF Provision

LEMMA CreateDoes ==
  ASSUME Inv, NEW w \in Workers, Create(w)
  PROVE  Does(w) /\ Others(w)
  <1>1. Busy(w) /\ req[w].pc = "create"
    BY BusyAt DEF Create, Pcs
  <1>2. CASE /\ devices' = devices \cup {NewDevice(w)}
             /\ Becomes(w, [req[w] EXCEPT !.pc = "save", !.mine.vpn = NewDevice(w).id])
             /\ UNCHANGED events
    <2>1. Names(w, "save", NewDevice(w).id)
      BY <1>2 DEF Names
    <2> QED
      BY <1>1, <1>2, <2>1, NamingDoes DEF Create
  <1>3. CASE CreateFails(w) /\ Becomes(w, Idle)
    BY <1>3, FaultDoes DEF CreateFails, Create
  <1> QED
    BY <1>2, <1>3 DEF Create

LEMMA FetchConfigDoes ==
  ASSUME Inv, NEW w \in Workers, FetchConfig(w)
  PROVE  Does(w) /\ Others(w)
  <1>1. Busy(w) /\ req[w].pc = "config"
    BY BusyAt DEF FetchConfig, Pcs
  <1>2. req[w] \in Request /\ req[w].mine.vpn \in Nat
    BY <1>1, InvOf, RequestFields, RowFields
  <1>3. CASE /\ Becomes(w, [req[w] EXCEPT !.pc = "mail", !.config = req[w].mine.vpn])
             /\ UNCHANGED events
    <2> DEFINE id == req[w].mine.vpn
               q == [req[w] EXCEPT !.pc = "mail", !.config = id]
    <2>1. Becomes(w, q)
      BY <1>3
    <2> HIDE DEF id
    <2>2. /\ q \in Request /\ q.pc = "mail" /\ q.user = req[w].user
          /\ q.old = req[w].old /\ q.mine = req[w].mine
      BY <1>2 DEF Request, Pcs, id
    <2> HIDE DEF q
    <2> QED
      BY <1>1, <1>3, <2>1, <2>2, QuietDoes DEF FetchConfig
  <1>4. CASE Fault /\ Goto(w, "mail")
    BY <1>4, FaultDoes DEF Goto, FetchConfig
  <1> QED
    BY <1>3, <1>4 DEF FetchConfig

LEMMA SendMailDoes ==
  ASSUME Inv, NEW w \in Workers, SendMail(w)
  PROVE  Does(w) /\ Others(w)
  <1>1. Busy(w) /\ req[w].pc = "mail"
    BY BusyAt DEF SendMail, Pcs
  <1>2. /\ req[w] \in Request /\ req[w].mine \in Row /\ UNCHANGED <<row, devices>>
        /\ inbox \in [Users -> Mail \cup {NoMail}]
    BY <1>1, InvOf, RequestFields DEF SendMail
  <1>3. CASE /\ inbox' = [inbox EXCEPT ![req[w].user] = WelcomeMail(w)]
             /\ Becomes(w, [req[w] EXCEPT !.pc = "commit", !.mine.sent = TRUE])
             /\ UNCHANGED events
    <2> DEFINE m == [req[w].mine EXCEPT !.sent = TRUE]
               q == [req[w] EXCEPT !.pc = "commit", !.mine = m]
    <2>1. q = [req[w] EXCEPT !.pc = "commit", !.mine.sent = TRUE]
      BY <1>2 DEF Request
    <2>2. Becomes(w, q)
      BY <1>3, <2>1
    <2>3. m \in Row /\ m.vpn = req[w].mine.vpn
      BY <1>2 DEF Row
    <2> HIDE DEF m
    <2>4. /\ q \in Request /\ q.pc = "commit" /\ q.user = req[w].user
          /\ q.old = req[w].old /\ q.mine = m
      BY <1>2, <2>3 DEF Request, Pcs
    <2> HIDE DEF q
    <2>5. req'[w] = q /\ q # Idle /\ \A v \in Workers \ {w} : req'[v] = req[v]
      BY <2>2, <2>4, BecomesIs, IdleIsNowhere DEF Inv
    <2>6. \A u \in Users \ {req[w].user} : inbox'[u] = inbox[u]
      BY <1>2, <1>3
    <2>7. devices' \ devices = {}
      BY <1>2
    <2>8. Goes(w)
      BY <1>1, <1>2, <2>3, <2>4, <2>5, <2>6, <2>7 DEF Goes
    <2> QED
      BY <1>3, <2>5, <2>8 DEF Does, Others
  <1>4. CASE Fault /\ Goto(w, "commit")
    BY <1>2, <1>4, FaultDoes DEF Goto
  <1> QED
    BY <1>3, <1>4 DEF SendMail

LEMMA OnboardCommitDoes ==
  ASSUME Inv, NEW w \in Workers, OnboardCommit(w)
  PROVE  Does(w) /\ Others(w)
  <1>1. Busy(w) /\ req[w].pc = "commit"
    BY BusyAt DEF OnboardCommit, Pcs
  <1>2. FieldsOf(req[w], temps, events) /\ StateOf(req[w], row, inbox, events)
    BY <1>1, InvOf
  <1>3. CASE row' = [row EXCEPT ![req[w].user] = Merged(w)] /\ UNCHANGED events
    <2>1. row[req[w].user] = req[w].old \/ "stale" \in events'
      BY <1>1, <1>2, <1>3 DEF FieldsOf, PasswordOf, StateOf, Sending
    <2>2. Ended(w) = Idle \/ Ended(w).pc = "next"
      BY <1>1, EndedIs
    <2>3. req'[w] = Ended(w) /\ \A v \in Workers \ {w} : req'[v] = req[v]
      BY BecomesIs DEF OnboardCommit, Inv
    <2>4. Commits(w)
      BY <1>1, <1>3, <2>1, <2>2, <2>3 DEF Commits, OnboardCommit
    <2> QED
      BY <1>3, <2>3, <2>4 DEF Does, Others
  <1>4. CASE Fault /\ UNCHANGED row
    BY <1>4, FaultDoes DEF OnboardCommit
  <1> QED
    BY <1>3, <1>4 DEF OnboardCommit

LEMMA SaveDoes ==
  ASSUME Inv, NEW w \in Workers, Save(w)
  PROVE  Does(w) /\ Others(w)
  <1>1. Busy(w) /\ req[w].pc = "save" /\ UNCHANGED <<devices, inbox>> /\ TypeOK
    BY BusyAt DEF Save, Pcs, Inv, TypeInv
  <1>2. req'[w] = Idle /\ \A v \in Workers \ {w} : req'[v] = req[v]
    BY BecomesIs DEF Save, Inv
  <1>3. CASE row' = [row EXCEPT ![req[w].user] = Merged(w)] /\ Note(Staleness(w))
    BY <1>1, <1>2, <1>3, StalenessIsNoted DEF Does, Commits, Others
  <1>4. CASE req[w].mine.active # req[w].old.active /\ UNCHANGED <<row, events>>
    BY <1>1, <1>2, <1>4 DEF Does, Refused, Others
  <1>5. CASE Fault /\ UNCHANGED row
    BY <1>5, FaultDoes DEF Save
  <1> QED
    BY <1>3, <1>4, <1>5 DEF Save

LEMMA DetachDoes ==
  ASSUME Inv, NEW w \in Workers, Detach(w)
  PROVE  Does(w) /\ Others(w)
  <1>1. Busy(w) /\ req[w].pc = "detach"
    BY BusyAt DEF Detach, Pcs
  <1>2. /\ TypeInv /\ TypeOK /\ UNCHANGED <<row, devices, inbox>>
        /\ FieldsOf(req[w], temps, events)
    BY <1>1, InvOf DEF Detach
  <1>3. req[w].then \in {"create", "save"} /\ req[w].mine.vpn = req[w].old.vpn
    BY <1>1, <1>2 DEF FieldsOf, DeviceOf
  <1>4. CASE /\ Becomes(w, [req[w] EXCEPT !.pc = req[w].then, !.mine.vpn = NoDevice])
             /\ UNCHANGED events
    <2> DEFINE then == req[w].then
    <2>1. then \in Pcs /\ then # "next" /\ NoDevice \in Nat /\ Names(w, then, NoDevice)
      BY <1>3, <1>4 DEF Pcs, NoDevice, Names
    <2> HIDE DEF then
    <2>2. PICK q \in Request : /\ Becomes(w, q) /\ q.pc = then
                              /\ q.user = req[w].user /\ q.old = req[w].old
      BY <1>1, <1>2, <2>1, NamedIs
    <2>3. events \subseteq events'
      BY <1>4
    <2> QED
      BY <1>1, <1>2, <1>3, <2>1, <2>2, <2>3, QuietDoes
  <1>5. CASE Fault /\ Becomes(w, Idle)
    BY <1>2, <1>5, FaultDoes
  <1> QED
    BY <1>4, <1>5 DEF Detach

LEMMA JobNextDoes ==
  ASSUME Inv, NEW w \in Workers, JobNext(w)
  PROVE  Does(w) /\ Others(w)
  <1>1. Busy(w) /\ req[w].pc = "next"
    BY BusyAt DEF JobNext, Pcs
  <1>2. PICK q : Becomes(w, q)
    BY DEF JobNext
  <1>3. \A v \in Workers \ {w} : req'[v] = req[v]
    BY <1>2, BecomesIs DEF Inv
  <1>4. events \subseteq events' /\ UNCHANGED <<row, devices, inbox>>
    BY DEF JobNext, Note
  <1> QED
    BY <1>1, <1>3, <1>4 DEF Does, Reads, Others

\* Every step is of one of the kinds, and one process takes it; or a superadmin's.
LEMMA StepDoes ==
  ASSUME Inv, [Next]_vars
  PROVE  UNCHANGED vars \/ CreateByAdmin \/ \E w \in Workers : Does(w) /\ Others(w)
  <1>1. ASSUME NEW w \in Workers, Crash(w)
        PROVE  Does(w) /\ Others(w)
    BY <1>1, FaultDoes DEF Crash
  <1>2. ASSUME NEW w \in Workers, StartJob(w)
        PROVE  Does(w) /\ Others(w)
    BY <1>2, StartDoes DEF StartJob
  <1>3. ASSUME NEW w \in Workers, Step(w)
        PROVE  Does(w) /\ Others(w)
    BY <1>3, JobNextDoes, OnboardPasswordDoes, ProvisionDoes, FetchConfigDoes, SendMailDoes,
       OnboardCommitDoes, DetachDoes, CreateDoes, SaveDoes DEF Step
  <1> QED
    BY <1>1, <1>2, <1>3, BeginsDoes DEF Next

-----------------------------------------------------------------------------
(* Passwords, mails and devices *)

\* A commit keeps a mailed password and the obligation to change it together.
LEMMA CommittedMustChange ==
  ASSUME Inv, TemporaryMustChange, NEW w \in Workers, Commits(w), events \subseteq events'
  PROVE  TemporaryMustChange'
  <1> DEFINE u == req[w].user
  <1>1. /\ Busy(w) /\ u \in Users /\ row \in [Users -> Row]
        /\ PasswordOf(req[w], temps) /\ req[w].pc \in {"commit", "save"}
        /\ row[u] = req[w].old \/ "stale" \in events'
        /\ req[w].mine \in Row /\ req[w].old \in Row /\ row[u] \in Row
    BY InvOf, RequestFields DEF Commits, FieldsOf
  <1>2. row'[u] = Merged(w) /\ \A x \in Users \ {u} : row'[x] = row[x]
    BY <1>1 DEF Commits
  <1>3. ASSUME "stale" \notin events', Merged(w).pw # Own
        PROVE  Merged(w).must
    <2>1. row[u].pw # Own => row[u].must
      BY <1>1, <1>3 DEF TemporaryMustChange, Excused
    <2>2. /\ Merged(w).pw = IF req[w].mine.pw # req[w].old.pw THEN req[w].mine.pw ELSE row[u].pw
          /\ Merged(w).must = IF req[w].mine.must # req[w].old.must THEN req[w].mine.must
                              ELSE row[u].must
      BY <1>1, MergedIs DEF Inv
    <2>3. /\ req[w].mine.must \in BOOLEAN /\ req[w].old.must \in BOOLEAN /\ row[u].must \in BOOLEAN
          /\ row[u] = req[w].old
      BY <1>1, <1>3, RowFields
    <2>4. CASE req[w].pc = "commit"
      <3>1. req[w].mine.must = TRUE
        BY <1>1, <2>3, <2>4 DEF PasswordOf, Sending
      <3>2. Merged(w).must = TRUE
        BY <2>2, <2>3, <3>1
      <3> QED
        BY <3>2
    <2>5. CASE req[w].pc = "save"
      <3>1. req[w].mine.pw = req[w].old.pw /\ req[w].mine.must = req[w].old.must
        BY <1>1, <1>3, <2>2, <2>3, <2>5 DEF PasswordOf, Saving
      <3>2. row[u].pw # Own /\ Merged(w).must = row[u].must
        BY <1>3, <2>2, <3>1
      <3> QED
        BY <2>1, <3>2
    <2> QED
      BY <1>1, <2>4, <2>5
  <1>4. ASSUME NEW x \in Users, row'[x].pw # Own, "stale" \notin events'
        PROVE  row'[x].must
    <2>1. CASE x = u
      BY <1>2, <1>3, <1>4, <2>1
    <2>2. CASE x # u
      BY <1>2, <1>4, <2>2 DEF TemporaryMustChange, Excused
    <2> QED
      BY <2>1, <2>2
  <1> QED
    BY <1>4 DEF TemporaryMustChange, Excused

\* Who has a password that went through a mail must change it: but for an onboarding
\* over a row that had changed since it was read.
THEOREM MailedMustChange == Spec => []TemporaryMustChange
  <1>1. Init => TemporaryMustChange
    BY DEF Init, TemporaryMustChange, Imported, Created
  <1>2. ASSUME Inv, TemporaryMustChange, [Next]_vars
        PROVE  TemporaryMustChange'
    <2>1. CASE UNCHANGED vars \/ CreateByAdmin
      BY <1>2, <2>1 DEF vars, CreateByAdmin, TemporaryMustChange, Excused
    <2>2. ASSUME NEW w \in Workers, Does(w), Others(w)
          PROVE  TemporaryMustChange'
      <3>1. CASE Commits(w)
        BY <1>2, <2>2, <3>1, CommittedMustChange DEF Others
      <3>2. CASE UNCHANGED row
        BY <1>2, <2>2, <3>2 DEF TemporaryMustChange, Excused, Others
      <3> QED
        BY <2>2, <3>1, <3>2 DEF Does, Reads, Goes, Fails, Refused
    <2> QED
      BY <1>2, <2>1, <2>2, StepDoes
  <1> QED
    BY <1>1, <1>2, InvHolds, PTL DEF Spec

\* The last mail of a user whose onboarding is not about to be committed.
MailWorks(u) ==
  (inbox[u] # NoMail /\ \A w \in Workers : At(w, "commit") => req[w].user # u)
    => row[u].pw \in {Own, inbox[u].pw} \/ "fault" \in events

\* A commit writes the password that the mail has carried, or none, or the user's own.
LEMMA CommittedWorks ==
  ASSUME Inv, NEW u \in Users, MailWorks(u), NEW w \in Workers, Commits(w), Others(w)
  PROVE  MailWorks(u)'
  <1>1. /\ Busy(w) /\ req[w].user \in Users /\ row \in [Users -> Row]
        /\ PasswordOf(req[w], temps) /\ StateOf(req[w], row, inbox, events)
        /\ req[w].mine \in Row /\ req[w].old \in Row
        /\ req[w].pc \in {"commit", "save"} /\ inbox' = inbox /\ events \subseteq events'
    BY InvOf, RequestFields DEF Commits, FieldsOf, Others
  <1>2. CASE u # req[w].user
    <2>1. row'[u] = row[u]
      BY <1>1, <1>2 DEF Commits
    <2>2. \A v \in Workers : (At(v, "commit") /\ req[v].user = u) =>
            (At(v, "commit")' /\ req'[v].user = u)
      BY <1>2 DEF Others, At
    <2> QED
      BY <1>1, <2>1, <2>2 DEF MailWorks
  <1>3. CASE u = req[w].user
    <2>1. row'[u].pw = IF req[w].mine.pw # req[w].old.pw THEN req[w].mine.pw ELSE row[u].pw
      <3>1. row'[u] = Merged(w)
        BY <1>1, <1>3 DEF Commits
      <3> QED
        BY <1>1, <1>3, <3>1, MergedIs DEF Inv
    <2>2. CASE req[w].pc = "commit"
      <3>1. req[w].mine.pw # req[w].old.pw
        BY <1>1, <2>2, RowFields DEF PasswordOf, Sending
      <3>2. inbox[u].pw = req[w].mine.pw \/ "fault" \in events
        BY <1>1, <1>3, <2>2 DEF StateOf
      <3> QED
        BY <1>1, <2>1, <3>1, <3>2 DEF MailWorks
    <2>3. CASE req[w].pc = "save"
      <3>1. row'[u].pw \in {Own, row[u].pw}
        BY <1>1, <2>1, <2>3 DEF PasswordOf, Saving
      <3>2. \A v \in Workers : (At(v, "commit") /\ req[v].user = u) =>
              (At(v, "commit")' /\ req'[v].user = u)
        BY <2>3 DEF Others, At
      <3> QED
        BY <1>1, <3>1, <3>2 DEF MailWorks
    <2> QED
      BY <1>1, <2>2, <2>3
  <1> QED
    BY <1>2, <1>3

LEMMA GoneOnWorks ==
  ASSUME Inv, NEW u \in Users, MailWorks(u), NEW w \in Workers, Goes(w), Others(w)
  PROVE  MailWorks(u)'
  <1>1. \A v \in Workers : (At(v, "commit") /\ req[v].user = u) =>
          (At(v, "commit")' /\ req'[v].user = u)
    BY DEF Goes, Others, At
  <1>2. CASE inbox'[u] = inbox[u]
    BY <1>1, <1>2 DEF Goes, Others, MailWorks
  <1>3. CASE u = req[w].user /\ req'[w].pc = "commit"
    BY <1>3 DEF Goes, MailWorks, At
  <1> QED
    BY <1>2, <1>3 DEF Goes

\* The password of a user's last mail is the one in force, unless the user has set
\* their own: from when the mail was sent to the commit the row is locked, so the
\* mails of overlapping onboardings and their commits come in one order.
THEOREM LastMailIsInForce == Spec => []LastMailWorks
  <1> DEFINE Works == \A u \in Users : MailWorks(u)
  <1>1. Init => Works
    BY DEF Init, MailWorks
  <1>2. ASSUME Inv, Works, [Next]_vars
        PROVE  Works'
    <2> SUFFICES ASSUME NEW u \in Users
                 PROVE  MailWorks(u)'
      OBVIOUS
    <2>1. CASE UNCHANGED vars \/ CreateByAdmin
      BY <1>2, <2>1 DEF vars, CreateByAdmin, MailWorks, At
    <2>2. ASSUME NEW w \in Workers, Does(w), Others(w)
          PROVE  MailWorks(u)'
      <3>1. CASE Commits(w)
        BY <1>2, <2>2, <3>1, CommittedWorks
      <3>2. CASE Goes(w)
        BY <1>2, <2>2, <3>2, GoneOnWorks
      <3>3. CASE Fails
        BY <3>3 DEF Fails, MailWorks
      <3>4. CASE Reads(w) \/ Refused(w)
        <4>1. ~At(w, "commit") /\ UNCHANGED <<row, inbox>>
          BY <3>4 DEF Reads, Refused, At, Busy, Idle
        <4>2. \A v \in Workers : (At(v, "commit") /\ req[v].user = u) =>
                (At(v, "commit")' /\ req'[v].user = u)
          BY <2>2, <4>1 DEF Others, At
        <4> QED
          BY <1>2, <2>2, <4>1, <4>2 DEF MailWorks, Others
      <3> QED
        BY <2>2, <3>1, <3>2, <3>3, <3>4 DEF Does
    <2> QED
      BY <1>2, <2>1, <2>2, StepDoes
  <1>3. Works => LastMailWorks
    BY DEF MailWorks, LastMailWorks, Excused
  <1> QED
    BY <1>1, <1>2, <1>3, InvHolds, PTL DEF Spec

\* Why a device is no longer kept.
Reason(d) ==
  \E w \in Workers : /\ req'[w] # req[w] /\ req[w].user = d.user
                     /\ Detaches(w, d) \/ Overwrites(w) \/ Loses(w, d)

\* A device that a request is to name, when that request's process takes a step.
LEMMA CarriedKept ==
  ASSUME Inv, NEW w \in Workers, Does(w), Others(w), NEW d \in devices,
         d.user \in Users, Carries(w, d), req[w].old.vpn # d.id
  PROVE  Kept(d)' \/ Reason(d)
  <1>1. /\ Busy(w) /\ req[w].pc # "next" /\ req[w].user = d.user
        /\ req[w].mine.vpn = d.id
    BY DEF Carries
  <1>2. /\ DeviceOf(req[w]) /\ d.id # NoDevice /\ d.user # Nobody
        /\ row \in [Users -> Row]
    BY <1>1, InvOf, UserVpnAssumption DEF FieldsOf, Device, NoDevice, Nobody
  <1>3. CASE Goes(w)
    <2>1. /\ req'[w] # Idle /\ req'[w].pc # "next" /\ req'[w].user = d.user
          /\ req'[w].old = req[w].old /\ req'[w].mine.vpn = d.id
      BY <1>1, <1>2, <1>3 DEF Goes
    <2> QED
      BY <1>2, <2>1 DEF Kept, Carries, Busy
  <1>4. CASE Commits(w)
    <2>1. Merged(w).vpn = d.id
      BY <1>1, MergedIs DEF Inv
    <2> QED
      BY <1>1, <1>2, <1>4, <2>1 DEF Commits, Kept
  <1>5. CASE Refused(w)
    BY <1>1, <1>2, <1>5 DEF Refused, DeviceOf
  <1>6. CASE Fails
    <2>1. CASE req'[w] = req[w]
      BY <1>1, <1>2, <2>1 DEF Kept, Carries, Busy
    <2>2. CASE req'[w] # req[w]
      BY <1>1, <1>6, <2>2 DEF Fails, Reason, Loses
    <2> QED
      BY <2>1, <2>2
  <1> QED
    BY <1>1, <1>3, <1>4, <1>5, <1>6 DEF Does, Reads

\* A device that the row names, when the row is written.
LEMMA WrittenKept ==
  ASSUME Inv, NEW w \in Workers, Commits(w), NEW d \in devices, d.user \in Users,
         row[d.user].vpn = d.id
  PROVE  Kept(d)' \/ Reason(d)
  <1>1. /\ Busy(w) /\ req[w].pc \in {"commit", "save"} /\ DeviceOf(req[w])
        /\ d.id # NoDevice /\ d.user # Nobody /\ row \in [Users -> Row]
        /\ row' = [row EXCEPT ![req[w].user] = Merged(w)]
        /\ req'[w] = Idle \/ req'[w].pc = "next"
    BY InvOf, UserVpnAssumption DEF Commits, FieldsOf, Device, NoDevice, Nobody
  <1>2. CASE req[w].user # d.user
    BY <1>1, <1>2 DEF Kept
  <1>3. CASE req[w].user = d.user /\ Merged(w).vpn = d.id
    BY <1>1, <1>3 DEF Kept
  <1>4. CASE req[w].user = d.user /\ Merged(w).vpn # d.id
    <2>1. req[w].mine.vpn # req[w].old.vpn /\ req[w].mine.vpn # d.id
      BY <1>1, <1>4, MergedIs DEF Inv
    <2>2. req'[w] # req[w]
      BY <1>1 DEF Busy
    <2>3. CASE req[w].old.vpn = d.id
      <3>1. req[w].pc = "save"
        BY <1>1, <2>1, <2>3 DEF DeviceOf, Sending
      <3> QED
        BY <1>4, <2>1, <2>2, <2>3, <3>1 DEF Reason, Detaches, At
    <2>4. CASE req[w].old.vpn # d.id
      <3>1. row[req[w].user] # req[w].old
        BY <1>4, <2>4
      <3> QED
        BY <1>4, <2>1, <2>2, <3>1 DEF Reason, Overwrites
    <2> QED
      BY <2>3, <2>4
  <1> QED
    BY <1>2, <1>3, <1>4

\* A new device is a superadmin's, or carried by the request that made it, or its call
\* failed; and a device that has a name loses it only by the commit of a request that
\* was to detach it or had read an older row, or with the transaction that was to
\* write it: for any number of users, processes and requests.
THEOREM NamesAreAccountedFor == Spec => NamesGoWithReason
  <1> DEFINE New == \A d \in devices' \ devices :
                      \/ d.user = Nobody
                      \/ \E w \in Workers : Carries(w, d)'
                      \/ "fault" \in events'
             Old == \A d \in devices : (Kept(d) /\ ~Kept(d)') => Reason(d)
  <1>1. ASSUME Inv, [Next]_vars
        PROVE  New /\ Old
    <2>1. CASE UNCHANGED vars
      BY <2>1 DEF vars, Kept, Carries, Busy
    <2>2. CASE CreateByAdmin
      <3>1. New
        BY <2>2 DEF CreateByAdmin, DeviceFor
      <3>2. Old
        BY <2>2 DEF CreateByAdmin, Kept, Carries, Busy
      <3> QED
        BY <3>1, <3>2
    <2>3. ASSUME NEW w \in Workers, Does(w), Others(w)
          PROVE  New /\ Old
      <3>1. New
        BY <2>3 DEF Does, Reads, Goes, Fails, Commits, Refused, Carries, Busy
      <3>2. ASSUME NEW d \in devices, Kept(d), ~Kept(d)'
            PROVE  Reason(d)
        <4>1. d.user \in Users /\ d.user # Nobody
          BY <1>1, <3>2 DEF Inv, TypeInv, TypeOK, Device, Kept
        <4>2. CASE row[d.user].vpn = d.id /\ UNCHANGED row
          BY <3>2, <4>1, <4>2 DEF Kept
        <4>3. CASE row[d.user].vpn = d.id /\ Commits(w)
          BY <1>1, <3>2, <4>1, <4>3, WrittenKept
        <4>4. CASE row[d.user].vpn # d.id
          <5>1. PICK v \in Workers : Carries(v, d) /\ req[v].old.vpn # d.id
            BY <3>2, <4>4 DEF Kept
          <5>2. CASE v = w
            BY <1>1, <2>3, <3>2, <4>1, <5>1, <5>2, CarriedKept
          <5>3. CASE v # w
            BY <2>3, <3>2, <4>1, <5>1, <5>3 DEF Others, Kept, Carries, Busy
          <5> QED
            BY <5>2, <5>3
        <4> QED
          BY <2>3, <4>2, <4>3, <4>4 DEF Does, Reads, Goes, Fails, Refused
      <3> QED
        BY <3>1, <3>2
    <2> QED
      BY <1>1, <2>1, <2>2, <2>3, StepDoes
  <1>2. (New /\ Old) =>
          /\ New
          /\ \A d \in devices : (Kept(d) /\ ~Kept(d)') =>
               \E w \in Workers :
                 /\ req'[w] # req[w] /\ req[w].user = d.user
                 /\ Detaches(w, d) \/ Overwrites(w) \/ Loses(w, d)
    BY DEF Reason
  <1> QED
    BY <1>1, <1>2, InvHolds, PTL DEF Spec, NamesGoWithReason
=============================================================================
