------------------------ MODULE VpnProvisionerProofs ------------------------
(***************************************************************************)
(* Proofs about VpnProvisioner, for every set of devices and requests, any *)
(* range of addresses and any number of failures: first when the requests  *)
(* for a device come one at a time, then when they overlap freely.  All    *)
(* that is assumed of the clients in the second part is that a device is   *)
(* named only once its create has ended (CreateFirst), since its uuid is   *)
(* in no reply before.                                                     *)
(***************************************************************************)
EXTENDS VpnProvisioner, WellFoundedInduction, TLAPS

-----------------------------------------------------------------------------
(* Addresses *)

\* A non-empty set of numbers has a least one.
LEMMA Least ==
  ASSUME NEW T, T \subseteq Nat, T # {}
  PROVE  \E x \in T : \A y \in T : x <= y
  <1> DEFINE R == OpToRel(<, Nat)
  <1>1. IsWellFoundedOn(R, Nat)
    BY NatLessThanWellFounded
  <1>2. PICK x \in T : \A y \in T : ~ (<<y, x>> \in R)
    <2> HIDE DEF R
    <2> QED BY <1>1, WFMin
  <1>3. \A y \in T : ~ (y < x)
    BY <1>2 DEF OpToRel
  <1> QED BY <1>3

\* The allocator finds an address of the range that no record holds.
LEMMA NextIsFree ==
  ASSUME FreeIps # {}
  PROVE  nextAvailableIP \in FreeIps /\ nextAvailableIP \in Ips
  <1>1. FreeIps \subseteq Ips /\ Ips \subseteq Nat
    BY ProvisionerAssumption DEF FreeIps, Ips
  <1>2. \E a \in FreeIps : \A b \in FreeIps : a <= b
    BY <1>1, Least
  <1> QED BY <1>1, <1>2 DEF nextAvailableIP

-----------------------------------------------------------------------------
(* Types *)

Pcs == CreatePcs \cup RevokePcs \cup RotatePcs
Answers == {"unknown", "up", "down"}

\* A rotation about to store its key has drawn it.
NewKeyDrawn == \A r \in Requests : At(r, "rotateUpdate") => req[r].new \in Keys

TypeInv == TypeOK /\ NewKeyDrawn

\* The fields of a request in flight.
LEMMA RequestFields ==
  ASSUME TypeOK, NEW r \in Requests, req[r] # Idle
  PROVE  /\ req[r] \in Request
         /\ req[r].pc \in Pcs
         /\ req[r].dev \in Devices
         /\ req[r].old \in Keys \cup {NoKey}
         /\ req[r].new \in Keys \cup {NoKey}
         /\ req[r].ip \in Ips \cup {0}
  BY DEF TypeOK, Request, Pcs

\* An idle goroutine is at none of the program points.
LEMMA BusyAt ==
  ASSUME NEW r, NEW pc \in Pcs, At(r, pc)
  PROVE  req[r] # Idle
  BY DEF At, Idle, Pcs, CreatePcs, RevokePcs, RotatePcs

\* A step that gives one goroutine a request, or none, keeps the type of req.
LEMMA BecomesType ==
  ASSUME TypeOK, NEW r \in Requests, NEW q \in Request \cup {Idle}, Becomes(r, q)
  PROVE  /\ req' \in [Requests -> Request \cup {Idle}]
         /\ req'[r] = q
         /\ \A s \in Requests \ {r} : req'[s] = req[s]
  BY DEF TypeOK, Becomes

\* A move to another program point keeps the rest of the request.
LEMMA GotoType ==
  ASSUME TypeOK, NEW r \in Requests, req[r] # Idle, NEW pc \in Pcs, Goto(r, pc)
  PROVE  /\ req' \in [Requests -> Request \cup {Idle}]
         /\ req'[r] = [req[r] EXCEPT !.pc = pc]
         /\ \A s \in Requests \ {r} : req'[s] = req[s]
  <1>1. [req[r] EXCEPT !.pc = pc] \in Request
    BY RequestFields DEF Request, Pcs
  <1> QED BY <1>1, BecomesType DEF Goto

\* A reply leaves the goroutine idle and the client with an answer.
LEMMA ReplyType ==
  ASSUME TypeOK, NEW r \in Requests, req[r] # Idle, NEW answer \in Answers,
         Reply(r, answer)
  PROVE  /\ req' \in [Requests -> Request \cup {Idle}]
         /\ req'[r] = Idle
         /\ \A s \in Requests \ {r} : req'[s] = req[s]
         /\ told' \in [Devices -> Answers]
         /\ told'[req[r].dev] = answer
         /\ \A d \in Devices \ {req[r].dev} : told'[d] = told[d]
  <1>1. Becomes(r, Idle) /\ told' = [told EXCEPT ![req[r].dev] = answer]
    BY DEF Reply
  <1>2. req[r].dev \in Devices /\ told \in [Devices -> Answers]
    BY RequestFields DEF TypeOK, Answers
  <1> QED BY <1>1, <1>2, BecomesType

\* The same for a reply that needs another read.
LEMMA ReplyReadType ==
  ASSUME TypeOK, NEW r \in Requests, req[r] # Idle, NEW answer \in Answers,
         ReplyRead(r, answer)
  PROVE  /\ \/ Reply(r, answer)
            \/ Reply(r, "unknown")
         /\ faults' \in Nat
         /\ req' \in [Requests -> Request \cup {Idle}]
         /\ told' \in [Devices -> Answers]
  <1>1. faults' \in Nat
    BY DEF TypeOK, ReplyRead, Fault
  <1>2. Reply(r, answer) \/ Reply(r, "unknown")
    BY DEF ReplyRead
  <1>3. "unknown" \in Answers
    BY DEF Answers
  <1> QED BY <1>1, <1>2, <1>3, ReplyType

\* Backend calls keep the interface's type, whether they succeed or fail.
LEMMA RouteType ==
  ASSUME TypeOK, NEW k \in Keys \cup {NoKey}, NEW ip
  PROVE  /\ AddPeer(k, ip) \in [Ips -> Keys \cup {NoKey}]
         /\ RemovePeer(k) \in [Ips -> Keys \cup {NoKey}]
  BY DEF TypeOK, AddPeer, RemovePeer

\* The same of the call as a step.
LEMMA CallType ==
  ASSUME TypeOK, NEW effect \in [Ips -> Keys \cup {NoKey}],
         Succeeds(effect) \/ Fails(effect)
  PROVE  route' \in [Ips -> Keys \cup {NoKey}] /\ faults' \in Nat
  BY DEF TypeOK, Succeeds, Fails, Fault

\* One goroutine moves: the others' keys are as drawn as before.
LEMMA NewKeyStep ==
  ASSUME NewKeyDrawn, NEW r \in Requests,
         \A s \in Requests \ {r} : req'[s] = req[s],
         req'[r].pc = "rotateUpdate" => req'[r].new \in Keys
  PROVE  NewKeyDrawn'
  BY DEF NewKeyDrawn, At

\* Every repository call, backend call, reply and crash keeps the types.
LEMMA TypeStep == TypeInv /\ [Next]_vars => TypeInv'
  <1> SUFFICES ASSUME TypeInv, [Next]_vars PROVE TypeInv'
    OBVIOUS
  <1> USE DEF TypeInv
  <1>T. /\ table \in [Devices -> Row \cup {NoRow}]
        /\ route \in [Ips -> Keys \cup {NoKey}]
        /\ handed \subseteq Keys
        /\ issued \in [Devices -> Nat]
        /\ told \in [Devices -> Answers]
        /\ faults \in Nat
    BY DEF TypeOK, Answers
  <1>A. "unknown" \in Answers /\ "up" \in Answers /\ "down" \in Answers
    BY DEF Answers
  <1>P. \A d \in Devices : d \in Registered => table[d] \in Row
    BY <1>T DEF Registered
  <1>F. Fault => faults' \in Nat
    BY <1>T DEF Fault
  <1>1. CASE UNCHANGED vars
    BY <1>1 DEF vars, TypeOK, NewKeyDrawn, At
  <1>2. ASSUME NEW r \in Requests, NEW d \in Devices, NEW pc \in Pcs, pc # "rotateUpdate",
               Start(r, pc, d), issued' \in [Devices -> Nat]
        PROVE  TypeInv'
    <2> DEFINE q == [pc |-> pc, dev |-> d, old |-> NoKey, new |-> NoKey, ip |-> 0]
    <2>1. q \in Request /\ q.pc # "rotateUpdate"
      BY <1>2 DEF Request, Pcs
    <2>2. Becomes(r, q) /\ told' = [told EXCEPT ![d] = "unknown"]
          /\ UNCHANGED <<table, route, handed, faults>>
      BY <1>2 DEF Start
    <2> HIDE DEF q
    <2>3. /\ req' \in [Requests -> Request \cup {Idle}]
          /\ req'[r] = q
          /\ \A s \in Requests \ {r} : req'[s] = req[s]
      BY <2>1, <2>2, BecomesType
    <2>4. NewKeyDrawn'
      BY <2>1, <2>3, NewKeyStep
    <2>5. told' \in [Devices -> Answers]
      BY <2>2, <1>T, <1>A
    <2> QED BY <2>2, <2>3, <2>4, <2>5, <1>T, <1>2 DEF TypeOK, Answers
  <1>3. ASSUME NEW r \in Requests, NEW d \in Devices,
               StartCreate(r, d) \/ StartRevoke(r, d) \/ StartRotate(r, d)
        PROVE  TypeInv'
    <2>1. CASE StartCreate(r, d)
      <3>1. Start(r, "createInsert", d) /\ issued' \in [Devices -> Nat]
        BY <2>1, <1>T DEF StartCreate
      <3> QED BY <3>1, <1>2 DEF Pcs, CreatePcs
    <2>2. CASE StartRevoke(r, d)
      <3>1. Start(r, "revokeRead", d) /\ issued' \in [Devices -> Nat]
        BY <2>2, <1>T DEF StartRevoke
      <3> QED BY <3>1, <1>2 DEF Pcs, RevokePcs
    <2>3. CASE StartRotate(r, d)
      <3>1. Start(r, "rotateRead", d) /\ issued' \in [Devices -> Nat]
        BY <2>3, <1>T DEF StartRotate
      <3> QED BY <3>1, <1>2 DEF Pcs, RotatePcs
    <2> QED BY <1>3, <2>1, <2>2, <2>3
  <1>4. ASSUME NEW r \in Requests, Step(r) PROVE TypeInv'
    <2> USE DEF Pcs, CreatePcs, RevokePcs, RotatePcs
    <2>B. req[r] # Idle
      BY <1>4, BusyAt DEF Step, CreateInsert, CreateRefused, CreateAdd, CreateUndo,
         ReadFails, RevokeRead, RevokeRemove, RevokeUpdate, RotateRead, RotateRemove,
         RotateAdd, RotateUpdate, RotateUndo, RotateRestore
    <2> DEFINE d == req[r].dev
    <2>Q. /\ req[r] \in Request /\ d \in Devices
          /\ req[r].old \in Keys \cup {NoKey}
          /\ req[r].new \in Keys \cup {NoKey}
      BY <2>B, RequestFields
    <2>R. \A answer \in Answers : Reply(r, answer) =>
            /\ req' \in [Requests -> Request \cup {Idle}]
            /\ told' \in [Devices -> Answers]
            /\ NewKeyDrawn'
      <3> SUFFICES ASSUME NEW answer \in Answers, Reply(r, answer)
                   PROVE  /\ req' \in [Requests -> Request \cup {Idle}]
                          /\ told' \in [Devices -> Answers]
                          /\ NewKeyDrawn'
        OBVIOUS
      <3>1. /\ req' \in [Requests -> Request \cup {Idle}]
            /\ req'[r] = Idle
            /\ \A s \in Requests \ {r} : req'[s] = req[s]
            /\ told' \in [Devices -> Answers]
        BY <2>B, ReplyType
      <3> QED BY <3>1, NewKeyStep DEF Idle
    <2>G. \A pc \in Pcs \ {"rotateUpdate"} : Goto(r, pc) =>
            req' \in [Requests -> Request \cup {Idle}] /\ NewKeyDrawn'
      <3> SUFFICES ASSUME NEW pc \in Pcs \ {"rotateUpdate"}, Goto(r, pc)
                   PROVE  req' \in [Requests -> Request \cup {Idle}] /\ NewKeyDrawn'
        OBVIOUS
      <3>1. /\ req' \in [Requests -> Request \cup {Idle}]
            /\ req'[r] = [req[r] EXCEPT !.pc = pc]
            /\ \A s \in Requests \ {r} : req'[s] = req[s]
        BY <2>B, GotoType
      <3>2. req'[r].pc = pc
        BY <3>1, <2>Q DEF Request
      <3> QED BY <3>1, <3>2, NewKeyStep
    <2>C. ASSUME NEW effect \in [Ips -> Keys \cup {NoKey}],
                 Succeeds(effect) \/ Fails(effect)
          PROVE  route' \in [Ips -> Keys \cup {NoKey}] /\ faults' \in Nat
      BY <2>C, CallType
    <2> HIDE DEF d
    <2>1. CASE CreateInsert(r)
      <3>1. nextAvailableIP \in Ips /\ FirstKey(d) \in Keys
        BY <2>1, NextIsFree, <2>Q DEF CreateInsert, FirstKey, Keys
      <3> DEFINE row == [ip |-> nextAvailableIP, key |-> FirstKey(d), active |-> TRUE]
                 q == [req[r] EXCEPT !.pc = "createAdd", !.old = FirstKey(d),
                                     !.ip = nextAvailableIP]
      <3>2. row \in Row
        BY <3>1 DEF Row
      <3>3. q \in Request /\ q.pc = "createAdd"
        BY <3>1, <2>Q DEF Request
      <3>4. Becomes(r, q) /\ table' = [table EXCEPT ![d] = row]
            /\ UNCHANGED <<route, handed, issued, told, faults>>
        BY <2>1 DEF CreateInsert, d
      <3> HIDE DEF row, q
      <3>5. /\ req' \in [Requests -> Request \cup {Idle}]
            /\ req'[r] = q
            /\ \A s \in Requests \ {r} : req'[s] = req[s]
        BY <3>3, <3>4, BecomesType
      <3>6. NewKeyDrawn'
        BY <3>3, <3>5, NewKeyStep
      <3> QED BY <3>2, <3>4, <3>5, <3>6, <1>T DEF TypeOK, Answers
    <2>2. CASE CreateRefused(r)
      <3>1. Reply(r, "unknown") /\ faults' \in Nat
            /\ UNCHANGED <<table, route, handed, issued>>
        BY <2>2, <1>T, <1>F DEF CreateRefused
      <3> QED BY <3>1, <2>R, <1>A, <1>T DEF TypeOK, Answers
    <2>3. CASE CreateAdd(r)
      <3> DEFINE added == AddPeer(req[r].old, req[r].ip)
      <3>1. added \in [Ips -> Keys \cup {NoKey}]
        BY <2>Q, RouteType
      <3>2. /\ \/ Succeeds(added) /\ Reply(r, "up")
               \/ Fails(added) /\ Goto(r, "createUndo") /\ UNCHANGED told
            /\ UNCHANGED <<table, handed, issued>>
        BY <2>3 DEF CreateAdd
      <3> HIDE DEF added
      <3>3. /\ req' \in [Requests -> Request \cup {Idle}]
            /\ told' \in [Devices -> Answers]
            /\ NewKeyDrawn'
        BY <3>2, <2>R, <2>G, <1>A, <1>T
      <3> QED BY <3>1, <3>2, <3>3, <2>C, <1>T DEF TypeOK, Answers
    <2>4. CASE CreateUndo(r)
      <3>1. /\ Reply(r, "unknown") /\ faults' \in Nat
            /\ UNCHANGED <<route, handed, issued>>
            /\ table' = [table EXCEPT ![d] = NoRow] \/ table' = table
        BY <2>4, <1>T, <1>F DEF CreateUndo, d
      <3>2. table' \in [Devices -> Row \cup {NoRow}]
        BY <3>1, <1>T
      <3> QED BY <3>1, <3>2, <2>R, <1>A, <1>T DEF TypeOK, Answers
    <2>5. CASE ReadFails(r)
      BY <2>5, <2>R, <1>A, <1>F, <1>T DEF ReadFails, TypeOK, Answers
    <2>6. ASSUME d \in Registered, NEW pc \in Pcs \ {"rotateUpdate"},
                 Becomes(r, [req[r] EXCEPT !.pc = pc, !.old = table[d].key,
                                           !.ip = table[d].ip])
          PROVE  req' \in [Requests -> Request \cup {Idle}] /\ NewKeyDrawn'
      <3> DEFINE q == [req[r] EXCEPT !.pc = pc, !.old = table[d].key, !.ip = table[d].ip]
      <3>1. table[d].key \in Keys /\ table[d].ip \in Ips
        BY <2>6, <2>Q, <1>P DEF Row
      <3>2. q \in Request /\ q.pc = pc
        BY <3>1, <2>Q DEF Request
      <3> HIDE DEF q
      <3>3. /\ req' \in [Requests -> Request \cup {Idle}]
            /\ req'[r] = q
            /\ \A s \in Requests \ {r} : req'[s] = req[s]
        BY <3>2, <2>6, BecomesType DEF q
      <3> QED BY <3>2, <3>3, NewKeyStep
    <2>7. CASE RevokeRead(r)
      <3>1. /\ UNCHANGED <<table, route, handed, issued, faults>>
            /\ \/ \E answer \in Answers : Reply(r, answer)
               \/ /\ d \in Registered /\ UNCHANGED told
                  /\ Becomes(r, [req[r] EXCEPT !.pc = "revokeRemove",
                                   !.old = table[d].key, !.ip = table[d].ip])
        BY <2>7, <1>A DEF RevokeRead, d
      <3>2. /\ req' \in [Requests -> Request \cup {Idle}]
            /\ told' \in [Devices -> Answers]
            /\ NewKeyDrawn'
        BY <3>1, <2>6, <2>R, <1>T
      <3> QED BY <3>1, <3>2, <1>T DEF TypeOK, Answers
    <2>8. CASE RotateRead(r)
      <3>1. /\ UNCHANGED <<table, route, handed, issued, faults>>
            /\ \/ \E answer \in Answers : Reply(r, answer)
               \/ /\ d \in Registered /\ UNCHANGED told
                  /\ Becomes(r, [req[r] EXCEPT !.pc = "rotateRemove",
                                   !.old = table[d].key, !.ip = table[d].ip])
        BY <2>8, <1>A DEF RotateRead, d
      <3>2. /\ req' \in [Requests -> Request \cup {Idle}]
            /\ told' \in [Devices -> Answers]
            /\ NewKeyDrawn'
        BY <3>1, <2>6, <2>R, <1>T
      <3> QED BY <3>1, <3>2, <1>T DEF TypeOK, Answers
    <2>9. CASE RevokeRemove(r) \/ RotateRemove(r) \/ RotateUndo(r) \/ RotateRestore(r)
      <3>1. PICK effect \in [Ips -> Keys \cup {NoKey}] :
              /\ Succeeds(effect) \/ Fails(effect)
              /\ \/ Reply(r, "unknown")
                 \/ /\ \E pc \in Pcs \ {"rotateUpdate"} : Goto(r, pc)
                    /\ UNCHANGED told
              /\ UNCHANGED <<table, handed, issued>>
        <4>1. /\ RemovePeer(req[r].old) \in [Ips -> Keys \cup {NoKey}]
              /\ RemovePeer(req[r].new) \in [Ips -> Keys \cup {NoKey}]
              /\ AddPeer(req[r].old, req[r].ip) \in [Ips -> Keys \cup {NoKey}]
          BY <2>Q, RouteType
        <4> QED BY <2>9, <4>1 DEF RevokeRemove, RotateRemove, RotateUndo, RotateRestore
      <3>2. /\ req' \in [Requests -> Request \cup {Idle}]
            /\ told' \in [Devices -> Answers]
            /\ NewKeyDrawn'
        BY <3>1, <2>R, <2>G, <1>A, <1>T
      <3> QED BY <3>1, <3>2, <2>C, <1>T DEF TypeOK, Answers
    <2>10. CASE RevokeUpdate(r)
      <3>1. /\ \/ table' = [table EXCEPT ![d].active = FALSE] /\ d \in Registered
               \/ table' = table
            /\ \/ ReplyRead(r, "down")
               \/ Reply(r, "unknown") /\ faults' \in Nat
            /\ UNCHANGED <<route, handed, issued>>
        BY <2>10, <1>T, <1>F DEF RevokeUpdate, d
      <3>2. table' \in [Devices -> Row \cup {NoRow}]
        <4>1. CASE d \in Registered /\ table' = [table EXCEPT ![d].active = FALSE]
          <5>1. [table[d] EXCEPT !.active = FALSE] \in Row
            BY <4>1, <2>Q, <1>P DEF Row
          <5>2. table' = [table EXCEPT ![d] = [table[d] EXCEPT !.active = FALSE]]
            BY <4>1
          <5> QED BY <5>1, <5>2, <1>T
        <4> QED BY <4>1, <3>1, <1>T
      <3>3. /\ \E answer \in Answers : Reply(r, answer)
            /\ faults' \in Nat
        BY <3>1, <1>A, <2>B, ReplyReadType
      <3> QED BY <3>1, <3>2, <3>3, <2>R, <1>T DEF TypeOK, Answers
    <2>11. CASE RotateAdd(r)
      <3> DEFINE k == NextKey(d)
                 added == AddPeer(k, req[r].ip)
                 q == [req[r] EXCEPT !.pc = "rotateUpdate", !.new = k]
      <3>1. k \in Keys
        BY <2>Q, <1>T DEF NextKey, Keys
      <3>2. added \in [Ips -> Keys \cup {NoKey}]
        BY <3>1, RouteType
      <3>3. q \in Request /\ q.new = k
        BY <3>1, <2>Q DEF Request
      <3>4. /\ \/ Succeeds(added) /\ Becomes(r, q)
               \/ Fails(added) /\ Goto(r, "rotateRestore")
            /\ issued' = [issued EXCEPT ![d] = @ + 1]
            /\ UNCHANGED <<table, handed, told>>
        BY <2>11 DEF RotateAdd, d
      <3> HIDE DEF k, added, q
      <3>5. req' \in [Requests -> Request \cup {Idle}] /\ NewKeyDrawn'
        <4>1. CASE Becomes(r, q)
          <5>1. /\ req' \in [Requests -> Request \cup {Idle}]
                /\ req'[r] = q
                /\ \A s \in Requests \ {r} : req'[s] = req[s]
            BY <3>3, <4>1, BecomesType
          <5> QED BY <5>1, <3>1, <3>3, NewKeyStep
        <4> QED BY <4>1, <3>4, <2>G
      <3>6. issued' \in [Devices -> Nat]
        BY <3>4, <1>T, <2>Q
      <3> QED BY <3>2, <3>4, <3>5, <3>6, <2>C, <1>T DEF TypeOK, Answers
    <2>12. CASE RotateUpdate(r)
      <3>1. req[r].new \in Keys
        BY <2>12 DEF RotateUpdate, NewKeyDrawn
      <3>2. /\ \/ /\ d \in Registered
                  /\ table' = [table EXCEPT ![d].key = req[r].new]
                  /\ ReplyRead(r, "up")
               \/ /\ faults' \in Nat /\ UNCHANGED <<table, told>>
                  /\ Goto(r, "rotateUndo")
            /\ UNCHANGED <<route, handed, issued>>
        BY <2>12, <1>T, <1>F DEF RotateUpdate, d
      <3>3. table' \in [Devices -> Row \cup {NoRow}]
        <4>1. CASE d \in Registered /\ table' = [table EXCEPT ![d].key = req[r].new]
          <5>1. table[d] \in Row
            BY <4>1, <2>Q, <1>P
          <5>2. [table[d] EXCEPT !.key = req[r].new] \in Row
            BY <5>1, <3>1 DEF Row
          <5>3. table' = [table EXCEPT ![d] = [table[d] EXCEPT !.key = req[r].new]]
            BY <4>1
          <5> QED BY <5>2, <5>3, <1>T
        <4> QED BY <4>1, <3>2, <1>T
      <3>4. /\ \/ \E answer \in Answers : Reply(r, answer)
               \/ Goto(r, "rotateUndo") /\ UNCHANGED told
            /\ faults' \in Nat
        BY <3>2, <1>A, <2>B, ReplyReadType
      <3>5. /\ req' \in [Requests -> Request \cup {Idle}]
            /\ told' \in [Devices -> Answers]
            /\ NewKeyDrawn'
        BY <3>4, <2>R, <2>G, <1>T
      <3> QED BY <3>2, <3>3, <3>4, <3>5, <1>T DEF TypeOK, Answers
    <2> QED BY <1>4, <2>1, <2>2, <2>3, <2>4, <2>5, <2>7, <2>8, <2>9, <2>10, <2>11, <2>12
            DEF Step
  <1>5. ASSUME NEW d \in Devices, ClientConfig(d) PROVE TypeInv'
    <2>1. handed' \subseteq Keys
      BY <1>5, <1>T, <1>P DEF ClientConfig, Row
    <2> QED BY <1>5, <2>1 DEF ClientConfig, TypeOK, NewKeyDrawn, At
  <1>6. CASE Crash
    <2>1. req' \in [Requests -> Request \cup {Idle}] /\ NewKeyDrawn'
      BY <1>6 DEF Crash, NewKeyDrawn, At, Idle
    <2> QED BY <1>6, <2>1, <1>F DEF Crash, TypeOK
  <1> QED BY <1>1, <1>3, <1>4, <1>5, <1>6 DEF Next

\* The types hold in every reachable state.
LEMMA TypeInvariant == Spec => []TypeInv
  <1>1. Init => TypeInv
    BY DEF Init, TypeInv, TypeOK, NewKeyDrawn, At, Idle
  <1> QED BY <1>1, TypeStep, PTL DEF Spec

\* Whatever interleaves and fails, records keep an address of the range and a
\* key, and the interface only holds keys that were generated.
THEOREM TypeCorrect == Spec => []TypeOK
  BY TypeInvariant, PTL DEF TypeInv

-----------------------------------------------------------------------------
(* One request at a time per device. *)

\* From here on the handler has read the record, or made it, and nobody else
\* changes it.
CurrentPcs == Pcs \ {"createInsert", "revokeRead", "rotateRead"}

\* Here the old key has been taken off the interface.
RetiredPcs == {"revokeUpdate", "rotateAdd", "rotateUpdate", "rotateUndo"}

\* What a request in flight relies on, about the device it names.
ReqInv(r) ==
  LET q == req[r]
      d == req[r].dev
  IN
  req[r] # Idle =>
    /\ told[d] = "unknown"
    /\ q.pc \in CreatePcs => issued[d] # 0 /\ \A k \in handed : k.dev # d
    /\ q.pc = "createInsert" =>
         d \notin Registered /\ \A a \in Ips : route[a] \in Keys => route[a].dev # d
    /\ q.pc \in CurrentPcs =>
         table[d] = [ip |-> q.ip, key |-> q.old, active |-> TRUE]
    /\ q.pc \in RetiredPcs => \A a \in Ips : route[a] # q.old
    /\ q.pc \in {"rotateUpdate", "rotateUndo"} =>
         /\ q.new \in Keys /\ q.new.dev = d /\ q.new.n <= issued[d]
         /\ q.new # q.old /\ q.new \notin handed
         /\ \A a \in Ips : route[a] = q.new => a = q.ip
    /\ q.pc = "rotateUpdate" => route[q.ip] = q.new

\* What holds of a device's keys: those around were issued for it, its current
\* key is routed at its address only, and what clients hold is current.
KeysInv(d) ==
  /\ \A k \in handed : k.dev = d => k.n <= issued[d]
  /\ \A a \in Ips : (route[a] \in Keys /\ route[a].dev = d) => route[a].n <= issued[d]
  /\ d \in Registered =>
       /\ table[d].key.dev = d /\ table[d].key.n <= issued[d]
       /\ \A a \in Ips : route[a] = table[d].key => a = table[d].ip
  /\ \A k \in handed, a \in Ips :
       (k.dev = d /\ route[a] = k) =>
         d \in Registered /\ table[d] = [ip |-> a, key |-> k, active |-> TRUE]

\* What its clients were told of it is so.
ToldInv(d) ==
  /\ told[d] = "up" =>
       d \in Registered /\ table[d].active /\ route[table[d].ip] = table[d].key
  /\ told[d] = "down" => d \in Registered /\ ~table[d].active

DevInv(d) == KeysInv(d) /\ ToldInv(d)

\* One request names a device.
Serial ==
  \A r, s \in Requests :
    (req[r] # Idle /\ req[s] # Idle /\ req[r].dev = req[s].dev) => r = s

\* Records do not share an address.
AddressesDiffer ==
  \A d, e \in Registered : table[d].ip = table[e].ip => d = e

ProvInv ==
  /\ Serial
  /\ AddressesDiffer
  /\ \A r \in Requests : ReqInv(r)
  /\ \A d \in Devices : DevInv(d)

-----------------------------------------------------------------------------
(* What a step for one device leaves alone *)

\* A step of request r touches the record, counter and answer of device d only,
\* and of the interface only d's address and keys.
Footprint(r, d) ==
  /\ \A s \in Requests \ {r} : req'[s] = req[s]
  /\ req'[r] = Idle \/ req'[r].dev = d
  /\ \A e \in Devices \ {d} :
       table'[e] = table[e] /\ issued'[e] = issued[e] /\ told'[e] = told[e]
  /\ handed' = handed
  /\ \A a \in Ips :
       \/ route'[a] = route[a]
       \/ /\ \/ route[a] \in Keys /\ route[a].dev = d
             \/ d \in Registered /\ a = table[d].ip
          /\ route'[a] = NoKey \/ (route'[a] \in Keys /\ route'[a].dev = d)

\* A key is a record of a device and a positive number; NoKey is not one.
LEMMA KeyFields ==
  /\ NoKey \notin Keys
  /\ \A k \in Keys : k.dev \in Devices /\ k.n \in Nat /\ k.n >= 1
  <1>1. \A k \in Keys : k.dev \in Devices /\ k.n \in Nat /\ k.n >= 1
    BY DEF Keys
  <1>2. ASSUME NoKey \in Keys PROVE FALSE
    <2>1. DOMAIN NoKey = {"dev", "n"}
      BY <1>2 DEF Keys
    <2>2. DOMAIN NoKey = {"dev"}
      BY DEF NoKey
    <2> QED BY <2>1, <2>2
  <1> QED BY <1>1, <1>2

\* A row is its three fields; NoRow is not one.
LEMMA RowFields ==
  ASSUME NEW w \in Row
  PROVE  /\ w = [ip |-> w.ip, key |-> w.key, active |-> w.active]
         /\ w.ip \in Ips /\ w.key \in Keys /\ w.active \in BOOLEAN
         /\ w # NoRow
  <1>1. w = [ip |-> w.ip, key |-> w.key, active |-> w.active]
        /\ w.ip \in Ips /\ w.key \in Keys /\ w.active \in BOOLEAN
    BY DEF Row
  <1>2. w # NoRow
    <2> SUFFICES ASSUME w = NoRow PROVE FALSE
      OBVIOUS
    <2>1. DOMAIN w = {"ip", "key", "active"}
      BY DEF Row
    <2>2. DOMAIN w = {"ip"}
      BY DEF NoRow
    <2> QED BY <2>1, <2>2
  <1> QED BY <1>1, <1>2

\* So it keeps what holds of the other devices and what their requests rely on.
LEMMA OthersKeep ==
  ASSUME TypeInv, TypeInv', ProvInv, NEW r \in Requests, NEW d \in Devices,
         \A s \in Requests \ {r} : req[s] # Idle => req[s].dev # d,
         Footprint(r, d)
  PROVE  /\ Serial'
         /\ \A e \in Devices \ {d} : DevInv(e)'
         /\ \A s \in Requests \ {r} : ReqInv(s)'
  <1>K. /\ NoKey \notin Keys
        /\ \A k \in Keys : k.dev \in Devices /\ k.n \in Nat /\ k.n >= 1
    BY KeyFields
  <1>T. /\ \A a \in Ips : route[a] \in Keys \cup {NoKey}
        /\ \A a \in Ips : route'[a] \in Keys \cup {NoKey}
        /\ handed \subseteq Keys
        /\ \A e \in Registered : table[e] \in Row
        /\ \A e \in Registered : table[e].ip \in Ips /\ table[e].key \in Keys
    BY RowFields DEF TypeInv, TypeOK, Registered
  <1>S. Serial'
    BY DEF ProvInv, Serial, Footprint
  <1>G. \A e \in Devices \ {d} : (e \in Registered)' <=> e \in Registered
    BY DEF Registered, Footprint
  <1>1. ASSUME NEW e \in Devices \ {d} PROVE DevInv(e)'
    <2>1. DevInv(e)
      BY DEF ProvInv
    <2>2. table'[e] = table[e] /\ issued'[e] = issued[e] /\ told'[e] = told[e]
          /\ handed' = handed
      BY DEF Footprint
    <2>3. \A a \in Ips : (route'[a] \in Keys /\ route'[a].dev = e) => route'[a] = route[a]
      BY <1>K DEF Footprint
    <2>4. \A a \in Ips : (route[a] \in Keys /\ route[a].dev = e) =>
            route'[a] = route[a] \/ (d \in Registered /\ a = table[d].ip)
      BY DEF Footprint
    <2>5. (\A k \in handed : k.dev = e => k.n <= issued[e])'
      BY <2>1, <2>2 DEF DevInv, KeysInv
    <2>6. (\A a \in Ips : (route[a] \in Keys /\ route[a].dev = e) => route[a].n <= issued[e])'
      BY <2>1, <2>2, <2>3 DEF DevInv, KeysInv
    <2>7. (e \in Registered =>
            /\ table[e].key.dev = e /\ table[e].key.n <= issued[e]
            /\ \A a \in Ips : route[a] = table[e].key => a = table[e].ip)'
      BY <2>1, <2>2, <2>3, <1>T, <1>G DEF DevInv, KeysInv
    <2>8. (\A k \in handed, a \in Ips : (k.dev = e /\ route[a] = k) =>
            e \in Registered /\ table[e] = [ip |-> a, key |-> k, active |-> TRUE])'
      BY <2>1, <2>2, <2>3, <1>T, <1>G DEF DevInv, KeysInv
    <2>9. (told[e] = "up" =>
            e \in Registered /\ table[e].active /\ route[table[e].ip] = table[e].key)'
      BY <2>1, <2>2, <2>4, <1>T, <1>G DEF DevInv, KeysInv, ToldInv,
         ProvInv, AddressesDiffer
    <2>10. (told[e] = "down" => e \in Registered /\ ~table[e].active)'
      BY <2>1, <2>2, <1>G DEF DevInv, ToldInv
    <2> QED BY <2>5, <2>6, <2>7, <2>8, <2>9, <2>10 DEF DevInv, KeysInv, ToldInv
  <1>2. ASSUME NEW s \in Requests \ {r} PROVE ReqInv(s)'
    <2> SUFFICES ASSUME req[s] # Idle PROVE ReqInv(s)'
      BY DEF Footprint, ReqInv
    <2> DEFINE e == req[s].dev
               q == req[s]
    <2>1. ReqInv(s) /\ e \in Devices \ {d} /\ DevInv(e)
      BY RequestFields DEF ProvInv, TypeInv
    <2>2. req'[s] = q /\ table'[e] = table[e] /\ issued'[e] = issued[e]
          /\ told'[e] = told[e] /\ handed' = handed
      BY <2>1 DEF Footprint
    <2>3. \A a \in Ips : (route'[a] \in Keys /\ route'[a].dev = e) => route'[a] = route[a]
      BY <2>1, <1>K DEF Footprint
    <2>4. \A a \in Ips : (route[a] \in Keys /\ route[a].dev = e) =>
            route'[a] = route[a] \/ (d \in Registered /\ a = table[d].ip)
      BY <2>1 DEF Footprint
    <2>5. q.pc \in CurrentPcs =>
            /\ e \in Registered /\ q.old \in Keys /\ q.old.dev = e
            /\ q.ip = table[e].ip /\ q.ip \in Ips
      <3> SUFFICES ASSUME q.pc \in CurrentPcs
                   PROVE  /\ e \in Registered /\ q.old \in Keys /\ q.old.dev = e
                          /\ q.ip = table[e].ip /\ q.ip \in Ips
        OBVIOUS
      <3>1. table[e] = [ip |-> q.ip, key |-> q.old, active |-> TRUE]
        BY <2>1 DEF ReqInv
      <3>2. table[e] # NoRow
        <4>1. DOMAIN table[e] = {"ip", "key", "active"}
          BY <3>1
        <4>2. DOMAIN NoRow = {"ip"}
          BY DEF NoRow
        <4> QED BY <4>1, <4>2
      <3>3. e \in Registered
        BY <2>1, <3>2 DEF Registered
      <3>4. table[e].key = q.old /\ table[e].ip = q.ip
        BY <3>1
      <3> HIDE DEF e, q
      <3> QED BY <3>3, <3>4, <2>1, <1>T DEF DevInv, KeysInv
    <2>6. \A pc \in RetiredPcs : pc \in CurrentPcs
      BY DEF RetiredPcs, CurrentPcs, Pcs, CreatePcs, RevokePcs, RotatePcs
    <2> HIDE DEF e, q
    <2>I. /\ told[e] = "unknown"
          /\ q.pc \in CreatePcs => issued[e] # 0 /\ \A k \in handed : k.dev # e
          /\ q.pc = "createInsert" =>
               e \notin Registered /\ \A a \in Ips : route[a] \in Keys => route[a].dev # e
          /\ q.pc \in CurrentPcs =>
               table[e] = [ip |-> q.ip, key |-> q.old, active |-> TRUE]
          /\ q.pc \in RetiredPcs => \A a \in Ips : route[a] # q.old
          /\ q.pc \in {"rotateUpdate", "rotateUndo"} =>
               /\ q.new \in Keys /\ q.new.dev = e /\ q.new.n <= issued[e]
               /\ q.new # q.old /\ q.new \notin handed
               /\ \A a \in Ips : route[a] = q.new => a = q.ip
          /\ q.pc = "rotateUpdate" => route[q.ip] = q.new
      BY <2>1 DEF ReqInv, e, q
    <2>7. q.pc = "createInsert" =>
            \A a \in Ips : route'[a] \in Keys => route'[a].dev # e
      BY <2>I, <2>3
    <2>8. q.pc \in RetiredPcs => \A a \in Ips : route'[a] # q.old
      BY <2>I, <2>3, <2>5, <2>6
    <2>9. q.pc \in {"rotateUpdate", "rotateUndo"} =>
            \A a \in Ips : route'[a] = q.new => a = q.ip
      BY <2>I, <2>3
    <2>10. q.pc = "rotateUpdate" => route'[q.ip] = q.new
      <3> SUFFICES ASSUME q.pc = "rotateUpdate" PROVE route'[q.ip] = q.new
        OBVIOUS
      <3>1. q.pc \in CurrentPcs
        BY DEF CurrentPcs, Pcs, RotatePcs
      <3>2. ~ (d \in Registered /\ q.ip = table[d].ip)
        BY <3>1, <2>1, <2>5 DEF ProvInv, AddressesDiffer
      <3> QED BY <3>1, <3>2, <2>4, <2>5, <2>I
    <2>11. e \in Registered' <=> e \in Registered
      BY <2>1, <2>2 DEF Registered
    <2>12. (req'[s]).dev = e
      BY <2>2 DEF e, q
    <2> QED BY <2>I, <2>2, <2>7, <2>8, <2>9, <2>10, <2>11, <2>12 DEF ReqInv
  <1> QED BY <1>S, <1>1, <1>2

-----------------------------------------------------------------------------
(* What a step does to its own device *)

\* The interface after a call is as before or as the call asks.
LEMMA CallRoute ==
  ASSUME NEW effect, Succeeds(effect) \/ Fails(effect)
  PROVE  route' = route \/ route' = effect
  BY DEF Succeeds, Fails

\* A device in the hands of a request that has read or made its record.
LEMMA OwnDevice ==
  ASSUME TypeInv, ProvInv, NEW r \in Requests, NEW d \in Devices,
         req[r] # Idle, req[r].dev = d
  PROVE  /\ KeysInv(d)
         /\ told[d] = "unknown"
         /\ req[r].pc \in CreatePcs => issued[d] # 0 /\ \A k \in handed : k.dev # d
         /\ req[r].pc = "createInsert" =>
              d \notin Registered /\ \A a \in Ips : route[a] \in Keys => route[a].dev # d
         /\ req[r].pc \in CurrentPcs =>
              /\ d \in Registered
              /\ table[d] = [ip |-> req[r].ip, key |-> req[r].old, active |-> TRUE]
              /\ table[d].ip = req[r].ip /\ table[d].key = req[r].old /\ table[d].active
              /\ req[r].ip \in Ips /\ req[r].old \in Keys /\ req[r].old.dev = d
         /\ req[r].pc \in RetiredPcs => \A a \in Ips : route[a] # req[r].old
         /\ req[r].pc \in {"rotateUpdate", "rotateUndo"} =>
              /\ req[r].new \in Keys /\ req[r].new.dev = d /\ req[r].new.n <= issued[d]
              /\ req[r].new # req[r].old /\ req[r].new \notin handed
              /\ \A a \in Ips : route[a] = req[r].new => a = req[r].ip
         /\ req[r].pc = "rotateUpdate" => route[req[r].ip] = req[r].new
  <1>1. ReqInv(r) /\ KeysInv(d)
    BY DEF ProvInv, DevInv
  <1>2. ASSUME req[r].pc \in CurrentPcs
        PROVE  /\ d \in Registered
               /\ table[d] = [ip |-> req[r].ip, key |-> req[r].old, active |-> TRUE]
               /\ table[d].ip = req[r].ip /\ table[d].key = req[r].old /\ table[d].active
               /\ req[r].ip \in Ips /\ req[r].old \in Keys /\ req[r].old.dev = d
    <2>1. table[d] = [ip |-> req[r].ip, key |-> req[r].old, active |-> TRUE]
      BY <1>1, <1>2 DEF ReqInv
    <2>2. table[d].ip = req[r].ip /\ table[d].key = req[r].old /\ table[d].active
      BY <2>1
    <2>3. table[d] # NoRow
      <3>1. DOMAIN table[d] = {"ip", "key", "active"}
        BY <2>1
      <3>2. DOMAIN NoRow = {"ip"}
        BY DEF NoRow
      <3> QED BY <3>1, <3>2
    <2>4. d \in Registered /\ table[d] \in Row
      BY <2>3 DEF Registered, TypeInv, TypeOK
    <2>5. table[d].ip \in Ips /\ table[d].key \in Keys
      BY <2>4, RowFields
    <2>6. table[d].key.dev = d
      BY <1>1, <2>4 DEF KeysInv
    <2> QED BY <2>1, <2>2, <2>4, <2>5, <2>6
  <1> QED BY <1>1, <1>2 DEF ReqInv

\* The record stays, a peer's traffic stops, comes back at the record's address,
\* or goes to a key that nobody holds: the keys stay in order.
LEMMA KeysKeep ==
  ASSUME TypeInv, NEW d \in Devices, KeysInv(d),
         table'[d] = table[d], handed' = handed,
         issued[d] <= issued'[d], issued'[d] \in Nat,
         \A a \in Ips :
           \/ route'[a] = route[a] \/ route'[a] = NoKey
           \/ /\ d \in Registered /\ table[d].active
              /\ route'[a] = table[d].key /\ a = table[d].ip
           \/ /\ route'[a] \in Keys /\ route'[a] \notin handed
              /\ route'[a].n <= issued'[d]
              /\ d \in Registered => route'[a] # table[d].key
  PROVE  KeysInv(d)'
  <1>K. /\ NoKey \notin Keys
        /\ \A k \in Keys : k.dev \in Devices /\ k.n \in Nat /\ k.n >= 1
    BY KeyFields
  <1>T. /\ handed \subseteq Keys /\ issued[d] \in Nat
        /\ d \in Registered => table[d] \in Row
    BY DEF TypeInv, TypeOK, Registered
  <1>W. d \in Registered =>
          /\ table[d] = [ip |-> table[d].ip, key |-> table[d].key, active |-> table[d].active]
          /\ table[d].key \in Keys /\ table[d].active \in BOOLEAN
    BY <1>T, RowFields
  <1>G. d \in Registered' <=> d \in Registered
    BY DEF Registered
  <1>1. (\A k \in handed : k.dev = d => k.n <= issued[d])'
    BY <1>K, <1>T DEF KeysInv
  <1>2. (\A a \in Ips : (route[a] \in Keys /\ route[a].dev = d) => route[a].n <= issued[d])'
    BY <1>K, <1>T, <1>W DEF KeysInv
  <1>3. (d \in Registered =>
          /\ table[d].key.dev = d /\ table[d].key.n <= issued[d]
          /\ \A a \in Ips : route[a] = table[d].key => a = table[d].ip)'
    BY <1>K, <1>T, <1>W, <1>G DEF KeysInv
  <1>4. (\A k \in handed, a \in Ips : (k.dev = d /\ route[a] = k) =>
          d \in Registered /\ table[d] = [ip |-> a, key |-> k, active |-> TRUE])'
    BY <1>K, <1>T, <1>W, <1>G DEF KeysInv
  <1> QED BY <1>1, <1>2, <1>3, <1>4 DEF KeysInv

\* No record changes its address: they differ as before.
LEMMA AddressesKeep ==
  ASSUME AddressesDiffer, NEW d \in Devices,
         \A e \in Devices \ {d} : table'[e] = table[e],
         \/ table'[d] = NoRow
         \/ d \in Registered /\ table'[d].ip = table[d].ip
         \/ table'[d] = table[d]
  PROVE  AddressesDiffer'
  BY DEF AddressesDiffer, Registered

\* A backend call for one of d's keys, at d's address, disturbs no other.
LEMMA CallFootprint ==
  ASSUME NEW d \in Devices, d \in Registered, NEW k \in Keys, k.dev = d,
         \/ route' = route
         \/ route' = RemovePeer(k)
         \/ route' = AddPeer(k, table[d].ip)
  PROVE  \A a \in Ips :
           \/ route'[a] = route[a]
           \/ /\ \/ route[a] \in Keys /\ route[a].dev = d
                 \/ d \in Registered /\ a = table[d].ip
              /\ route'[a] = NoKey \/ (route'[a] \in Keys /\ route'[a].dev = d)
  BY DEF RemovePeer, AddPeer

\* What a step leaves behind for its own device, and for the others.
Keeps(r, d) ==
  /\ Footprint(r, d)
  /\ AddressesDiffer'
  /\ DevInv(d)'
  /\ ReqInv(r)'

\* The record, the counter and the interface are as they were: a failed read, a
\* refused create, or a revocation of what is revoked.
LEMMA QuietReplyKeeps ==
  ASSUME TypeInv, ProvInv, NEW r \in Requests, NEW d \in Devices,
         req[r] # Idle, req[r].dev = d, NEW answer \in {"unknown", "down"},
         Reply(r, answer), UNCHANGED <<table, route, handed, issued>>,
         answer = "down" => d \in Registered /\ ~table[d].active
  PROVE  Keeps(r, d)
  <1>1. /\ req'[r] = Idle
        /\ \A s \in Requests \ {r} : req'[s] = req[s]
        /\ told'[d] = answer
        /\ \A e \in Devices \ {d} : told'[e] = told[e]
    <2>1. answer \in Answers
      BY DEF Answers
    <2> QED BY <2>1, ReplyType DEF TypeInv
  <1>2. Footprint(r, d)
    BY <1>1 DEF Footprint
  <1>3. AddressesDiffer'
    BY DEF ProvInv, AddressesDiffer, Registered
  <1>4. KeysInv(d)'
    BY DEF ProvInv, DevInv, KeysInv, Registered
  <1>5. ToldInv(d)'
    BY <1>1 DEF ToldInv, Registered
  <1>6. ReqInv(r)'
    BY <1>1 DEF ReqInv
  <1> QED BY <1>2, <1>3, <1>4, <1>5, <1>6 DEF Keeps, DevInv

\* Creating a record, adding its peer, and undoing it.
LEMMA CreateKeeps ==
  ASSUME TypeInv, ProvInv, NEW r \in Requests, NEW d \in Devices, req[r].dev = d,
         CreateInsert(r) \/ CreateRefused(r) \/ CreateAdd(r) \/ CreateUndo(r)
  PROVE  Keeps(r, d)
  <1> USE DEF Pcs, CreatePcs
  <1>B. req[r] # Idle /\ req[r].pc \in CreatePcs
    BY BusyAt DEF CreateInsert, CreateRefused, CreateAdd, CreateUndo, At
  <1>K. /\ NoKey \notin Keys
        /\ \A k \in Keys : k.dev \in Devices /\ k.n \in Nat /\ k.n >= 1
    BY KeyFields
  <1>T. /\ req[r] \in Request
        /\ table \in [Devices -> Row \cup {NoRow}]
        /\ route \in [Ips -> Keys \cup {NoKey}]
        /\ handed \subseteq Keys /\ issued[d] \in Nat
    BY <1>B, RequestFields DEF TypeInv, TypeOK
  <1>O. /\ KeysInv(d) /\ told[d] = "unknown"
        /\ issued[d] # 0 /\ \A k \in handed : k.dev # d
        /\ req[r].pc = "createInsert" =>
             d \notin Registered /\ \A a \in Ips : route[a] \in Keys => route[a].dev # d
        /\ req[r].pc \in CurrentPcs =>
             /\ d \in Registered
             /\ table[d] = [ip |-> req[r].ip, key |-> req[r].old, active |-> TRUE]
             /\ table[d].ip = req[r].ip /\ table[d].key = req[r].old /\ table[d].active
             /\ req[r].ip \in Ips /\ req[r].old \in Keys /\ req[r].old.dev = d
    BY <1>B, OwnDevice
  <1>1. CASE CreateInsert(r)
    <2> DEFINE a0 == nextAvailableIP
               k0 == FirstKey(d)
               row == [ip |-> a0, key |-> k0, active |-> TRUE]
               q == [req[r] EXCEPT !.pc = "createAdd", !.old = k0, !.ip = a0]
    <2>1. a0 \in FreeIps /\ a0 \in Ips /\ k0 \in Keys /\ k0.dev = d /\ k0.n = 1
      BY <1>1, NextIsFree DEF CreateInsert, FirstKey, Keys
    <2>2. row \in Row /\ row # NoRow
      <3>1. row \in Row
        BY <2>1 DEF Row
      <3> HIDE DEF row
      <3> QED BY <3>1, RowFields
    <2>3. q \in Request /\ q.pc = "createAdd" /\ q.dev = d /\ q.old = k0 /\ q.ip = a0
      BY <2>1, <1>T DEF Request
    <2>4. Becomes(r, q) /\ table' = [table EXCEPT ![d] = row]
          /\ UNCHANGED <<route, handed, issued, told, faults>> /\ req[r].pc = "createInsert"
      BY <1>1 DEF CreateInsert, At
    <2>5. row.ip = a0 /\ row.key = k0 /\ row.active = TRUE
      OBVIOUS
    <2>6. row = [ip |-> a0, key |-> k0, active |-> TRUE]
      OBVIOUS
    <2> HIDE DEF row, q, a0, k0
    <2>7. req'[r] = q /\ \A s \in Requests \ {r} : req'[s] = req[s]
      BY <2>3, <2>4, BecomesType DEF TypeInv
    <2>8. table'[d] = row /\ \A e \in Devices \ {d} : table'[e] = table[e]
      BY <2>4, <1>T
    <2>9. d \notin Registered /\ \A a \in Ips : route[a] \in Keys => route[a].dev # d
      BY <2>4, <1>O
    <2>10. d \in Registered'
      BY <2>2, <2>8 DEF Registered
    <2>11. Footprint(r, d)
      BY <2>3, <2>4, <2>7, <2>8 DEF Footprint
    <2>12. AddressesDiffer'
      <3>1. \A e \in Registered : table[e].ip # a0
        BY <2>1 DEF FreeIps
      <3> QED BY <3>1, <2>5, <2>8 DEF ProvInv, AddressesDiffer, Registered
    <2>13. KeysInv(d)'
      <3>1. k0.n <= issued[d]
        BY <2>1, <1>O, <1>T
      <3> QED BY <3>1, <2>1, <2>4, <2>5, <2>8, <2>9, <2>10, <1>O DEF KeysInv
    <2>14. ToldInv(d)'
      BY <2>4, <1>O DEF ToldInv
    <2>15. ReqInv(r)'
      <3>1. q.pc \notin RetiredPcs /\ q.pc \notin {"rotateUpdate", "rotateUndo", "createInsert"}
        BY <2>3 DEF RetiredPcs
      <3> QED BY <3>1, <2>3, <2>4, <2>6, <2>7, <2>8, <1>O DEF ReqInv
    <2> QED BY <2>11, <2>12, <2>13, <2>14, <2>15 DEF Keeps, DevInv
  <1>2. CASE CreateRefused(r)
    BY <1>2, <1>B, QuietReplyKeeps DEF CreateRefused
  <1>3. CASE CreateAdd(r)
    <2> DEFINE added == AddPeer(req[r].old, req[r].ip)
    <2>1. req[r].pc = "createAdd" /\ req[r].pc \in CurrentPcs
      BY <1>3 DEF CreateAdd, At, CurrentPcs
    <2>2. /\ \/ route' = added /\ Reply(r, "up")
             \/ (route' = route \/ route' = added) /\ Goto(r, "createUndo") /\ UNCHANGED told
          /\ UNCHANGED <<table, handed, issued>>
      BY <1>3, CallRoute DEF CreateAdd, Succeeds, Fails
    <2>3. /\ \A s \in Requests \ {r} : req'[s] = req[s]
          /\ \A e \in Devices \ {d} : told'[e] = told[e]
          /\ \/ req'[r] = Idle /\ told'[d] = "up" /\ route' = added
             \/ req'[r] = [req[r] EXCEPT !.pc = "createUndo"] /\ told'[d] = told[d]
      BY <2>2, <1>B, ReplyType, GotoType DEF TypeInv, Answers
    <2>4. Footprint(r, d)
      <3>1. req'[r] = Idle \/ req'[r].dev = d
        BY <2>3, <1>T DEF Request
      <3> QED BY <3>1, <2>1, <2>2, <2>3, <1>O, CallFootprint DEF Footprint
    <2>5. AddressesDiffer'
      BY <2>2, AddressesKeep DEF ProvInv
    <2>6. KeysInv(d)'
      <3>1. \A a \in Ips : \/ route'[a] = route[a] \/ route'[a] = NoKey
                           \/ route'[a] = table[d].key /\ a = table[d].ip
        BY <2>1, <2>2, <1>O DEF AddPeer
      <3> QED BY <3>1, <2>1, <2>2, <1>O, <1>T, KeysKeep
    <2>7. ToldInv(d)'
      <3>1. CASE told'[d] = "up" /\ route' = added
        BY <3>1, <2>1, <2>2, <1>O DEF ToldInv, AddPeer, Registered
      <3> QED BY <3>1, <2>3, <1>O DEF ToldInv
    <2>8. ReqInv(r)'
      <3>1. CASE req'[r] = Idle
        BY <3>1 DEF ReqInv
      <3>2. CASE req'[r] = [req[r] EXCEPT !.pc = "createUndo"] /\ told'[d] = told[d]
        <4> DEFINE q == [req[r] EXCEPT !.pc = "createUndo"]
        <4>1. q.pc = "createUndo" /\ q.dev = d /\ q.old = req[r].old /\ q.ip = req[r].ip
          BY <1>T DEF Request
        <4>2. q.pc \notin RetiredPcs /\ q.pc \notin {"rotateUpdate", "rotateUndo", "createInsert"}
          BY <4>1 DEF RetiredPcs
        <4> HIDE DEF q
        <4>3. req'[r] = q
          BY <3>2 DEF q
        <4> QED BY <4>1, <4>2, <4>3, <3>2, <2>1, <2>2, <1>O DEF ReqInv
      <3> QED BY <3>1, <3>2, <2>3
    <2> QED BY <2>4, <2>5, <2>6, <2>7, <2>8 DEF Keeps, DevInv
  <1>4. CASE CreateUndo(r)
    <2>1. /\ table' = [table EXCEPT ![d] = NoRow] \/ table' = table
          /\ Reply(r, "unknown") /\ UNCHANGED <<route, handed, issued>>
      BY <1>4 DEF CreateUndo
    <2>2. /\ req'[r] = Idle
          /\ \A s \in Requests \ {r} : req'[s] = req[s]
          /\ told'[d] = "unknown"
          /\ \A e \in Devices \ {d} : told'[e] = told[e]
      BY <2>1, <1>B, ReplyType DEF TypeInv, Answers
    <2>3. /\ \A e \in Devices \ {d} : table'[e] = table[e]
          /\ table'[d] = NoRow \/ table'[d] = table[d]
      BY <2>1, <1>T
    <2>4. Footprint(r, d)
      BY <2>1, <2>2, <2>3 DEF Footprint
    <2>5. AddressesDiffer'
      BY <2>3, AddressesKeep DEF ProvInv
    <2>6. KeysInv(d)'
      BY <2>1, <2>3, <1>O DEF KeysInv, Registered
    <2>7. ToldInv(d)'
      BY <2>2 DEF ToldInv
    <2>8. ReqInv(r)'
      BY <2>2 DEF ReqInv
    <2> QED BY <2>4, <2>5, <2>6, <2>7, <2>8 DEF Keeps, DevInv
  <1> QED BY <1>1, <1>2, <1>3, <1>4

\* A request that has read the active record relies on nothing else yet.
LEMMA ReadKeeps ==
  ASSUME TypeInv, ProvInv, NEW r \in Requests, NEW d \in Devices,
         req[r] # Idle, req[r].dev = d, d \in Registered, table[d].active,
         NEW pc \in {"revokeRemove", "rotateRemove"},
         Becomes(r, [req[r] EXCEPT !.pc = pc, !.old = table[d].key, !.ip = table[d].ip]),
         UNCHANGED <<table, route, handed, issued, told>>
  PROVE  Keeps(r, d)
  <1> DEFINE q == [req[r] EXCEPT !.pc = pc, !.old = table[d].key, !.ip = table[d].ip]
  <1>1. /\ table[d] \in Row
        /\ table[d].key \in Keys /\ table[d].ip \in Ips /\ table[d].active \in BOOLEAN
        /\ table[d] = [ip |-> table[d].ip, key |-> table[d].key, active |-> table[d].active]
    <2>1. table[d] \in Row
      BY DEF TypeInv, TypeOK, Registered
    <2> QED BY <2>1, RowFields
  <1>2. req[r] \in Request
    BY RequestFields DEF TypeInv
  <1>3. /\ q \in Request /\ q.pc = pc /\ q.dev = d
        /\ q.old = table[d].key /\ q.ip = table[d].ip
    BY <1>1, <1>2 DEF Request, Pcs, CreatePcs, RevokePcs, RotatePcs
  <1> HIDE DEF q
  <1>4. req'[r] = q /\ \A s \in Requests \ {r} : req'[s] = req[s]
    BY <1>3, BecomesType DEF TypeInv, q
  <1>5. Footprint(r, d)
    BY <1>3, <1>4 DEF Footprint
  <1>6. AddressesDiffer' /\ DevInv(d)'
    BY DEF ProvInv, AddressesDiffer, DevInv, KeysInv, ToldInv, Registered
  <1>7. ReqInv(r)'
    <2>1. told[d] = "unknown"
      BY OwnDevice
    <2>2. /\ q.pc \notin CreatePcs /\ q.pc \notin RetiredPcs
          /\ q.pc \notin {"rotateUpdate", "rotateUndo", "createInsert"}
      BY <1>3 DEF CreatePcs, RetiredPcs
    <2>3. table'[d] = [ip |-> q.ip, key |-> q.old, active |-> TRUE]
      BY <1>1, <1>3
    <2> QED BY <1>3, <1>4, <2>1, <2>2, <2>3 DEF ReqInv
  <1> QED BY <1>5, <1>6, <1>7 DEF Keeps

\* Taking the old key off the interface, in a revocation or a rotation.
LEMMA RemoveKeeps ==
  ASSUME TypeInv, ProvInv, NEW r \in Requests, NEW d \in Devices, req[r].dev = d,
         RevokeRemove(r) \/ RotateRemove(r)
  PROVE  Keeps(r, d)
  <1> USE DEF Pcs, RevokePcs, RotatePcs
  <1> DEFINE removed == RemovePeer(req[r].old)
  <1>B. req[r] # Idle
    BY BusyAt DEF RevokeRemove, RotateRemove
  <1>K. NoKey \notin Keys
    BY KeyFields
  <1>T. /\ req[r] \in Request /\ issued[d] \in Nat
    BY <1>B, RequestFields DEF TypeInv, TypeOK
  <1>1. req[r].pc \in {"revokeRemove", "rotateRemove"} /\ req[r].pc \in CurrentPcs
    BY DEF RevokeRemove, RotateRemove, At, CurrentPcs
  <1>O. /\ KeysInv(d) /\ told[d] = "unknown" /\ d \in Registered
        /\ table[d] = [ip |-> req[r].ip, key |-> req[r].old, active |-> TRUE]
        /\ table[d].ip = req[r].ip /\ table[d].key = req[r].old /\ table[d].active
        /\ req[r].old \in Keys /\ req[r].old.dev = d
    BY <1>1, <1>B, OwnDevice
  <1>2. /\ \/ /\ route' = removed /\ UNCHANGED told
              /\ Goto(r, "revokeUpdate") \/ Goto(r, "rotateAdd")
           \/ (route' = route \/ route' = removed) /\ Reply(r, "unknown")
        /\ UNCHANGED <<table, handed, issued>>
    BY DEF RevokeRemove, RotateRemove, Succeeds, Fails
  <1>3. /\ \A s \in Requests \ {r} : req'[s] = req[s]
        /\ \A e \in Devices \ {d} : told'[e] = told[e]
        /\ told'[d] = "unknown"
        /\ \/ req'[r] = Idle
           \/ /\ route' = removed
              /\ \E pc \in {"revokeUpdate", "rotateAdd"} : req'[r] = [req[r] EXCEPT !.pc = pc]
    BY <1>2, <1>B, <1>O, ReplyType, GotoType DEF TypeInv, Answers
  <1>4. Footprint(r, d)
    <2>1. req'[r] = Idle \/ req'[r].dev = d
      BY <1>3, <1>T DEF Request
    <2> QED BY <2>1, <1>2, <1>3, <1>O, CallFootprint DEF Footprint
  <1>5. AddressesDiffer'
    BY <1>2, AddressesKeep DEF ProvInv
  <1>6. KeysInv(d)'
    <2>1. \A a \in Ips : route'[a] = route[a] \/ route'[a] = NoKey
      BY <1>2 DEF RemovePeer
    <2> QED BY <2>1, <1>2, <1>O, <1>T, KeysKeep
  <1>7. ToldInv(d)'
    BY <1>3 DEF ToldInv
  <1>8. ReqInv(r)'
    <2>1. CASE req'[r] = Idle
      BY <2>1 DEF ReqInv
    <2>2. ASSUME NEW pc \in {"revokeUpdate", "rotateAdd"}, req'[r] = [req[r] EXCEPT !.pc = pc],
                 route' = removed
          PROVE  ReqInv(r)'
      <3> DEFINE q == [req[r] EXCEPT !.pc = pc]
      <3>1. q.pc = pc /\ q.dev = d /\ q.old = req[r].old /\ q.ip = req[r].ip
        BY <1>T DEF Request
      <3>2. /\ q.pc \notin CreatePcs
            /\ q.pc \notin {"rotateUpdate", "rotateUndo", "createInsert"}
        BY <3>1 DEF CreatePcs
      <3>3. \A a \in Ips : route'[a] # req[r].old
        BY <2>2, <1>K, <1>O DEF RemovePeer
      <3> HIDE DEF q
      <3>4. req'[r] = q
        BY <2>2 DEF q
      <3> QED BY <3>1, <3>2, <3>3, <3>4, <1>2, <1>3, <1>O DEF ReqInv
    <2> QED BY <2>1, <2>2, <1>3
  <1> QED BY <1>4, <1>5, <1>6, <1>7, <1>8 DEF Keeps, DevInv

\* Storing what a revocation or a rotation has done: the old key carries nothing.
LEMMA RevokeUpdateKeeps ==
  ASSUME TypeInv, ProvInv, NEW r \in Requests, NEW d \in Devices, req[r].dev = d,
         RevokeUpdate(r)
  PROVE  Keeps(r, d)
  <1> USE DEF Pcs, RevokePcs
  <1>B. req[r] # Idle /\ req[r].pc = "revokeUpdate"
    BY BusyAt DEF RevokeUpdate, At
  <1>1. req[r].pc \in CurrentPcs /\ req[r].pc \in RetiredPcs
    BY <1>B DEF CurrentPcs, RetiredPcs
  <1>O. /\ KeysInv(d) /\ told[d] = "unknown" /\ d \in Registered
        /\ table[d] = [ip |-> req[r].ip, key |-> req[r].old, active |-> TRUE]
        /\ table[d].ip = req[r].ip /\ table[d].key = req[r].old
        /\ \A a \in Ips : route[a] # req[r].old
    BY <1>1, <1>B, OwnDevice
  <1>T. table \in [Devices -> Row \cup {NoRow}] /\ handed \subseteq Keys
    BY DEF TypeInv, TypeOK
  <1> DEFINE row == [table[d] EXCEPT !.active = FALSE]
  <1>2. /\ table' = [table EXCEPT ![d].active = FALSE] \/ table' = table
        /\ \/ table' = [table EXCEPT ![d].active = FALSE] /\ Reply(r, "down")
           \/ Reply(r, "unknown")
        /\ UNCHANGED <<route, handed, issued>>
    BY <1>O DEF RevokeUpdate, ReplyRead
  <1>3. /\ req'[r] = Idle
        /\ \A s \in Requests \ {r} : req'[s] = req[s]
        /\ \A e \in Devices \ {d} : told'[e] = told[e]
        /\ \/ told'[d] = "unknown"
           \/ told'[d] = "down" /\ table' = [table EXCEPT ![d].active = FALSE]
    BY <1>2, <1>B, ReplyType DEF TypeInv, Answers
  <1>4. row.ip = req[r].ip /\ row.key = req[r].old /\ ~row.active /\ row # NoRow
    <2>1. table[d] \in Row
      BY <1>O, <1>T DEF Registered
    <2>2. /\ row \in Row /\ row.active = FALSE
          /\ row.ip = table[d].ip /\ row.key = table[d].key
      BY <2>1 DEF Row
    <2> HIDE DEF row
    <2> QED BY <2>2, <1>O, RowFields
  <1>5. table' = [table EXCEPT ![d].active = FALSE] => table' = [table EXCEPT ![d] = row]
    OBVIOUS
  <1> HIDE DEF row
  <1>6. /\ \A e \in Devices \ {d} : table'[e] = table[e]
        /\ table'[d] = row \/ table'[d] = table[d]
        /\ told'[d] = "unknown" \/ (told'[d] = "down" /\ table'[d] = row)
    BY <1>2, <1>3, <1>5, <1>T
  <1>7. Footprint(r, d)
    BY <1>2, <1>3, <1>6 DEF Footprint
  <1>8. AddressesDiffer'
    BY <1>6, <1>4, <1>O, AddressesKeep DEF ProvInv
  <1>9. KeysInv(d)'
    BY <1>2, <1>4, <1>6, <1>O DEF KeysInv, Registered
  <1>10. ToldInv(d)'
    BY <1>4, <1>6, <1>O DEF ToldInv, Registered
  <1>11. ReqInv(r)'
    BY <1>3 DEF ReqInv
  <1> QED BY <1>7, <1>8, <1>9, <1>10, <1>11 DEF Keeps, DevInv

\* Drawing the next key and putting it on the interface.
LEMMA RotateAddKeeps ==
  ASSUME TypeInv, ProvInv, NEW r \in Requests, NEW d \in Devices, req[r].dev = d,
         RotateAdd(r)
  PROVE  Keeps(r, d)
  <1> USE DEF Pcs, RotatePcs
  <1>B. req[r] # Idle /\ req[r].pc = "rotateAdd"
    BY BusyAt DEF RotateAdd, At
  <1>1. req[r].pc \in CurrentPcs /\ req[r].pc \in RetiredPcs
    BY <1>B DEF CurrentPcs, RetiredPcs
  <1>O. /\ KeysInv(d) /\ told[d] = "unknown" /\ d \in Registered
        /\ table[d] = [ip |-> req[r].ip, key |-> req[r].old, active |-> TRUE]
        /\ table[d].ip = req[r].ip /\ table[d].key = req[r].old /\ table[d].active
        /\ req[r].ip \in Ips /\ req[r].old \in Keys
        /\ \A a \in Ips : route[a] # req[r].old
    BY <1>1, <1>B, OwnDevice
  <1>T. /\ req[r] \in Request /\ issued \in [Devices -> Nat] /\ handed \subseteq Keys
        /\ route \in [Ips -> Keys \cup {NoKey}]
    BY <1>B, RequestFields DEF TypeInv, TypeOK
  <1>K. NoKey \notin Keys /\ \A k \in Keys : k.n \in Nat
    BY KeyFields
  <1> DEFINE k1 == NextKey(d)
             added == AddPeer(k1, req[r].ip)
             q == [req[r] EXCEPT !.pc = "rotateUpdate", !.new = k1]
  <1>2. k1 \in Keys /\ k1.dev = d /\ k1.n = issued[d] + 1
    BY <1>T DEF NextKey, Keys
  <1>3. /\ q \in Request /\ q.pc = "rotateUpdate" /\ q.dev = d
        /\ q.old = req[r].old /\ q.ip = req[r].ip /\ q.new = k1
    BY <1>2, <1>T DEF Request
  <1>4. /\ \/ route' = added /\ Becomes(r, q)
           \/ (route' = route \/ route' = added) /\ Goto(r, "rotateRestore")
        /\ issued' = [issued EXCEPT ![d] = @ + 1]
        /\ UNCHANGED <<table, handed, told>>
    BY DEF RotateAdd, Succeeds, Fails
  <1> HIDE DEF q, k1
  <1>5. /\ \A s \in Requests \ {r} : req'[s] = req[s]
        /\ \/ req'[r] = q /\ route' = added
           \/ req'[r] = [req[r] EXCEPT !.pc = "rotateRestore"]
    BY <1>3, <1>4, <1>B, BecomesType, GotoType DEF TypeInv
  <1>6. issued'[d] = issued[d] + 1 /\ \A e \in Devices \ {d} : issued'[e] = issued[e]
    BY <1>4, <1>T
  <1>7. k1 \notin handed /\ k1 # req[r].old /\ \A a \in Ips : route[a] # k1
    <2>1. \A k \in handed : k # k1
      BY <1>2, <1>O, <1>T, <1>K DEF KeysInv
    <2>2. k1 # req[r].old
      BY <1>2, <1>O, <1>T, <1>K DEF KeysInv
    <2>3. \A a \in Ips : route[a] # k1
      BY <1>2, <1>O, <1>T, <1>K DEF KeysInv
    <2> QED BY <2>1, <2>2, <2>3
  <1>8. Footprint(r, d)
    <2>1. req'[r] = Idle \/ req'[r].dev = d
      BY <1>3, <1>5, <1>T DEF Request
    <2> QED BY <2>1, <1>2, <1>4, <1>5, <1>6, <1>O, CallFootprint DEF Footprint
  <1>9. AddressesDiffer'
    BY <1>4, AddressesKeep DEF ProvInv
  <1>10. KeysInv(d)'
    <2>1. \A a \in Ips : route'[a] = route[a] \/ route'[a] = NoKey \/ route'[a] = k1
      BY <1>4 DEF AddPeer
    <2>2. k1.n <= issued'[d] /\ issued[d] <= issued'[d] /\ issued'[d] \in Nat
      BY <1>2, <1>6, <1>T
    <2> QED BY <2>1, <2>2, <1>2, <1>4, <1>7, <1>O, KeysKeep
  <1>11. ToldInv(d)'
    BY <1>4, <1>O DEF ToldInv
  <1>12. ReqInv(r)'
    <2>1. CASE req'[r] = q /\ route' = added
      <3>1. q.pc \notin CreatePcs /\ q.pc # "createInsert"
        BY <1>3 DEF CreatePcs
      <3>2. \A a \in Ips : route'[a] # req[r].old
        BY <2>1, <1>7, <1>O, <1>K DEF AddPeer
      <3>3. \A a \in Ips : route'[a] = k1 => a = req[r].ip
        BY <2>1, <1>7 DEF AddPeer
      <3>4. route'[req[r].ip] = k1
        BY <2>1, <1>O DEF AddPeer
      <3>5. k1.n <= issued'[d]
        BY <1>2, <1>6, <1>T
      <3> QED BY <3>1, <3>2, <3>3, <3>4, <3>5, <2>1, <1>2, <1>3, <1>4, <1>7, <1>O DEF ReqInv
    <2>2. CASE req'[r] = [req[r] EXCEPT !.pc = "rotateRestore"]
      <3> DEFINE p == [req[r] EXCEPT !.pc = "rotateRestore"]
      <3>1. p.pc = "rotateRestore" /\ p.dev = d /\ p.old = req[r].old /\ p.ip = req[r].ip
        BY <1>T DEF Request
      <3>2. /\ p.pc \notin CreatePcs /\ p.pc \notin RetiredPcs
            /\ p.pc \notin {"rotateUpdate", "rotateUndo", "createInsert"}
        BY <3>1 DEF CreatePcs, RetiredPcs
      <3> HIDE DEF p
      <3>3. req'[r] = p
        BY <2>2 DEF p
      <3> QED BY <3>1, <3>2, <3>3, <1>4, <1>O DEF ReqInv
    <2> QED BY <2>1, <2>2, <1>5
  <1> QED BY <1>8, <1>9, <1>10, <1>11, <1>12 DEF Keeps, DevInv

\* Storing the new key, which is the one on the interface.
LEMMA RotateUpdateKeeps ==
  ASSUME TypeInv, ProvInv, NEW r \in Requests, NEW d \in Devices, req[r].dev = d,
         RotateUpdate(r)
  PROVE  Keeps(r, d)
  <1> USE DEF Pcs, RotatePcs
  <1>B. req[r] # Idle /\ req[r].pc = "rotateUpdate"
    BY BusyAt DEF RotateUpdate, At
  <1>1. req[r].pc \in CurrentPcs /\ req[r].pc \in RetiredPcs
    BY <1>B DEF CurrentPcs, RetiredPcs
  <1>O. /\ KeysInv(d) /\ told[d] = "unknown" /\ d \in Registered
        /\ table[d] = [ip |-> req[r].ip, key |-> req[r].old, active |-> TRUE]
        /\ table[d].ip = req[r].ip /\ table[d].key = req[r].old /\ table[d].active
        /\ \A a \in Ips : route[a] # req[r].old
        /\ req[r].new \in Keys /\ req[r].new.dev = d /\ req[r].new.n <= issued[d]
        /\ req[r].new # req[r].old /\ req[r].new \notin handed
        /\ \A a \in Ips : route[a] = req[r].new => a = req[r].ip
        /\ route[req[r].ip] = req[r].new
        /\ req[r].ip \in Ips
    BY <1>1, <1>B, OwnDevice
  <1>T. req[r] \in Request /\ table \in [Devices -> Row \cup {NoRow}]
    BY <1>B, RequestFields DEF TypeInv, TypeOK
  <1>2. /\ \/ /\ table' = [table EXCEPT ![d].key = req[r].new]
              /\ Reply(r, "up") \/ Reply(r, "unknown")
           \/ table' = table /\ Goto(r, "rotateUndo") /\ UNCHANGED told
        /\ UNCHANGED <<route, handed, issued>>
    BY DEF RotateUpdate, ReplyRead
  <1>3. CASE /\ table' = [table EXCEPT ![d].key = req[r].new]
             /\ Reply(r, "up") \/ Reply(r, "unknown")
    <2> DEFINE row == [table[d] EXCEPT !.key = req[r].new]
    <2>1. table' = [table EXCEPT ![d] = row]
      BY <1>3
    <2>2. row.ip = req[r].ip /\ row.key = req[r].new /\ row.active /\ row # NoRow
      <3>1. table[d] \in Row
        BY <1>O, <1>T DEF Registered
      <3>2. /\ row \in Row /\ row.key = req[r].new
            /\ row.ip = table[d].ip /\ row.active = table[d].active
        BY <3>1, <1>O DEF Row
      <3> HIDE DEF row
      <3> QED BY <3>2, <1>O, RowFields
    <2> HIDE DEF row
    <2>4. table'[d] = row /\ \A e \in Devices \ {d} : table'[e] = table[e]
      BY <2>1, <1>T
    <2>5. /\ req'[r] = Idle
          /\ \A s \in Requests \ {r} : req'[s] = req[s]
          /\ told'[d] \in {"up", "unknown"}
          /\ \A e \in Devices \ {d} : told'[e] = told[e]
      BY <1>3, <1>B, ReplyType DEF TypeInv, Answers
    <2>6. Footprint(r, d)
      BY <1>2, <2>4, <2>5 DEF Footprint
    <2>7. AddressesDiffer'
      BY <2>2, <2>4, <1>O, AddressesKeep DEF ProvInv
    <2>8. d \in Registered'
      BY <2>2, <2>4 DEF Registered
    <2>9. KeysInv(d)'
      <3>1. \A k \in handed, a \in Ips : k.dev = d => route[a] # k
        <4> SUFFICES ASSUME NEW k \in handed, NEW a \in Ips, k.dev = d, route[a] = k
                     PROVE  FALSE
          OBVIOUS
        <4>1. table[d] = [ip |-> a, key |-> k, active |-> TRUE]
          BY <1>O DEF KeysInv
        <4>2. table[d].key = k
          BY <4>1
        <4> QED BY <4>2, <1>O
      <3> QED BY <3>1, <2>2, <2>4, <2>8, <1>2, <1>O DEF KeysInv
    <2>10. ToldInv(d)'
      BY <2>2, <2>4, <2>5, <2>8, <1>2, <1>O DEF ToldInv
    <2>11. ReqInv(r)'
      BY <2>5 DEF ReqInv
    <2> QED BY <2>6, <2>7, <2>9, <2>10, <2>11 DEF Keeps, DevInv
  <1>4. CASE table' = table /\ Goto(r, "rotateUndo") /\ UNCHANGED told
    <2> DEFINE q == [req[r] EXCEPT !.pc = "rotateUndo"]
    <2>1. /\ q.pc = "rotateUndo" /\ q.dev = d /\ q.old = req[r].old
          /\ q.ip = req[r].ip /\ q.new = req[r].new
      BY <1>T DEF Request
    <2>2. req'[r] = q /\ \A s \in Requests \ {r} : req'[s] = req[s]
      BY <1>4, <1>B, GotoType DEF TypeInv
    <2> HIDE DEF q
    <2>3. Footprint(r, d)
      BY <1>2, <1>4, <2>1, <2>2 DEF Footprint
    <2>4. AddressesDiffer' /\ DevInv(d)'
      BY <1>2, <1>4 DEF ProvInv, AddressesDiffer, DevInv, KeysInv, ToldInv, Registered
    <2>5. ReqInv(r)'
      <3>1. q.pc \notin CreatePcs /\ q.pc # "createInsert" /\ q.pc # "rotateUpdate"
        BY <2>1 DEF CreatePcs
      <3> QED BY <3>1, <2>1, <2>2, <1>2, <1>4, <1>O DEF ReqInv
    <2> QED BY <2>3, <2>4, <2>5 DEF Keeps
  <1> QED BY <1>2, <1>3, <1>4

\* Taking the new key off again and putting the old one back.
LEMMA RotateUndoKeeps ==
  ASSUME TypeInv, ProvInv, NEW r \in Requests, NEW d \in Devices, req[r].dev = d,
         RotateUndo(r) \/ RotateRestore(r)
  PROVE  Keeps(r, d)
  <1> USE DEF Pcs, RotatePcs
  <1>B. req[r] # Idle /\ req[r].pc \in {"rotateUndo", "rotateRestore"}
    BY BusyAt DEF RotateUndo, RotateRestore, At
  <1>1. req[r].pc \in CurrentPcs
    BY <1>B DEF CurrentPcs
  <1>O. /\ KeysInv(d) /\ told[d] = "unknown" /\ d \in Registered
        /\ table[d] = [ip |-> req[r].ip, key |-> req[r].old, active |-> TRUE]
        /\ table[d].ip = req[r].ip /\ table[d].key = req[r].old /\ table[d].active
        /\ req[r].old \in Keys /\ req[r].old.dev = d
        /\ req[r].pc = "rotateUndo" => req[r].new \in Keys /\ req[r].new.dev = d
    BY <1>1, <1>B, OwnDevice
  <1>T. req[r] \in Request /\ issued[d] \in Nat
    BY <1>B, RequestFields DEF TypeInv, TypeOK
  <1>2. /\ \/ /\ route' = route \/ route' = RemovePeer(req[r].new)
              /\ Goto(r, "rotateRestore") /\ UNCHANGED told /\ req[r].pc = "rotateUndo"
           \/ /\ route' = route \/ route' = AddPeer(req[r].old, req[r].ip)
              /\ Reply(r, "unknown")
        /\ UNCHANGED <<table, handed, issued>>
    BY DEF RotateUndo, RotateRestore, Succeeds, Fails, At
  <1>3. /\ \A s \in Requests \ {r} : req'[s] = req[s]
        /\ \A e \in Devices \ {d} : told'[e] = told[e]
        /\ told'[d] = "unknown"
        /\ req'[r] = Idle \/ req'[r] = [req[r] EXCEPT !.pc = "rotateRestore"]
    BY <1>2, <1>B, <1>O, ReplyType, GotoType DEF TypeInv, Answers
  <1>4. Footprint(r, d)
    <2>1. req'[r] = Idle \/ req'[r].dev = d
      BY <1>3, <1>T DEF Request
    <2> QED BY <2>1, <1>2, <1>3, <1>O, CallFootprint DEF Footprint
  <1>5. AddressesDiffer'
    BY <1>2, AddressesKeep DEF ProvInv
  <1>6. KeysInv(d)'
    <2>1. \A a \in Ips : \/ route'[a] = route[a] \/ route'[a] = NoKey
                         \/ route'[a] = table[d].key /\ a = table[d].ip
      BY <1>2, <1>O DEF AddPeer, RemovePeer
    <2> QED BY <2>1, <1>2, <1>O, <1>T, KeysKeep
  <1>7. ToldInv(d)'
    BY <1>3 DEF ToldInv
  <1>8. ReqInv(r)'
    <2>1. CASE req'[r] = Idle
      BY <2>1 DEF ReqInv
    <2>2. CASE req'[r] = [req[r] EXCEPT !.pc = "rotateRestore"]
      <3> DEFINE p == [req[r] EXCEPT !.pc = "rotateRestore"]
      <3>1. p.pc = "rotateRestore" /\ p.dev = d /\ p.old = req[r].old /\ p.ip = req[r].ip
        BY <1>T DEF Request
      <3>2. /\ p.pc \notin CreatePcs /\ p.pc \notin RetiredPcs
            /\ p.pc \notin {"rotateUpdate", "rotateUndo", "createInsert"}
        BY <3>1 DEF CreatePcs, RetiredPcs
      <3> HIDE DEF p
      <3>3. req'[r] = p
        BY <2>2 DEF p
      <3> QED BY <3>1, <3>2, <3>3, <1>2, <1>3, <1>O DEF ReqInv
    <2> QED BY <2>1, <2>2, <1>3
  <1> QED BY <1>4, <1>5, <1>6, <1>7, <1>8 DEF Keeps, DevInv

\* Any step of a request in flight.
LEMMA StepKeeps ==
  ASSUME TypeInv, ProvInv, NEW r \in Requests, NEW d \in Devices, req[r].dev = d, Step(r)
  PROVE  req[r] # Idle /\ Keeps(r, d)
  <1> USE DEF Pcs, CreatePcs, RevokePcs, RotatePcs
  <1>B. req[r] # Idle
    BY BusyAt DEF Step, CreateInsert, CreateRefused, CreateAdd, CreateUndo, ReadFails,
       RevokeRead, RevokeRemove, RevokeUpdate, RotateRead, RotateRemove, RotateAdd,
       RotateUpdate, RotateUndo, RotateRestore
  <1>1. CASE ReadFails(r)
    BY <1>1, <1>B, QuietReplyKeeps DEF ReadFails
  <1>2. CASE RevokeRead(r)
    <2>1. CASE d \in Registered /\ table[d].active
      BY <2>1, <1>2, <1>B, ReadKeeps DEF RevokeRead
    <2>2. CASE ~ (d \in Registered /\ table[d].active)
      <3>1. /\ \/ Reply(r, "unknown")
               \/ Reply(r, "down") /\ d \in Registered /\ ~table[d].active
            /\ UNCHANGED <<table, route, handed, issued>>
        BY <2>2, <1>2 DEF RevokeRead
      <3> QED BY <3>1, <1>B, QuietReplyKeeps
    <2> QED BY <2>1, <2>2
  <1>3. CASE RotateRead(r)
    <2>1. CASE d \in Registered /\ table[d].active
      BY <2>1, <1>3, <1>B, ReadKeeps DEF RotateRead
    <2>2. CASE ~ (d \in Registered /\ table[d].active)
      <3>1. Reply(r, "unknown") /\ UNCHANGED <<table, route, handed, issued>>
        BY <2>2, <1>3 DEF RotateRead
      <3> QED BY <3>1, <1>B, QuietReplyKeeps
    <2> QED BY <2>1, <2>2
  <1> QED BY <1>1, <1>2, <1>3, <1>B, CreateKeeps, RemoveKeeps, RevokeUpdateKeeps,
             RotateAddKeeps, RotateUpdateKeeps, RotateUndoKeeps DEF Step

\* The start of a request: no other names the device, and a create draws its
\* first key.
LEMMA StartKeeps ==
  ASSUME TypeInv, ProvInv, SerialDevices, NEW r \in Requests, NEW d \in Devices,
         StartCreate(r, d) \/ StartRevoke(r, d) \/ StartRotate(r, d)
  PROVE  /\ \A s \in Requests \ {r} : req[s] # Idle => req[s].dev # d
         /\ Keeps(r, d)
  <1>K. /\ NoKey \notin Keys
        /\ \A k \in Keys : k.dev \in Devices /\ k.n \in Nat /\ k.n >= 1
    BY KeyFields
  <1>T. /\ issued \in [Devices -> Nat] /\ told \in [Devices -> Answers]
        /\ req \in [Requests -> Request \cup {Idle}] /\ handed \subseteq Keys
        /\ d \in Registered => table[d] \in Row
    BY DEF TypeInv, TypeOK, Registered, Answers
  <1>1. PICK pc \in {"createInsert", "revokeRead", "rotateRead"} :
          /\ Start(r, pc, d)
          /\ pc = "createInsert" => issued[d] = 0 /\ issued'[d] # 0
          /\ issued'[d] >= issued[d] /\ issued'[d] \in Nat
          /\ \A e \in Devices \ {d} : issued'[e] = issued[e]
    BY <1>T DEF StartCreate, StartRevoke, StartRotate
  <1> DEFINE q == [pc |-> pc, dev |-> d, old |-> NoKey, new |-> NoKey, ip |-> 0]
  <1>2. q.pc = pc /\ q.dev = d
    OBVIOUS
  <1>3. /\ req' = [req EXCEPT ![r] = q] /\ told' = [told EXCEPT ![d] = "unknown"]
        /\ UNCHANGED <<table, route, handed>>
    BY <1>1 DEF Start, Becomes
  <1> HIDE DEF q
  <1>4. \A s \in Requests \ {r} : req[s] # Idle => req[s].dev # d
    BY <1>1 DEF Start, MayName, Naming
  <1>5. /\ req'[r] = q /\ told'[d] = "unknown"
        /\ \A s \in Requests \ {r} : req'[s] = req[s]
        /\ \A e \in Devices \ {d} : told'[e] = told[e]
    BY <1>3, <1>T
  <1>6. Footprint(r, d)
    BY <1>1, <1>2, <1>3, <1>5 DEF Footprint
  <1>7. AddressesDiffer'
    BY <1>3, AddressesKeep DEF ProvInv
  <1>D. KeysInv(d)
    BY DEF ProvInv, DevInv
  <1>8. KeysInv(d)'
    BY <1>1, <1>3, <1>D, KeysKeep
  <1>9. ToldInv(d)'
    BY <1>5 DEF ToldInv
  <1>10. ReqInv(r)'
    <2>1. /\ pc \notin CurrentPcs /\ pc \notin RetiredPcs
          /\ pc \notin {"rotateUpdate", "rotateUndo"}
          /\ pc \in CreatePcs => pc = "createInsert"
      BY DEF CurrentPcs, RetiredPcs, CreatePcs
    <2>2. ASSUME pc = "createInsert"
          PROVE  /\ d \notin Registered' /\ issued'[d] # 0
                 /\ \A k \in handed' : k.dev # d
                 /\ \A a \in Ips : route'[a] \in Keys => route'[a].dev # d
      <3>1. d \notin Registered
        <4>1. d \in Registered => table[d].key \in Keys /\ table[d].key.n <= 0
          BY <2>2, <1>1, <1>D, <1>T, RowFields DEF KeysInv
        <4> QED BY <4>1, <1>K
      <3>2. \A k \in handed : k.dev # d
        BY <2>2, <1>1, <1>D, <1>T, <1>K DEF KeysInv
      <3>3. \A a \in Ips : route[a] \in Keys => route[a].dev # d
        BY <2>2, <1>1, <1>D, <1>K DEF KeysInv
      <3> QED BY <3>1, <3>2, <3>3, <2>2, <1>1, <1>3 DEF Registered
    <2> QED BY <2>1, <2>2, <1>2, <1>3, <1>5 DEF ReqInv
  <1> QED BY <1>4, <1>6, <1>7, <1>8, <1>9, <1>10 DEF Keeps, DevInv

\* A config or QR code hands out the key of an active record.
LEMMA ConfigKeeps ==
  ASSUME TypeInv, ProvInv, CreateFirst, NEW d \in Devices, ClientConfig(d)
  PROVE  ProvInv'
  <1>1. /\ d \in Registered /\ table[d].active
        /\ \A r \in Requests : (req[r] # Idle /\ req[r].dev = d) => req[r].pc \notin CreatePcs
        /\ handed' = handed \cup {table[d].key}
        /\ UNCHANGED <<table, route, issued, req, told>>
    BY DEF ClientConfig, Naming
  <1>2. /\ table[d] = [ip |-> table[d].ip, key |-> table[d].key, active |-> TRUE]
        /\ table[d].key \in Keys
    <2>1. table[d] \in Row
      BY <1>1 DEF TypeInv, TypeOK, Registered
    <2>2. table[d].active = TRUE
      BY <2>1, <1>1 DEF Row
    <2> QED BY <2>1, <2>2, RowFields
  <1>3. KeysInv(d) /\ table[d].key.dev = d
    BY <1>1 DEF ProvInv, DevInv, KeysInv
  <1>4. (Serial /\ AddressesDiffer)'
    BY <1>1 DEF ProvInv, Serial, AddressesDiffer, Registered
  <1>5. ASSUME NEW e \in Devices PROVE DevInv(e)'
    <2>1. DevInv(e)
      BY DEF ProvInv
    <2>2. ToldInv(e)'
      BY <2>1, <1>1 DEF DevInv, ToldInv, Registered
    <2>3. (\A k \in handed : k.dev = e => k.n <= issued[e])'
      BY <2>1, <1>1, <1>3 DEF DevInv, KeysInv
    <2>4. ASSUME NEW k \in handed', NEW a \in Ips, k.dev = e, route[a] = k
          PROVE  e \in Registered /\ table[e] = [ip |-> a, key |-> k, active |-> TRUE]
      <3>1. CASE k \in handed
        BY <3>1, <2>1, <2>4 DEF DevInv, KeysInv
      <3>2. CASE k = table[d].key
        <4>1. e = d /\ a = table[d].ip
          BY <3>2, <2>4, <1>1, <1>3 DEF KeysInv
        <4> QED BY <4>1, <3>2, <1>1, <1>2
      <3> QED BY <3>1, <3>2, <1>1
    <2>5. Registered' = Registered
      BY <1>1 DEF Registered
    <2>6. KeysInv(e)'
      BY <2>1, <2>3, <2>4, <2>5, <1>1 DEF DevInv, KeysInv
    <2> QED BY <2>2, <2>6 DEF DevInv
  <1>6. ASSUME NEW r \in Requests PROVE ReqInv(r)'
    <2> SUFFICES ASSUME req[r] # Idle PROVE ReqInv(r)'
      BY <1>1 DEF ReqInv
    <2>1. ReqInv(r)
      BY DEF ProvInv
    <2>2. req[r].pc \in CreatePcs => \A k \in handed' : k.dev # req[r].dev
      BY <2>1, <1>1, <1>3 DEF ReqInv
    <2>3. req[r].pc \in {"rotateUpdate", "rotateUndo"} => req[r].new \notin handed'
      <3> SUFFICES ASSUME req[r].pc \in {"rotateUpdate", "rotateUndo"}
                   PROVE  req[r].new # table[d].key
        BY <2>1, <1>1 DEF ReqInv
      <3>1. req[r].pc \in CurrentPcs
        BY DEF CurrentPcs, Pcs, RotatePcs
      <3>2. req[r].new.dev = req[r].dev /\ req[r].new # req[r].old
        BY <2>1 DEF ReqInv
      <3>3. req[r].dev = d => table[d].key = req[r].old
        BY <3>1, OwnDevice
      <3> QED BY <3>2, <3>3, <1>3
    <2>4. Registered' = Registered
      BY <1>1 DEF Registered
    <2> QED BY <2>1, <2>2, <2>3, <2>4, <1>1 DEF ReqInv
  <1> QED BY <1>4, <1>5, <1>6 DEF ProvInv

\* The process dies: nothing is in flight, and the devices are as they were.
LEMMA CrashKeeps == ProvInv /\ Crash => ProvInv'
  <1> SUFFICES ASSUME ProvInv, Crash PROVE ProvInv'
    OBVIOUS
  <1>1. /\ \A r \in Requests : req'[r] = Idle
        /\ UNCHANGED <<table, route, handed, issued, told>>
    BY DEF Crash
  <1>2. (\A d \in Devices : DevInv(d))'
    BY <1>1 DEF ProvInv, DevInv, KeysInv, ToldInv, Registered
  <1>3. (\A r \in Requests : ReqInv(r))'
    BY <1>1 DEF ReqInv
  <1>4. (Serial /\ AddressesDiffer)'
    BY <1>1 DEF ProvInv, Serial, AddressesDiffer, Registered
  <1> QED BY <1>2, <1>3, <1>4 DEF ProvInv

\* With one request at a time per device, every step keeps the invariant.
LEMMA ProvStep ==
  ASSUME SerialDevices, CreateFirst, TypeInv, TypeInv', ProvInv, [Next]_vars
  PROVE  ProvInv'
  <1>1. ASSUME NEW r \in Requests, NEW d \in Devices, Keeps(r, d),
               \A s \in Requests \ {r} : req[s] # Idle => req[s].dev # d
        PROVE  ProvInv'
    <2>1. /\ Serial'
          /\ \A e \in Devices \ {d} : DevInv(e)'
          /\ \A s \in Requests \ {r} : ReqInv(s)'
      BY <1>1, OthersKeep DEF Keeps
    <2>2. (\A e \in Devices : DevInv(e))'
      BY <2>1, <1>1 DEF Keeps
    <2>3. (\A s \in Requests : ReqInv(s))'
      BY <2>1, <1>1 DEF Keeps
    <2> QED BY <2>1, <2>2, <2>3, <1>1 DEF Keeps, ProvInv
  <1>2. CASE UNCHANGED vars
    <2>1. (\A r \in Requests : ReqInv(r))'
      BY <1>2 DEF vars, ProvInv, ReqInv, Registered
    <2>2. (\A d \in Devices : DevInv(d))'
      BY <1>2 DEF vars, ProvInv, DevInv, KeysInv, ToldInv, Registered
    <2>3. (Serial /\ AddressesDiffer)'
      BY <1>2 DEF vars, ProvInv, Serial, AddressesDiffer, Registered
    <2> QED BY <2>1, <2>2, <2>3 DEF ProvInv
  <1>3. ASSUME NEW r \in Requests, NEW d \in Devices,
               StartCreate(r, d) \/ StartRevoke(r, d) \/ StartRotate(r, d)
        PROVE  ProvInv'
    BY <1>1, <1>3, StartKeeps
  <1>4. ASSUME NEW r \in Requests, Step(r) PROVE ProvInv'
    <2>1. req[r] # Idle
      BY <1>4, BusyAt DEF Step, CreateInsert, CreateRefused, CreateAdd, CreateUndo,
         ReadFails, RevokeRead, RevokeRemove, RevokeUpdate, RotateRead, RotateRemove,
         RotateAdd, RotateUpdate, RotateUndo, RotateRestore,
         Pcs, CreatePcs, RevokePcs, RotatePcs
    <2>2. req[r].dev \in Devices
      BY <2>1, RequestFields DEF TypeInv
    <2>3. \A s \in Requests \ {r} : req[s] # Idle => req[s].dev # req[r].dev
      BY <2>1 DEF ProvInv, Serial
    <2>4. PICK d \in Devices : d = req[r].dev
      BY <2>2
    <2> QED BY <1>1, <1>4, <2>3, <2>4, StepKeeps
  <1>5. ASSUME NEW d \in Devices, ClientConfig(d) PROVE ProvInv'
    BY <1>5, ConfigKeeps
  <1>6. CASE Crash
    BY <1>6, CrashKeeps
  <1> QED BY <1>2, <1>3, <1>4, <1>5, <1>6 DEF Next

\* It holds in every reachable state.
LEMMA ProvInvariant ==
  ASSUME SerialDevices, CreateFirst
  PROVE  Spec => []ProvInv
  <1>1. Init => ProvInv
    BY KeyFields DEF Init, ProvInv, Serial, AddressesDiffer, ReqInv, DevInv, KeysInv,
       ToldInv, Registered
  <1>2. TypeInv /\ TypeInv' /\ ProvInv /\ [Next]_vars => ProvInv'
    BY ProvStep
  <1> QED BY <1>1, <1>2, TypeInvariant, PTL DEF Spec

\* With one create, revoke or rotate at a time per device, a key that a client
\* holds carries traffic only while it is the current key of an active record,
\* at that record's address, whatever fails and wherever the process dies.
THEOREM RoutedKeysAreCurrent ==
  ASSUME SerialDevices, CreateFirst
  PROVE  Spec => []RoutedKeyIsCurrent
  <1>1. TypeInv /\ ProvInv => RoutedKeyIsCurrent
    <2> SUFFICES ASSUME TypeInv, ProvInv, NEW k \in handed, NEW a \in Ips, route[a] = k
                 PROVE  /\ k.dev \in Registered
                        /\ table[k.dev] = [ip |-> a, key |-> k, active |-> TRUE]
      BY DEF RoutedKeyIsCurrent
    <2>1. k.dev \in Devices
      BY KeyFields DEF TypeInv, TypeOK
    <2> QED BY <2>1 DEF ProvInv, DevInv, KeysInv
  <1> QED BY <1>1, TypeInvariant, ProvInvariant, PTL

\* Under the same schedule, what the last reply said of a device stays so until
\* the next request for it.
THEOREM RepliesStayTrue ==
  ASSUME SerialDevices, CreateFirst
  PROVE  Spec => []RepliesAreTrue
  <1>1. ProvInv => RepliesAreTrue
    BY DEF ProvInv, DevInv, ToldInv, RepliesAreTrue
  <1> QED BY <1>1, ProvInvariant, PTL

-----------------------------------------------------------------------------
(* What holds however requests overlap. *)

\* A device has an address for life: its keys are routed there or nowhere, and
\* a device that clients hold a key of has a record.
HomeInv(d) ==
  /\ d \in Registered =>
       /\ table[d].key.dev = d
       /\ \A a \in Ips : (route[a] \in Keys /\ route[a].dev = d) => a = table[d].ip
  /\ (\E k \in handed : k.dev = d) => d \in Registered
  /\ issued[d] = 0 =>
       d \notin Registered /\ \A a \in Ips : route[a] \in Keys => route[a].dev # d

\* A request that has read the record calls the backend with the keys of its
\* device, at its address.
HandlerInv(r) ==
  LET q == req[r]
      d == req[r].dev
  IN
  req[r] # Idle =>
    /\ issued[d] # 0
    /\ q.pc \in CurrentPcs =>
         /\ d \in Registered /\ q.ip = table[d].ip
         /\ q.old \in Keys /\ q.old.dev = d
    /\ q.pc \in {"rotateUpdate", "rotateUndo"} => q.new \in Keys /\ q.new.dev = d

\* A create is alone with its device, which no client has seen.
CreatorInv(r) ==
  LET d == req[r].dev IN
  (req[r] # Idle /\ req[r].pc \in CreatePcs) =>
    /\ \A s \in Requests : (req[s] # Idle /\ req[s].dev = d) => s = r
    /\ \A k \in handed : k.dev # d
    /\ req[r].pc = "createInsert" =>
         d \notin Registered /\ \A a \in Ips : route[a] \in Keys => route[a].dev # d
    /\ req[r].pc # "createInsert" => table[d].active

RegistryInv ==
  /\ AddressesDiffer
  /\ \A d \in Devices : HomeInv(d)
  /\ \A r \in Requests : HandlerInv(r) /\ CreatorInv(r)

-----------------------------------------------------------------------------
(* Preservation *)

\* For the device that a step is about: it keeps its record and its address, or
\* was never seen, and its keys go to that address or nowhere.
AtHome(d) ==
  /\ d \in Registered =>
       /\ d \in Registered' /\ table'[d].ip = table[d].ip /\ table'[d].key.dev = d
  /\ d \notin Registered => table'[d] = table[d]
  /\ issued[d] # 0 => issued'[d] # 0
  /\ \A a \in Ips :
       \/ route'[a] = route[a] \/ route'[a] = NoKey
       \/ /\ d \in Registered /\ a = table[d].ip
          /\ route'[a] \in Keys /\ route'[a].dev = d /\ issued[d] # 0

\* It stays in order.
LEMMA HomeKeeps ==
  ASSUME NEW d \in Devices, HomeInv(d), AtHome(d), handed' = handed
  PROVE  HomeInv(d)'
  <1>K. NoKey \notin Keys
    BY KeyFields
  <1>1. d \in Registered' <=> d \in Registered
    BY DEF AtHome, Registered
  <1>2. (d \in Registered =>
           /\ table[d].key.dev = d
           /\ \A a \in Ips : (route[a] \in Keys /\ route[a].dev = d) => a = table[d].ip)'
    BY <1>1, <1>K DEF HomeInv, AtHome
  <1>3. ((\E k \in handed : k.dev = d) => d \in Registered)'
    BY <1>1 DEF HomeInv
  <1>4. (issued[d] = 0 =>
           d \notin Registered /\ \A a \in Ips : route[a] \in Keys => route[a].dev # d)'
    BY <1>1, <1>K DEF HomeInv, AtHome
  <1> QED BY <1>2, <1>3, <1>4 DEF HomeInv

\* A step of request r about d keeps what the other devices and requests rely
\* on: those about d too, unless r is alone with it.
LEMMA OthersStayHome ==
  ASSUME TypeInv, RegistryInv, NEW r \in Requests, NEW d \in Devices,
         Footprint(r, d), issued[d] # 0 => issued'[d] # 0,
         \/ /\ d \in Registered => d \in Registered' /\ table'[d].ip = table[d].ip
         \/ \A s \in Requests \ {r} : req[s] # Idle => req[s].dev # d,
         \A s \in Requests \ {r} :
           (req[s] # Idle /\ req[s].dev = d) => req[s].pc \notin CreatePcs
  PROVE  /\ \A e \in Devices \ {d} : HomeInv(e)'
         /\ \A s \in Requests \ {r} : HandlerInv(s)' /\ CreatorInv(s)'
  <1>K. NoKey \notin Keys
    BY KeyFields
  <1>1. ASSUME NEW e \in Devices \ {d} PROVE HomeInv(e)'
    <2>1. /\ HomeInv(e) /\ table'[e] = table[e] /\ issued'[e] = issued[e]
          /\ handed' = handed /\ (e \in Registered' <=> e \in Registered)
      BY DEF RegistryInv, Footprint, Registered
    <2>2. \A a \in Ips : (route'[a] \in Keys /\ route'[a].dev = e) => route'[a] = route[a]
      BY <1>K DEF Footprint
    <2> QED BY <2>1, <2>2 DEF HomeInv
  <1>2. ASSUME NEW s \in Requests \ {r} PROVE HandlerInv(s)' /\ CreatorInv(s)'
    <2>1. req'[s] = req[s] /\ handed' = handed
      BY DEF Footprint
    <2>2. SUFFICES ASSUME req[s] # Idle PROVE HandlerInv(s)' /\ CreatorInv(s)'
      BY <2>1 DEF HandlerInv, CreatorInv
    <2>3. HandlerInv(s) /\ CreatorInv(s)
      BY DEF RegistryInv
    <2>4. req[s].dev \in Devices
      BY <2>2, RequestFields DEF TypeInv
    <2>5. HandlerInv(s)'
      <3>1. CASE req[s].dev = d
        <4>1. /\ d \in Registered => d \in Registered' /\ table'[d].ip = table[d].ip
              /\ issued[d] # 0 => issued'[d] # 0
          BY <3>1, <2>2
        <4> QED BY <4>1, <3>1, <2>1, <2>3 DEF HandlerInv
      <3>2. CASE req[s].dev # d
        <4>1. table'[req[s].dev] = table[req[s].dev] /\ issued'[req[s].dev] = issued[req[s].dev]
          BY <3>2, <2>4 DEF Footprint
        <4> QED BY <4>1, <2>1, <2>3, <2>4 DEF HandlerInv, Registered
      <3> QED BY <3>1, <3>2
    <2>6. CreatorInv(s)'
      <3> SUFFICES ASSUME req[s].pc \in CreatePcs PROVE CreatorInv(s)'
        BY <2>1 DEF CreatorInv
      <3> DEFINE e == req[s].dev
      <3>1. e \in Devices \ {d}
        BY <2>2, <2>4
      <3>2. /\ \A t \in Requests : (req[t] # Idle /\ req[t].dev = e) => t = s
            /\ \A k \in handed : k.dev # e
            /\ req[s].pc = "createInsert" =>
                 e \notin Registered /\ \A a \in Ips : route[a] \in Keys => route[a].dev # e
            /\ req[s].pc # "createInsert" => table[e].active
        BY <2>2, <2>3 DEF CreatorInv
      <3>3. req'[s].dev = e
        BY <2>1
      <3> HIDE DEF e
      <3>4. table'[e] = table[e] /\ (e \in Registered' <=> e \in Registered)
        BY <3>1 DEF Footprint, Registered
      <3>5. \A a \in Ips : (route'[a] \in Keys /\ route'[a].dev = e) => route'[a] = route[a]
        BY <3>1, <1>K DEF Footprint
      <3>6. \A t \in Requests : (req'[t] # Idle /\ req'[t].dev = e) => t = s
        BY <3>1, <3>2 DEF Footprint
      <3> QED BY <3>2, <3>3, <3>4, <3>5, <3>6, <2>1 DEF CreatorInv
    <2> QED BY <2>5, <2>6
  <1> QED BY <1>1, <1>2

\* So a step that keeps its own device and request in order keeps the invariant.
LEMMA StepSuffices ==
  ASSUME TypeInv, RegistryInv, NEW r \in Requests, NEW d \in Devices,
         Footprint(r, d), AtHome(d), AddressesDiffer', HandlerInv(r)', CreatorInv(r)',
         \A s \in Requests \ {r} :
           (req[s] # Idle /\ req[s].dev = d) => req[s].pc \notin CreatePcs
  PROVE  RegistryInv'
  <1>1. HomeInv(d)'
    BY HomeKeeps DEF RegistryInv, Footprint
  <1>2. /\ \A e \in Devices \ {d} : HomeInv(e)'
        /\ \A s \in Requests \ {r} : HandlerInv(s)' /\ CreatorInv(s)'
    BY OthersStayHome DEF AtHome
  <1>3. (\A e \in Devices : HomeInv(e))'
    BY <1>1, <1>2
  <1>4. (\A s \in Requests : HandlerInv(s) /\ CreatorInv(s))'
    BY <1>2
  <1> QED BY <1>3, <1>4 DEF RegistryInv

\* A request in flight: what it relies on, and that no create is behind its back.
LEMMA InFlight ==
  ASSUME TypeInv, RegistryInv, NEW r \in Requests, NEW d \in Devices,
         req[r] # Idle, req[r].dev = d
  PROVE  /\ HomeInv(d) /\ req[r] \in Request
         /\ issued[d] # 0
         /\ req[r].pc \in CurrentPcs =>
              /\ d \in Registered /\ req[r].ip = table[d].ip
              /\ req[r].old \in Keys /\ req[r].old.dev = d
              /\ table[d] \in Row
         /\ req[r].pc \in {"rotateUpdate", "rotateUndo"} =>
              req[r].new \in Keys /\ req[r].new.dev = d
         /\ req[r].pc \in CreatePcs =>
              /\ \A s \in Requests : (req[s] # Idle /\ req[s].dev = d) => s = r
              /\ \A k \in handed : k.dev # d
              /\ req[r].pc = "createInsert" =>
                   d \notin Registered /\ \A a \in Ips : route[a] \in Keys => route[a].dev # d
              /\ req[r].pc # "createInsert" => table[d].active
         /\ \A s \in Requests \ {r} :
              (req[s] # Idle /\ req[s].dev = d) => req[s].pc \notin CreatePcs
  <1>1. HomeInv(d) /\ HandlerInv(r) /\ CreatorInv(r) /\ req[r] \in Request
    BY RequestFields DEF RegistryInv, TypeInv
  <1>2. \A s \in Requests \ {r} :
          (req[s] # Idle /\ req[s].dev = d) => req[s].pc \notin CreatePcs
    BY DEF RegistryInv, CreatorInv
  <1>3. d \in Registered => table[d] \in Row
    BY DEF TypeInv, TypeOK, Registered
  <1> QED BY <1>1, <1>2, <1>3 DEF HandlerInv, CreatorInv

\* A reply with nothing else changed.
LEMMA QuietReplyHome ==
  ASSUME TypeInv, RegistryInv, NEW r \in Requests, NEW d \in Devices,
         req[r] # Idle, req[r].dev = d, NEW answer \in Answers, Reply(r, answer),
         UNCHANGED <<table, route, handed, issued>>
  PROVE  RegistryInv'
  <1>1. /\ req'[r] = Idle
        /\ \A s \in Requests \ {r} : req'[s] = req[s]
        /\ \A e \in Devices \ {d} : told'[e] = told[e]
    BY ReplyType DEF TypeInv
  <1>2. Footprint(r, d) /\ HandlerInv(r)' /\ CreatorInv(r)'
    BY <1>1 DEF Footprint, HandlerInv, CreatorInv
  <1>3. AddressesDiffer' /\ AtHome(d)
    BY DEF RegistryInv, AddressesDiffer, AtHome, HomeInv, Registered
  <1> QED BY <1>2, <1>3, InFlight, StepSuffices

\* Reading the record of an active device.
LEMMA ReadHome ==
  ASSUME TypeInv, RegistryInv, NEW r \in Requests, NEW d \in Devices,
         req[r] # Idle, req[r].dev = d, d \in Registered,
         NEW pc \in {"revokeRemove", "rotateRemove"},
         Becomes(r, [req[r] EXCEPT !.pc = pc, !.old = table[d].key, !.ip = table[d].ip]),
         UNCHANGED <<table, route, handed, issued, told>>
  PROVE  RegistryInv'
  <1> DEFINE q == [req[r] EXCEPT !.pc = pc, !.old = table[d].key, !.ip = table[d].ip]
  <1>1. table[d].key \in Keys /\ table[d].ip \in Ips
    BY RowFields DEF TypeInv, TypeOK, Registered
  <1>R. req[r] \in Request
    BY RequestFields DEF TypeInv
  <1>2. /\ q \in Request /\ q.pc = pc /\ q.dev = d
        /\ q.old = table[d].key /\ q.ip = table[d].ip
    BY <1>1, <1>R DEF Request, Pcs, CreatePcs, RevokePcs, RotatePcs
  <1> HIDE DEF q
  <1>3. req'[r] = q /\ \A s \in Requests \ {r} : req'[s] = req[s]
    BY <1>2, BecomesType DEF TypeInv, q
  <1>4. Footprint(r, d)
    BY <1>2, <1>3 DEF Footprint
  <1>5. AddressesDiffer' /\ AtHome(d) /\ Registered' = Registered
    BY DEF RegistryInv, AddressesDiffer, AtHome, HomeInv, Registered
  <1>6. table[d].key.dev = d /\ issued[d] # 0
    BY InFlight DEF HomeInv
  <1>7. HandlerInv(r)' /\ CreatorInv(r)'
    <2>1. q.pc \notin CreatePcs /\ q.pc \notin {"rotateUpdate", "rotateUndo"}
      BY <1>2 DEF CreatePcs
    <2> QED BY <2>1, <1>1, <1>2, <1>3, <1>5, <1>6 DEF HandlerInv, CreatorInv
  <1> QED BY <1>4, <1>5, <1>7, InFlight, StepSuffices

\* A backend call, whether it succeeds or fails, and a reply or a next step.
LEMMA CallHome ==
  ASSUME TypeInv, RegistryInv, NEW r \in Requests, NEW d \in Devices,
         req[r] # Idle, req[r].dev = d, req[r].pc \in CurrentPcs,
         NEW k \in Keys, k.dev = d,
         \/ route' = route
         \/ route' = RemovePeer(k)
         \/ route' = AddPeer(k, req[r].ip),
         NEW pc \in Pcs, pc \in CreatePcs <=> req[r].pc \in CreatePcs,
         pc \notin {"createInsert", "rotateUpdate", "rotateUndo"},
         \/ Goto(r, pc) /\ UNCHANGED told
         \/ \E answer \in Answers : Reply(r, answer),
         UNCHANGED <<table, handed, issued>>
  PROVE  RegistryInv'
  <1>I. /\ HomeInv(d) /\ req[r] \in Request /\ issued[d] # 0
        /\ d \in Registered /\ req[r].ip = table[d].ip
        /\ req[r].old \in Keys /\ req[r].old.dev = d
        /\ req[r].pc \in CreatePcs =>
             /\ \A s \in Requests : (req[s] # Idle /\ req[s].dev = d) => s = r
             /\ \A h \in handed : h.dev # d
             /\ req[r].pc # "createInsert" => table[d].active
        /\ req[r].pc # "createInsert"
    BY InFlight DEF CurrentPcs
  <1>1. /\ \A s \in Requests \ {r} : req'[s] = req[s]
        /\ \A e \in Devices \ {d} : told'[e] = told[e]
        /\ req'[r] = Idle \/ req'[r] = [req[r] EXCEPT !.pc = pc]
    BY ReplyType, GotoType DEF TypeInv
  <1>2. Footprint(r, d)
    <2>1. req'[r] = Idle \/ req'[r].dev = d
      BY <1>1, <1>I DEF Request
    <2> QED BY <2>1, <1>1, <1>I, CallFootprint DEF Footprint
  <1>3. AtHome(d)
    BY <1>I DEF AtHome, HomeInv, AddPeer, RemovePeer, Registered
  <1>4. AddressesDiffer' /\ Registered' = Registered
    BY DEF RegistryInv, AddressesDiffer, Registered
  <1>5. HandlerInv(r)' /\ CreatorInv(r)'
    <2>1. CASE req'[r] = Idle
      BY <2>1 DEF HandlerInv, CreatorInv
    <2>2. CASE req'[r] = [req[r] EXCEPT !.pc = pc]
      <3> DEFINE q == [req[r] EXCEPT !.pc = pc]
      <3>1. q.pc = pc /\ q.dev = d /\ q.old = req[r].old /\ q.ip = req[r].ip
        BY <1>I DEF Request, Pcs
      <3> HIDE DEF q
      <3>2. req'[r] = q
        BY <2>2 DEF q
      <3>3. HandlerInv(r)'
        BY <3>1, <3>2, <1>I, <1>4 DEF HandlerInv
      <3>4. CreatorInv(r)'
        BY <3>1, <3>2, <1>1, <1>I DEF CreatorInv
      <3> QED BY <3>3, <3>4
    <2> QED BY <2>1, <2>2, <1>1
  <1> QED BY <1>2, <1>3, <1>4, <1>5, InFlight, StepSuffices

\* A new address, of no record, for a device that was never seen.
LEMMA CreateInsertHome ==
  ASSUME TypeInv, RegistryInv, NEW r \in Requests, NEW d \in Devices, req[r].dev = d,
         CreateInsert(r)
  PROVE  RegistryInv'
  <1> USE DEF Pcs, CreatePcs
  <1>B. req[r] # Idle /\ req[r].pc = "createInsert"
    BY BusyAt DEF CreateInsert, At
  <1>I. /\ HomeInv(d) /\ req[r] \in Request /\ issued[d] # 0
        /\ \A s \in Requests : (req[s] # Idle /\ req[s].dev = d) => s = r
        /\ \A k \in handed : k.dev # d
        /\ d \notin Registered /\ \A a \in Ips : route[a] \in Keys => route[a].dev # d
    BY <1>B, InFlight
  <1> DEFINE a0 == nextAvailableIP
             k0 == FirstKey(d)
             row == [ip |-> a0, key |-> k0, active |-> TRUE]
             q == [req[r] EXCEPT !.pc = "createAdd", !.old = k0, !.ip = a0]
  <1>1. a0 \in FreeIps /\ a0 \in Ips /\ k0 \in Keys /\ k0.dev = d
    BY NextIsFree DEF CreateInsert, FirstKey, Keys
  <1>2. row \in Row /\ row.ip = a0 /\ row.key = k0 /\ row.active
    BY <1>1 DEF Row
  <1>3. q \in Request /\ q.pc = "createAdd" /\ q.dev = d /\ q.old = k0 /\ q.ip = a0
    BY <1>1, <1>I DEF Request
  <1>4. Becomes(r, q) /\ table' = [table EXCEPT ![d] = row]
        /\ UNCHANGED <<route, handed, issued, told>>
    BY DEF CreateInsert
  <1> HIDE DEF row, q, a0, k0
  <1>5. req'[r] = q /\ \A s \in Requests \ {r} : req'[s] = req[s]
    BY <1>3, <1>4, BecomesType DEF TypeInv
  <1>6. /\ table'[d] = row /\ \A e \in Devices \ {d} : table'[e] = table[e]
        /\ d \in Registered'
    BY <1>2, <1>4, RowFields DEF TypeInv, TypeOK, Registered
  <1>7. Footprint(r, d)
    BY <1>3, <1>4, <1>5, <1>6 DEF Footprint
  <1>8. AddressesDiffer'
    <2>1. \A e \in Registered : table[e].ip # a0
      BY <1>1 DEF FreeIps, a0
    <2> QED BY <2>1, <1>2, <1>6 DEF RegistryInv, AddressesDiffer, Registered
  <1>9. HomeInv(d)'
    BY <1>1, <1>2, <1>4, <1>6, <1>I DEF HomeInv
  <1>10. HandlerInv(r)'
    BY <1>1, <1>2, <1>3, <1>4, <1>5, <1>6, <1>I DEF HandlerInv
  <1>11. CreatorInv(r)'
    BY <1>2, <1>3, <1>4, <1>5, <1>6, <1>I DEF CreatorInv
  <1>12. /\ \A e \in Devices \ {d} : HomeInv(e)'
         /\ \A s \in Requests \ {r} : HandlerInv(s)' /\ CreatorInv(s)'
    BY <1>4, <1>7, <1>I, OthersStayHome
  <1>13. (\A e \in Devices : HomeInv(e))'
    BY <1>9, <1>12
  <1>14. (\A s \in Requests : HandlerInv(s) /\ CreatorInv(s))'
    BY <1>10, <1>11, <1>12
  <1> QED BY <1>8, <1>13, <1>14 DEF RegistryInv

\* A create that could not finish takes its record away again.
LEMMA CreateUndoHome ==
  ASSUME TypeInv, RegistryInv, NEW r \in Requests, NEW d \in Devices, req[r].dev = d,
         CreateUndo(r)
  PROVE  RegistryInv'
  <1> USE DEF Pcs, CreatePcs
  <1>B. req[r] # Idle /\ req[r].pc = "createUndo"
    BY BusyAt DEF CreateUndo, At
  <1>I. /\ HomeInv(d) /\ issued[d] # 0
        /\ \A s \in Requests : (req[s] # Idle /\ req[s].dev = d) => s = r
        /\ \A k \in handed : k.dev # d
    BY <1>B, InFlight
  <1>1. /\ table' = [table EXCEPT ![d] = NoRow] \/ table' = table
        /\ Reply(r, "unknown") /\ UNCHANGED <<route, handed, issued>>
    BY DEF CreateUndo
  <1>2. /\ req'[r] = Idle
        /\ \A s \in Requests \ {r} : req'[s] = req[s]
        /\ \A e \in Devices \ {d} : told'[e] = told[e]
    BY <1>1, <1>B, ReplyType DEF TypeInv, Answers
  <1>3. /\ \A e \in Devices \ {d} : table'[e] = table[e]
        /\ table'[d] = NoRow \/ table'[d] = table[d]
    BY <1>1 DEF TypeInv, TypeOK
  <1>4. Footprint(r, d)
    BY <1>1, <1>2, <1>3 DEF Footprint
  <1>5. AddressesDiffer'
    BY <1>3, AddressesKeep DEF RegistryInv
  <1>6. HomeInv(d)'
    BY <1>1, <1>3, <1>I DEF HomeInv, Registered
  <1>7. HandlerInv(r)' /\ CreatorInv(r)'
    BY <1>2 DEF HandlerInv, CreatorInv
  <1>8. /\ \A e \in Devices \ {d} : HomeInv(e)'
        /\ \A s \in Requests \ {r} : HandlerInv(s)' /\ CreatorInv(s)'
    BY <1>1, <1>4, <1>I, OthersStayHome
  <1>9. (\A e \in Devices : HomeInv(e))'
    BY <1>6, <1>8
  <1>10. (\A s \in Requests : HandlerInv(s) /\ CreatorInv(s))'
    BY <1>7, <1>8
  <1> QED BY <1>5, <1>9, <1>10 DEF RegistryInv

\* A rotation draws a key of its device.
LEMMA RotateAddHome ==
  ASSUME TypeInv, RegistryInv, NEW r \in Requests, NEW d \in Devices, req[r].dev = d,
         RotateAdd(r)
  PROVE  RegistryInv'
  <1> USE DEF Pcs, RotatePcs
  <1>B. /\ req[r] # Idle /\ req[r].pc = "rotateAdd"
        /\ req[r].pc \in CurrentPcs
    BY BusyAt DEF RotateAdd, At, CurrentPcs
  <1>I. /\ HomeInv(d) /\ req[r] \in Request /\ issued[d] # 0
        /\ d \in Registered /\ req[r].ip = table[d].ip
        /\ req[r].old \in Keys /\ req[r].old.dev = d
    BY <1>B, InFlight
  <1>T. issued \in [Devices -> Nat]
    BY DEF TypeInv, TypeOK
  <1> DEFINE k1 == NextKey(d)
             q == [req[r] EXCEPT !.pc = "rotateUpdate", !.new = k1]
  <1>1. k1 \in Keys /\ k1.dev = d
    BY <1>T DEF NextKey, Keys
  <1>2. /\ q \in Request /\ q.pc = "rotateUpdate" /\ q.dev = d
        /\ q.old = req[r].old /\ q.ip = req[r].ip /\ q.new = k1
    BY <1>1, <1>I DEF Request
  <1>3. /\ Becomes(r, q) \/ Goto(r, "rotateRestore")
        /\ route' = route \/ route' = AddPeer(k1, req[r].ip)
        /\ issued' = [issued EXCEPT ![d] = @ + 1]
        /\ UNCHANGED <<table, handed, told>>
    BY DEF RotateAdd, Succeeds, Fails
  <1> HIDE DEF q, k1
  <1>4. /\ \A s \in Requests \ {r} : req'[s] = req[s]
        /\ req'[r] = q \/ req'[r] = [req[r] EXCEPT !.pc = "rotateRestore"]
    BY <1>2, <1>3, <1>B, BecomesType, GotoType DEF TypeInv
  <1>5. issued'[d] # 0 /\ \A e \in Devices \ {d} : issued'[e] = issued[e]
    BY <1>3, <1>T
  <1>6. Footprint(r, d)
    <2>1. req'[r] = Idle \/ req'[r].dev = d
      BY <1>2, <1>4, <1>I DEF Request
    <2> QED BY <2>1, <1>1, <1>3, <1>4, <1>5, <1>I, CallFootprint DEF Footprint
  <1>7. AtHome(d)
    BY <1>1, <1>3, <1>5, <1>I DEF AtHome, HomeInv, AddPeer, Registered
  <1>8. AddressesDiffer' /\ Registered' = Registered
    BY <1>3 DEF RegistryInv, AddressesDiffer, Registered
  <1>9. HandlerInv(r)' /\ CreatorInv(r)'
    <2>1. CASE req'[r] = q
      <3>1. q.pc \notin CreatePcs
        BY <1>2 DEF CreatePcs
      <3> QED BY <3>1, <2>1, <1>1, <1>2, <1>3, <1>5, <1>8, <1>I DEF HandlerInv, CreatorInv
    <2>2. CASE req'[r] = [req[r] EXCEPT !.pc = "rotateRestore"]
      <3> DEFINE p == [req[r] EXCEPT !.pc = "rotateRestore"]
      <3>1. p.pc = "rotateRestore" /\ p.dev = d /\ p.old = req[r].old /\ p.ip = req[r].ip
        BY <1>I DEF Request
      <3>2. p.pc \notin CreatePcs /\ p.pc \notin {"rotateUpdate", "rotateUndo"}
        BY <3>1 DEF CreatePcs
      <3> HIDE DEF p
      <3>3. req'[r] = p
        BY <2>2 DEF p
      <3> QED BY <3>1, <3>2, <3>3, <1>3, <1>5, <1>8, <1>I DEF HandlerInv, CreatorInv
    <2> QED BY <2>1, <2>2, <1>4
  <1> QED BY <1>6, <1>7, <1>8, <1>9, <1>B, InFlight, StepSuffices

\* A new state or a new key of a record, and its reply.
LEMMA WriteHome ==
  ASSUME TypeInv, RegistryInv, NEW r \in Requests, NEW d \in Devices,
         req[r] # Idle, req[r].dev = d, d \in Registered, NEW row \in Row,
         table' = [table EXCEPT ![d] = row], row.ip = table[d].ip, row.key.dev = d,
         NEW answer \in Answers, Reply(r, answer), UNCHANGED <<route, handed, issued>>
  PROVE  RegistryInv'
  <1>1. /\ req'[r] = Idle
        /\ \A s \in Requests \ {r} : req'[s] = req[s]
        /\ \A e \in Devices \ {d} : told'[e] = told[e]
    BY ReplyType DEF TypeInv
  <1>2. table'[d] = row /\ \A e \in Devices \ {d} : table'[e] = table[e]
    BY DEF TypeInv, TypeOK
  <1>3. d \in Registered'
    BY <1>2, RowFields DEF Registered
  <1>4. Footprint(r, d) /\ HandlerInv(r)' /\ CreatorInv(r)'
    BY <1>1, <1>2 DEF Footprint, HandlerInv, CreatorInv
  <1>5. AddressesDiffer' /\ AtHome(d)
    BY <1>2, <1>3, AddressesKeep DEF RegistryInv, AtHome
  <1> QED BY <1>4, <1>5, InFlight, StepSuffices

\* The update at the end of a revocation.
LEMMA RevokeUpdateHome ==
  ASSUME TypeInv, RegistryInv, NEW r \in Requests, NEW d \in Devices, req[r].dev = d,
         RevokeUpdate(r)
  PROVE  RegistryInv'
  <1> USE DEF Pcs, RevokePcs
  <1>B. req[r] # Idle /\ req[r].pc \in CurrentPcs
    BY BusyAt DEF RevokeUpdate, At, CurrentPcs
  <1>A. "down" \in Answers /\ "unknown" \in Answers
    BY DEF Answers
  <1>I. d \in Registered /\ table[d] \in Row /\ table[d].key.dev = d
    BY <1>B, InFlight DEF HomeInv
  <1>1. CASE table' = table
    <2>1. Reply(r, "unknown") \/ Reply(r, "down")
      BY DEF RevokeUpdate, ReplyRead
    <2>2. UNCHANGED <<table, route, handed, issued>>
      BY <1>1 DEF RevokeUpdate
    <2> QED BY <2>1, <2>2, <1>A, <1>B, QuietReplyHome
  <1>2. CASE table' = [table EXCEPT ![d].active = FALSE]
    <2> DEFINE row == [table[d] EXCEPT !.active = FALSE]
    <2>1. row \in Row /\ row.ip = table[d].ip /\ row.key = table[d].key
      BY <1>I DEF Row
    <2>2. table' = [table EXCEPT ![d] = row]
      BY <1>2
    <2> HIDE DEF row
    <2>3. Reply(r, "unknown") \/ Reply(r, "down")
      BY DEF RevokeUpdate, ReplyRead
    <2>4. UNCHANGED <<route, handed, issued>>
      BY DEF RevokeUpdate
    <2> QED BY <2>1, <2>2, <2>3, <2>4, <1>A, <1>B, <1>I, WriteHome
  <1> QED BY <1>1, <1>2 DEF RevokeUpdate

\* The update at the end of a rotation, or the first step of its undoing.
LEMMA RotateUpdateHome ==
  ASSUME TypeInv, RegistryInv, NEW r \in Requests, NEW d \in Devices, req[r].dev = d,
         RotateUpdate(r)
  PROVE  RegistryInv'
  <1> USE DEF Pcs, RotatePcs
  <1>B. req[r] # Idle /\ req[r].pc = "rotateUpdate" /\ req[r].pc \in CurrentPcs
    BY BusyAt DEF RotateUpdate, At, CurrentPcs
  <1>A. "up" \in Answers /\ "unknown" \in Answers
    BY DEF Answers
  <1>I. /\ HomeInv(d) /\ req[r] \in Request /\ issued[d] # 0
        /\ d \in Registered /\ req[r].ip = table[d].ip /\ table[d] \in Row
        /\ req[r].old \in Keys /\ req[r].old.dev = d
        /\ req[r].new \in Keys /\ req[r].new.dev = d
    BY <1>B, InFlight
  <1>0. UNCHANGED <<route, handed, issued>>
    BY DEF RotateUpdate
  <1>1. CASE /\ table' = [table EXCEPT ![d].key = req[r].new]
             /\ Reply(r, "up") \/ Reply(r, "unknown")
    <2> DEFINE row == [table[d] EXCEPT !.key = req[r].new]
    <2>1. row \in Row /\ row.ip = table[d].ip /\ row.key = req[r].new
      BY <1>I DEF Row
    <2>2. table' = [table EXCEPT ![d] = row]
      BY <1>1
    <2> HIDE DEF row
    <2>3. row.key.dev = d
      BY <2>1, <1>I
    <2>4. PICK answer \in Answers : Reply(r, answer)
      BY <1>1, <1>A
    <2> QED BY <2>1, <2>2, <2>3, <2>4, <1>0, <1>B, <1>I, WriteHome
  <1>2. CASE Goto(r, "rotateUndo") /\ UNCHANGED <<table, told>>
    <2> DEFINE q == [req[r] EXCEPT !.pc = "rotateUndo"]
    <2>1. /\ q.pc = "rotateUndo" /\ q.dev = d /\ q.old = req[r].old
          /\ q.ip = req[r].ip /\ q.new = req[r].new
      BY <1>I DEF Request
    <2>2. req'[r] = q /\ \A s \in Requests \ {r} : req'[s] = req[s]
      BY <1>2, <1>B, GotoType DEF TypeInv
    <2> HIDE DEF q
    <2>3. Footprint(r, d)
      BY <1>0, <1>2, <2>1, <2>2 DEF Footprint
    <2>4. AddressesDiffer' /\ AtHome(d) /\ Registered' = Registered
      BY <1>0, <1>2, <1>I DEF RegistryInv, AddressesDiffer, AtHome, HomeInv, Registered
    <2>5. HandlerInv(r)' /\ CreatorInv(r)'
      <3>1. q.pc \notin CreatePcs
        BY <2>1 DEF CreatePcs
      <3> QED BY <3>1, <2>1, <2>2, <2>4, <1>0, <1>2, <1>I DEF HandlerInv, CreatorInv
    <2> QED BY <2>3, <2>4, <2>5, <1>B, InFlight, StepSuffices
  <1> QED BY <1>1, <1>2 DEF RotateUpdate, ReplyRead

\* A backend call of a create, a revocation or a rotation.
LEMMA BackendHome ==
  ASSUME TypeInv, RegistryInv, NEW r \in Requests, NEW d \in Devices, req[r].dev = d,
         \/ CreateAdd(r) \/ RevokeRemove(r) \/ RotateRemove(r)
         \/ RotateUndo(r) \/ RotateRestore(r)
  PROVE  RegistryInv'
  <1> USE DEF Pcs, CreatePcs, RevokePcs, RotatePcs
  <1>B. /\ req[r] # Idle /\ req[r].pc \in CurrentPcs
        /\ UNCHANGED <<table, handed, issued>>
    BY BusyAt DEF CreateAdd, RevokeRemove, RotateRemove, RotateUndo, RotateRestore, At,
       CurrentPcs
  <1>A. "up" \in Answers /\ "unknown" \in Answers
    BY DEF Answers
  <1>I. /\ req[r].old \in Keys /\ req[r].old.dev = d
        /\ req[r].pc = "rotateUndo" => req[r].new \in Keys /\ req[r].new.dev = d
    BY <1>B, InFlight
  <1>1. CASE CreateAdd(r)
    <2>1. /\ req[r].pc = "createAdd"
          /\ route' = route \/ route' = AddPeer(req[r].old, req[r].ip)
          /\ \/ Goto(r, "createUndo") /\ UNCHANGED told
             \/ \E answer \in Answers : Reply(r, answer)
      BY <1>1, <1>A DEF CreateAdd, At, Succeeds, Fails
    <2> QED BY <2>1, <1>B, <1>I, CallHome
  <1>2. CASE RevokeRemove(r)
    <2>1. /\ req[r].pc = "revokeRemove"
          /\ route' = route \/ route' = RemovePeer(req[r].old)
          /\ \/ Goto(r, "revokeUpdate") /\ UNCHANGED told
             \/ \E answer \in Answers : Reply(r, answer)
      BY <1>2, <1>A DEF RevokeRemove, At, Succeeds, Fails
    <2> QED BY <2>1, <1>B, <1>I, CallHome
  <1>3. CASE RotateRemove(r)
    <2>1. /\ req[r].pc = "rotateRemove"
          /\ route' = route \/ route' = RemovePeer(req[r].old)
          /\ \/ Goto(r, "rotateAdd") /\ UNCHANGED told
             \/ \E answer \in Answers : Reply(r, answer)
      BY <1>3, <1>A DEF RotateRemove, At, Succeeds, Fails
    <2> QED BY <2>1, <1>B, <1>I, CallHome
  <1>4. CASE RotateUndo(r)
    <2>1. /\ req[r].pc = "rotateUndo"
          /\ route' = route \/ route' = RemovePeer(req[r].new)
          /\ Goto(r, "rotateRestore") /\ UNCHANGED told
      BY <1>4 DEF RotateUndo, At, Succeeds, Fails
    <2> QED BY <2>1, <1>B, <1>I, CallHome
  <1>5. CASE RotateRestore(r)
    <2>1. /\ req[r].pc = "rotateRestore"
          /\ route' = route \/ route' = AddPeer(req[r].old, req[r].ip)
          /\ \E answer \in Answers : Reply(r, answer)
      BY <1>5, <1>A DEF RotateRestore, At, Succeeds, Fails
    <2> QED BY <2>1, <1>B, <1>I, CallHome
  <1> QED BY <1>1, <1>2, <1>3, <1>4, <1>5

\* The steps that read, or refuse.
LEMMA ReaderHome ==
  ASSUME TypeInv, RegistryInv, NEW r \in Requests, NEW d \in Devices, req[r].dev = d,
         CreateRefused(r) \/ ReadFails(r) \/ RevokeRead(r) \/ RotateRead(r)
  PROVE  RegistryInv'
  <1> USE DEF Pcs, CreatePcs, RevokePcs, RotatePcs
  <1>1. req[r] # Idle /\ UNCHANGED <<table, route, handed, issued>>
    BY BusyAt DEF CreateRefused, ReadFails, RevokeRead, RotateRead
  <1>2. \/ \E answer \in Answers : Reply(r, answer)
        \/ /\ d \in Registered /\ UNCHANGED told
           /\ \E pc \in {"revokeRemove", "rotateRemove"} :
                Becomes(r, [req[r] EXCEPT !.pc = pc, !.old = table[d].key,
                                          !.ip = table[d].ip])
    BY DEF CreateRefused, ReadFails, RevokeRead, RotateRead, Answers
  <1> QED BY <1>1, <1>2, QuietReplyHome, ReadHome

\* Any step of a request in flight.
LEMMA StepHome ==
  ASSUME TypeInv, RegistryInv, NEW r \in Requests, Step(r)
  PROVE  RegistryInv'
  <1>1. req[r] # Idle
    BY BusyAt DEF Step, CreateInsert, CreateRefused, CreateAdd, CreateUndo, ReadFails,
       RevokeRead, RevokeRemove, RevokeUpdate, RotateRead, RotateRemove, RotateAdd,
       RotateUpdate, RotateUndo, RotateRestore, Pcs, CreatePcs, RevokePcs, RotatePcs
  <1>2. PICK d \in Devices : req[r].dev = d
    BY <1>1, RequestFields DEF TypeInv
  <1> QED BY <1>2, CreateInsertHome, CreateUndoHome, BackendHome, ReaderHome,
             RevokeUpdateHome, RotateAddHome, RotateUpdateHome DEF Step

\* The start of a request. A create is of a device that nobody names, since only
\* devices with a key are named; the others wait for creates to end.
LEMMA StartHome ==
  ASSUME TypeInv, RegistryInv, CreateFirst, NEW r \in Requests, NEW d \in Devices,
         StartCreate(r, d) \/ StartRevoke(r, d) \/ StartRotate(r, d)
  PROVE  RegistryInv'
  <1>T. /\ issued \in [Devices -> Nat] /\ told \in [Devices -> Answers]
        /\ req \in [Requests -> Request \cup {Idle}]
    BY DEF TypeInv, TypeOK, Answers
  <1>1. PICK pc \in {"createInsert", "revokeRead", "rotateRead"} :
          /\ Start(r, pc, d)
          /\ pc = "createInsert" => issued[d] = 0
          /\ issued'[d] # 0
          /\ \A e \in Devices \ {d} : issued'[e] = issued[e]
    BY <1>T DEF StartCreate, StartRevoke, StartRotate
  <1> DEFINE q == [pc |-> pc, dev |-> d, old |-> NoKey, new |-> NoKey, ip |-> 0]
  <1>2. q.pc = pc /\ q.dev = d
    OBVIOUS
  <1>3. /\ req' = [req EXCEPT ![r] = q] /\ told' = [told EXCEPT ![d] = "unknown"]
        /\ UNCHANGED <<table, route, handed>>
    BY <1>1 DEF Start, Becomes
  <1> HIDE DEF q
  <1>4. \A s \in Requests : (req[s] # Idle /\ req[s].dev = d) => req[s].pc \notin CreatePcs
    BY <1>1 DEF Start, MayName, Naming
  <1>5. /\ req'[r] = q
        /\ \A s \in Requests \ {r} : req'[s] = req[s]
        /\ \A e \in Devices \ {d} : told'[e] = told[e]
    BY <1>3, <1>T
  <1>6. Footprint(r, d)
    BY <1>1, <1>2, <1>3, <1>5 DEF Footprint
  <1>7. AddressesDiffer' /\ AtHome(d) /\ Registered' = Registered
    BY <1>1, <1>3 DEF RegistryInv, AddressesDiffer, AtHome, HomeInv, Registered
  <1>8. /\ pc \notin CurrentPcs /\ pc \notin {"rotateUpdate", "rotateUndo"}
        /\ pc \in CreatePcs => pc = "createInsert"
    BY DEF CurrentPcs, CreatePcs
  <1>9. HandlerInv(r)'
    BY <1>1, <1>2, <1>5, <1>8 DEF HandlerInv
  <1>10. CreatorInv(r)'
    <2> SUFFICES ASSUME pc = "createInsert" PROVE CreatorInv(r)'
      BY <1>2, <1>5, <1>8 DEF CreatorInv
    <2>1. \A s \in Requests : req[s] # Idle => req[s].dev # d
      BY <1>1 DEF RegistryInv, HandlerInv
    <2>2. \A s \in Requests : (req'[s] # Idle /\ req'[s].dev = d) => s = r
      BY <2>1, <1>5
    <2>3. /\ d \notin Registered /\ \A k \in handed : k.dev # d
          /\ \A a \in Ips : route[a] \in Keys => route[a].dev # d
      BY <1>1 DEF RegistryInv, HomeInv
    <2> QED BY <2>2, <2>3, <1>2, <1>3, <1>5, <1>7 DEF CreatorInv
  <1> QED BY <1>4, <1>6, <1>7, <1>9, <1>10, StepSuffices

\* Handing out a key.
LEMMA ConfigHome ==
  ASSUME TypeInv, RegistryInv, CreateFirst, NEW d \in Devices, ClientConfig(d)
  PROVE  RegistryInv'
  <1>1. /\ d \in Registered
        /\ \A r \in Requests : (req[r] # Idle /\ req[r].dev = d) => req[r].pc \notin CreatePcs
        /\ handed' = handed \cup {table[d].key}
        /\ UNCHANGED <<table, route, issued, req>>
        /\ Registered' = Registered
    BY DEF ClientConfig, Naming, Registered
  <1>2. table[d].key.dev = d
    BY <1>1 DEF RegistryInv, HomeInv
  <1>3. (\A e \in Devices : HomeInv(e))'
    BY <1>1, <1>2 DEF RegistryInv, HomeInv
  <1>4. ASSUME NEW r \in Requests PROVE HandlerInv(r)' /\ CreatorInv(r)'
    <2>1. HandlerInv(r)'
      BY <1>1 DEF RegistryInv, HandlerInv
    <2>2. CreatorInv(r)'
      BY <1>1, <1>2 DEF RegistryInv, CreatorInv
    <2> QED BY <2>1, <2>2
  <1>5. AddressesDiffer'
    BY <1>1 DEF RegistryInv, AddressesDiffer
  <1> QED BY <1>3, <1>4, <1>5 DEF RegistryInv

\* Every step keeps the invariant, and with it the types.
LEMMA RegistryStep ==
  ASSUME CreateFirst, TypeInv, RegistryInv, [Next]_vars
  PROVE  RegistryInv'
  <1>1. CASE Crash \/ UNCHANGED vars
    <2>1. /\ UNCHANGED <<table, route, handed, issued>>
          /\ \A r \in Requests : req'[r] = Idle \/ req'[r] = req[r]
          /\ Registered' = Registered
      BY <1>1 DEF Crash, vars, Registered
    <2>2. (\A d \in Devices : HomeInv(d))' /\ AddressesDiffer'
      BY <2>1 DEF RegistryInv, HomeInv, AddressesDiffer
    <2>3. ASSUME NEW r \in Requests PROVE HandlerInv(r)' /\ CreatorInv(r)'
      <3>1. HandlerInv(r)'
        BY <2>1 DEF RegistryInv, HandlerInv
      <3>2. CreatorInv(r)'
        BY <2>1 DEF RegistryInv, CreatorInv
      <3> QED BY <3>1, <3>2
    <2> QED BY <2>2, <2>3 DEF RegistryInv
  <1> QED BY <1>1, StartHome, StepHome, ConfigHome DEF Next

\* It holds in every reachable state.
LEMMA RegistryInvariant ==
  ASSUME CreateFirst
  PROVE  Spec => []RegistryInv
  <1>1. Init => RegistryInv
    BY KeyFields DEF Init, RegistryInv, AddressesDiffer, HomeInv, HandlerInv, CreatorInv,
       Registered
  <1>2. TypeInv /\ RegistryInv /\ [Next]_vars => RegistryInv'
    BY RegistryStep
  <1> QED BY <1>1, <1>2, TypeInvariant, PTL DEF Spec

-----------------------------------------------------------------------------
(* Theorems *)

\* However creates, revocations and rotations of several devices overlap and
\* fail, traffic of a registered device's address never goes to a key that a
\* client was given for another device.
THEOREM NoForeignRoutes ==
  ASSUME CreateFirst
  PROVE  Spec => []NoForeignRoute
  <1>1. TypeInv /\ RegistryInv => NoForeignRoute
    <2> SUFFICES ASSUME TypeInv, RegistryInv, NEW k \in handed, NEW d \in Registered,
                        route[table[d].ip] = k
                 PROVE  k.dev = d
      BY DEF NoForeignRoute
    <2>1. k \in Keys /\ k.dev \in Devices /\ d \in Devices /\ table[d].ip \in Ips
      BY KeyFields, RowFields DEF TypeInv, TypeOK, Registered
    <2>2. k.dev \in Registered /\ table[d].ip = table[k.dev].ip
      BY <2>1 DEF RegistryInv, HomeInv
    <2> QED BY <2>2 DEF RegistryInv, AddressesDiffer
  <1> QED BY <1>1, TypeInvariant, RegistryInvariant, PTL

\* The records change only as the registry promises: entered at a free address,
\* rekeyed while active, revoked for good, dropped only by their own create.
THEOREM RegistryImplemented ==
  ASSUME CreateFirst
  PROVE  Spec => ImplementsRegistry
  <1>1. Init => Registry!Init
    BY DEF Init, Registry!Init
  <1>2. ASSUME TypeInv, RegistryInv, [Next]_vars PROVE [Registry!Next]_table
    <2> USE DEF Pcs, CreatePcs, RevokePcs, RotatePcs
    <2>T. table \in [Devices -> Row \cup {NoRow}]
      BY <1>2 DEF TypeInv, TypeOK
    <2>1. ASSUME NEW r \in Requests, NEW d \in Devices, req[r].dev = d, CreateInsert(r)
          PROVE  Registry!Enter(d, nextAvailableIP) /\ nextAvailableIP \in Ips
      <3>1. req[r] # Idle /\ req[r].pc = "createInsert"
        BY <2>1, BusyAt DEF CreateInsert, At
      <3>2. table[d] = NoRow
        BY <3>1, <2>1, <1>2, InFlight DEF Registered
      <3>3. nextAvailableIP \in FreeIps /\ nextAvailableIP \in Ips
        BY <2>1, NextIsFree DEF CreateInsert
      <3> DEFINE row == [ip |-> nextAvailableIP, key |-> FirstKey(d), active |-> TRUE]
      <3>4. table' = [table EXCEPT ![d] = row]
        BY <2>1 DEF CreateInsert
      <3>5. row \in Row /\ row.key = FirstKey(d)
        BY <3>3 DEF Row, FirstKey, Keys
      <3>6. row = [ip |-> nextAvailableIP, key |-> row.key, active |-> TRUE]
        OBVIOUS
      <3> HIDE DEF row
      <3>7. table'[d] = row /\ row # NoRow
        BY <3>4, <3>5, <2>T, RowFields
      <3>8. Registry!Holders(nextAvailableIP) = {}
        BY <3>3 DEF Registry!Holders, FreeIps, Registered
      <3> QED BY <3>2, <3>3, <3>4, <3>6, <3>7, <3>8 DEF Registry!Enter
    <2>2. ASSUME NEW r \in Requests, NEW d \in Devices, req[r].dev = d, CreateUndo(r)
          PROVE  Registry!Drop(d) \/ UNCHANGED table
      <3>1. req[r] # Idle /\ req[r].pc = "createUndo" /\ req[r].pc \in CurrentPcs
        BY <2>2, BusyAt DEF CreateUndo, At, CurrentPcs
      <3>2. table[d] # NoRow /\ table[d].active
        BY <3>1, <2>2, <1>2, InFlight DEF Registered
      <3> QED BY <3>2, <2>2 DEF CreateUndo, Registry!Drop
    <2>3. ASSUME NEW r \in Requests, NEW d \in Devices, req[r].dev = d, RevokeUpdate(r)
          PROVE  Registry!Revoke(d) \/ UNCHANGED table
      BY <2>3 DEF RevokeUpdate, Registry!Revoke, Registered
    <2>4. ASSUME NEW r \in Requests, NEW d \in Devices, req[r].dev = d, RotateUpdate(r)
          PROVE  Registry!Rekey(d) \/ UNCHANGED table
      <3> SUFFICES ASSUME d \in Registered, table[d].active,
                          table' = [table EXCEPT ![d].key = req[r].new]
                   PROVE  Registry!Rekey(d)
        BY <2>4 DEF RotateUpdate
      <3> DEFINE row == [table[d] EXCEPT !.key = req[r].new]
      <3>1. req[r] # Idle /\ req[r].pc = "rotateUpdate" /\ req[r].pc \in CurrentPcs
        BY <2>4, BusyAt DEF RotateUpdate, At, CurrentPcs
      <3>2. req[r].new \in Keys /\ table[d] \in Row
        BY <3>1, <2>4, <1>2, InFlight
      <3>3. row \in Row /\ row.key = req[r].new
        BY <3>2 DEF Row
      <3>4. table' = [table EXCEPT ![d] = row]
        OBVIOUS
      <3> HIDE DEF row
      <3>5. table'[d] = row /\ row # NoRow
        BY <3>3, <3>4, <2>T, RowFields
      <3> QED BY <3>3, <3>5 DEF Registry!Rekey, Registered
    <2>5. CASE \E r \in Requests : Step(r)
      <3>1. PICK r \in Requests : Step(r)
        BY <2>5
      <3>2. req[r] # Idle
        BY <3>1, BusyAt DEF Step, CreateInsert, CreateRefused, CreateAdd, CreateUndo,
           ReadFails, RevokeRead, RevokeRemove, RevokeUpdate, RotateRead, RotateRemove,
           RotateAdd, RotateUpdate, RotateUndo, RotateRestore
      <3>3. PICK d \in Devices : req[r].dev = d
        BY <3>2, <1>2, RequestFields DEF TypeInv
      <3>4. CASE CreateInsert(r)
        BY <3>3, <3>4, <2>1 DEF Registry!Next
      <3>5. CASE CreateUndo(r) \/ RevokeUpdate(r) \/ RotateUpdate(r)
        BY <3>3, <3>5, <2>2, <2>3, <2>4 DEF Registry!Next
      <3>6. CASE /\ ~CreateInsert(r) /\ ~CreateUndo(r)
                 /\ ~RevokeUpdate(r) /\ ~RotateUpdate(r)
        BY <3>1, <3>6 DEF Step, CreateRefused, CreateAdd, ReadFails, RevokeRead,
           RevokeRemove, RotateRead, RotateRemove, RotateAdd, RotateUndo, RotateRestore
      <3> QED BY <3>4, <3>5, <3>6
    <2>6. CASE ~ \E r \in Requests : Step(r)
      BY <2>6, <1>2 DEF Next, StartCreate, StartRevoke, StartRotate, Start, ClientConfig,
         Crash, vars
    <2> QED BY <2>5, <2>6
  <1> QED BY <1>1, <1>2, TypeInvariant, RegistryInvariant, PTL
          DEF Spec, ImplementsRegistry, Registry!Spec
=============================================================================
