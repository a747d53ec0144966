--------------------------- MODULE VpnProvisioner ---------------------------
(***************************************************************************)
(* The VPN provisioner (vpn-provisioner/internal/devices): device records  *)
(* in SQLite, peers on the WireGuard interface, and the requests that keep *)
(* the two in step without a transaction over both.                        *)
(*                                                                         *)
(* Every request is a goroutine; nothing serialises them but the database  *)
(* handle, which has one connection, so a repository call is one action.   *)
(* A backend call (`wg set` through docker or a sudo script) is one action *)
(* that may fail, before or after it took effect: vpn-add-peer changes the *)
(* interface and then saves it, and reports the save's error.              *)
(***************************************************************************)
EXTENDS Naturals, FiniteSets

CONSTANTS
  Devices,        \* uuids
  Requests,       \* goroutines
  LastIp,         \* WG_DEVICE_END_IP, counted from WG_DEVICE_START_IP = 1
  MaxKeys,        \* bound: keys of a device beyond which no rotation starts
  MaxFaults,      \* bound: failed calls and crashes
  CreateFirst,    \* TRUE: a device is named only once its create has ended
  SerialDevices   \* TRUE: and one create, revoke or rotate at a time names it

ASSUME ProvisionerAssumption ==
  /\ LastIp \in Nat
  /\ MaxKeys \in Nat
  /\ MaxFaults \in Nat
  /\ CreateFirst \in BOOLEAN
  /\ SerialDevices \in BOOLEAN

VARIABLES
  table,    \* vpn_devices
  route,    \* the interface: the peer whose allowed-ips hold an address
  handed,   \* keys that left with a client config or QR code
  issued,   \* key pairs generated per device
  req,      \* what each goroutine is doing
  told,     \* the reply to the last request for a device
  faults    \* failed calls and crashes so far

vars == <<table, route, handed, issued, req, told, faults>>

-----------------------------------------------------------------------------
Ips == 1..LastIp

\* Generated keys never repeat: the n-th key made for a device.
Keys == [dev : Devices, n : Nat \ {0}]
NoKey == [dev |-> "none"]
NoRow == [ip |-> 0]
Row == [ip : Ips, key : Keys, active : BOOLEAN]

CreatePcs == {"createInsert", "createAdd", "createUndo"}
RevokePcs == {"revokeRead", "revokeRemove", "revokeUpdate"}
RotatePcs == {"rotateRead", "rotateRemove", "rotateAdd", "rotateUpdate",
              "rotateUndo", "rotateRestore"}

\* old, ip: the key and address the handler has read (or inserted); new: the
\* key it has generated.
Request == [pc : CreatePcs \cup RevokePcs \cup RotatePcs, dev : Devices,
            old : Keys \cup {NoKey}, new : Keys \cup {NoKey}, ip : Ips \cup {0}]
Idle == [pc |-> "idle"]

\* Type invariant: whatever fails, a record keeps an address and a key of a pool,
\* and the interface holds keys that were generated.
TypeOK ==
  /\ table \in [Devices -> Row \cup {NoRow}]
  /\ route \in [Ips -> Keys \cup {NoKey}]
  /\ handed \subseteq Keys
  /\ issued \in [Devices -> Nat]
  /\ req \in [Requests -> Request \cup {Idle}]
  /\ told \in [Devices -> {"unknown", "up", "down"}]
  /\ faults \in Nat

Registered == {d \in Devices : table[d] # NoRow}

At(r, pc) == req[r].pc = pc
Becomes(r, q) == req' = [req EXCEPT ![r] = q]
Goto(r, pc) == Becomes(r, [req[r] EXCEPT !.pc = pc])

Fault == faults < MaxFaults /\ faults' = faults + 1

\* The reply tells the client that the device is up, down, or neither (an error).
Reply(r, answer) ==
  /\ Becomes(r, Idle)
  /\ told' = [told EXCEPT ![req[r].dev] = answer]

\* The same after the record was read once more for it, which may fail.
ReplyRead(r, answer) ==
  \/ Reply(r, answer) /\ UNCHANGED faults
  \/ Fault /\ Reply(r, "unknown")

-----------------------------------------------------------------------------
(* The backend: an address belongs to one peer, the last one to claim it. *)

AddPeer(k, ip) ==
  [a \in Ips |-> IF a = ip THEN k ELSE IF route[a] = k THEN NoKey ELSE route[a]]

RemovePeer(k) == [a \in Ips |-> IF route[a] = k THEN NoKey ELSE route[a]]

Succeeds(effect) == route' = effect /\ UNCHANGED faults

Fails(effect) == Fault /\ route' \in {route, effect}

-----------------------------------------------------------------------------
Init ==
  /\ table = [d \in Devices |-> NoRow]
  /\ route = [a \in Ips |-> NoKey]
  /\ handed = {}
  /\ issued = [d \in Devices |-> 0]
  /\ req = [r \in Requests |-> Idle]
  /\ told = [d \in Devices |-> "unknown"]
  /\ faults = 0

Naming(d) == {r \in Requests : req[r] # Idle /\ req[r].dev = d}

MayName(d) ==
  /\ CreateFirst => \A r \in Naming(d) : req[r].pc \notin CreatePcs
  /\ SerialDevices => Naming(d) = {}

Start(r, pc, d) ==
  /\ req[r] = Idle
  /\ MayName(d)
  /\ Becomes(r, [pc |-> pc, dev |-> d, old |-> NoKey, new |-> NoKey, ip |-> 0])
  /\ told' = [told EXCEPT ![d] = "unknown"]
  /\ UNCHANGED <<table, route, handed, faults>>

\* A new uuid and a new key pair.
StartCreate(r, d) ==
  /\ issued[d] = 0
  /\ issued' = [issued EXCEPT ![d] = 1]
  /\ Start(r, "createInsert", d)

\* A uuid that was never generated is 404 and changes nothing.
StartRevoke(r, d) ==
  /\ issued[d] # 0
  /\ Start(r, "revokeRead", d)
  /\ UNCHANGED issued

StartRotate(r, d) ==
  /\ issued[d] # 0 /\ issued[d] < MaxKeys
  /\ Start(r, "rotateRead", d)
  /\ UNCHANGED issued

-----------------------------------------------------------------------------
(* POST /v1/devices *)

\* Mutant: the addresses of revoked records are taken again.
FreeIpsOfActive ==
  {a \in Ips : \A d \in Registered : table[d].active => table[d].ip # a}

FreeIps == {a \in Ips : \A d \in Registered : table[d].ip # a}

nextAvailableIP == CHOOSE a \in FreeIps : \A b \in FreeIps : a <= b

FirstKey(d) == [dev |-> d, n |-> 1]

CreateInsert(r) ==
  /\ At(r, "createInsert")
  /\ FreeIps # {}
  /\ LET d == req[r].dev IN
     /\ table' = [table EXCEPT ![d] = [ip |-> nextAvailableIP,
                                      key |-> FirstKey(d), active |-> TRUE]]
     /\ Becomes(r, [req[r] EXCEPT !.pc = "createAdd", !.old = FirstKey(d),
                                  !.ip = nextAvailableIP])
  /\ UNCHANGED <<route, handed, issued, told, faults>>

CreateRefused(r) ==
  /\ At(r, "createInsert")
  /\ \/ FreeIps = {} /\ UNCHANGED faults
     \/ Fault
  /\ Reply(r, "unknown")
  /\ UNCHANGED <<table, route, handed, issued>>

CreateAdd(r) ==
  LET added == AddPeer(req[r].old, req[r].ip) IN
  /\ At(r, "createAdd")
  /\ \/ Succeeds(added) /\ Reply(r, "up")
     \/ Fails(added) /\ Goto(r, "createUndo") /\ UNCHANGED told
  /\ UNCHANGED <<table, handed, issued>>

\* DeleteByUUID; its error is ignored.
CreateUndo(r) ==
  /\ At(r, "createUndo")
  /\ \/ table' = [table EXCEPT ![req[r].dev] = NoRow] /\ UNCHANGED faults
     \/ Fault /\ UNCHANGED table
  /\ Reply(r, "unknown")
  /\ UNCHANGED <<route, handed, issued>>

-----------------------------------------------------------------------------
(* POST /v1/devices/{uuid}/revoke *)

\* The first read of a revocation or a rotation fails: an error, and no change.
ReadFails(r) ==
  /\ At(r, "revokeRead") \/ At(r, "rotateRead")
  /\ Fault
  /\ Reply(r, "unknown")
  /\ UNCHANGED <<table, route, handed, issued>>

\* 404, success for a device that is inactive, or the key to remove.
RevokeRead(r) ==
  LET d == req[r].dev IN
  /\ At(r, "revokeRead")
  /\ \/ d \notin Registered /\ Reply(r, "unknown")
     \/ d \in Registered /\ ~table[d].active /\ Reply(r, "down")
     \/ /\ d \in Registered /\ table[d].active
        /\ Becomes(r, [req[r] EXCEPT !.pc = "revokeRemove", !.old = table[d].key,
                                     !.ip = table[d].ip])
        /\ UNCHANGED told
  /\ UNCHANGED <<table, route, handed, issued, faults>>

\* Mutant: the error of RemovePeer is ignored, as Rotate's undo does.
RevokeRemoveIgnoringErrors(r) ==
  LET removed == RemovePeer(req[r].old) IN
  /\ At(r, "revokeRemove")
  /\ Succeeds(removed) \/ Fails(removed)
  /\ Goto(r, "revokeUpdate")
  /\ UNCHANGED <<table, handed, issued, told>>

RevokeRemove(r) ==
  LET removed == RemovePeer(req[r].old) IN
  /\ At(r, "revokeRemove")
  /\ \/ Succeeds(removed) /\ Goto(r, "revokeUpdate") /\ UNCHANGED told
     \/ Fails(removed) /\ Reply(r, "unknown")
  /\ UNCHANGED <<table, handed, issued>>

\* Mutant: the key is wiped from the record.
RevokeUpdateWipesKey(r) ==
  /\ At(r, "revokeUpdate")
  /\ req[r].dev \in Registered
  /\ table' = [table EXCEPT ![req[r].dev].active = FALSE,
                            ![req[r].dev].key = NoKey]
  /\ Reply(r, "down")
  /\ UNCHANGED <<route, handed, issued, faults>>

\* UPDATE ... WHERE uuid = ? AND is_active = 1: no matching row is no error.
\* The record is read again for the reply: none is 404.
RevokeUpdate(r) ==
  LET d == req[r].dev IN
  /\ At(r, "revokeUpdate")
  /\ \/ /\ d \in Registered
        /\ table' = [table EXCEPT ![d].active = FALSE]
        /\ ReplyRead(r, "down")
     \/ d \notin Registered /\ Reply(r, "unknown") /\ UNCHANGED <<table, faults>>
     \/ Fault /\ Reply(r, "unknown") /\ UNCHANGED table
  /\ UNCHANGED <<route, handed, issued>>

-----------------------------------------------------------------------------
(* POST /v1/devices/{uuid}/rotate *)

RotateRead(r) ==
  LET d == req[r].dev IN
  /\ At(r, "rotateRead")
  /\ \/ /\ d \in Registered /\ table[d].active
        /\ Becomes(r, [req[r] EXCEPT !.pc = "rotateRemove", !.old = table[d].key,
                                     !.ip = table[d].ip])
        /\ UNCHANGED told
     \/ (d \in Registered => ~table[d].active) /\ Reply(r, "unknown")
  /\ UNCHANGED <<table, route, handed, issued, faults>>

RotateRemove(r) ==
  LET removed == RemovePeer(req[r].old) IN
  /\ At(r, "rotateRemove")
  /\ \/ Succeeds(removed) /\ Goto(r, "rotateAdd") /\ UNCHANGED told
     \/ Fails(removed) /\ Reply(r, "unknown")
  /\ UNCHANGED <<table, handed, issued>>

NextKey(d) == [dev |-> d, n |-> issued[d] + 1]

\* Mutant: the error of AddPeer is ignored.
RotateAddIgnoringErrors(r) ==
  LET d == req[r].dev
      added == AddPeer(NextKey(d), req[r].ip)
  IN
  /\ At(r, "rotateAdd")
  /\ Succeeds(added) \/ Fails(added)
  /\ Becomes(r, [req[r] EXCEPT !.pc = "rotateUpdate", !.new = NextKey(d)])
  /\ issued' = [issued EXCEPT ![d] = @ + 1]
  /\ UNCHANGED <<table, handed, told>>

\* GenerateKeyPair and AddPeer; the failure of either restores the old peer.
RotateAdd(r) ==
  LET d == req[r].dev
      added == AddPeer(NextKey(d), req[r].ip)
  IN
  /\ At(r, "rotateAdd")
  /\ \/ /\ Succeeds(added)
        /\ Becomes(r, [req[r] EXCEPT !.pc = "rotateUpdate", !.new = NextKey(d)])
     \/ Fails(added) /\ Goto(r, "rotateRestore")
  /\ issued' = [issued EXCEPT ![d] = @ + 1]
  /\ UNCHANGED <<table, handed, told>>

\* UPDATE ... WHERE uuid = ? AND is_active = 1: no matching row is an error.
\* The record is read again for the reply.
RotateUpdate(r) ==
  LET d == req[r].dev
      matches == d \in Registered /\ table[d].active
  IN
  /\ At(r, "rotateUpdate")
  /\ \/ /\ matches
        /\ table' = [table EXCEPT ![d].key = req[r].new]
        /\ ReplyRead(r, "up")
     \/ /\ \/ ~matches /\ UNCHANGED faults
           \/ Fault
        /\ Goto(r, "rotateUndo")
        /\ UNCHANGED <<table, told>>
  /\ UNCHANGED <<route, handed, issued>>

\* RemovePeer of the new key and AddPeer of the old; their errors are ignored.
RotateUndo(r) ==
  LET removed == RemovePeer(req[r].new) IN
  /\ At(r, "rotateUndo")
  /\ Succeeds(removed) \/ Fails(removed)
  /\ Goto(r, "rotateRestore")
  /\ UNCHANGED <<table, handed, issued, told>>

RotateRestore(r) ==
  LET restored == AddPeer(req[r].old, req[r].ip) IN
  /\ At(r, "rotateRestore")
  /\ Succeeds(restored) \/ Fails(restored)
  /\ Reply(r, "unknown")
  /\ UNCHANGED <<table, handed, issued>>

-----------------------------------------------------------------------------
\* GET /v1/devices/{uuid}/config and /qr: the private key of an active record.
\* The create's caller has no uuid to ask with before the reply.
ClientConfig(d) ==
  /\ d \in Registered /\ table[d].active
  /\ CreateFirst => \A r \in Naming(d) : req[r].pc \notin CreatePcs
  /\ handed' = handed \cup {table[d].key}
  /\ UNCHANGED <<table, route, issued, req, told, faults>>

\* The process dies; SQLite and the interface stay as they are, and the start
\* of the next process compares nothing.
Crash ==
  /\ Fault
  /\ \E r \in Requests : req[r] # Idle
  /\ req' = [r \in Requests |-> Idle]
  /\ UNCHANGED <<table, route, handed, issued, told>>

Step(r) ==
  \/ CreateInsert(r) \/ CreateRefused(r) \/ CreateAdd(r) \/ CreateUndo(r)
  \/ ReadFails(r) \/ RevokeRead(r) \/ RevokeRemove(r) \/ RevokeUpdate(r)
  \/ RotateRead(r) \/ RotateRemove(r) \/ RotateAdd(r) \/ RotateUpdate(r)
  \/ RotateUndo(r) \/ RotateRestore(r)

Next ==
  \/ \E r \in Requests, d \in Devices :
       StartCreate(r, d) \/ StartRevoke(r, d) \/ StartRotate(r, d)
  \/ \E r \in Requests : Step(r)
  \/ \E d \in Devices : ClientConfig(d)
  \/ Crash

Spec == Init /\ [][Next]_vars

-----------------------------------------------------------------------------
(* Properties *)

\* The traffic of a registered device's address never goes to a key some other
\* device was given, however the requests of both interleave and fail: an
\* address is not taken from a record, and a late undo adds only its own.
NoForeignRoute ==
  \A k \in handed, d \in Registered : route[table[d].ip] = k => k.dev = d

\* A key a client holds carries traffic only while it is the key of an active
\* record: rotation retires the key before, revocation the device. Failed calls
\* and crashes do not weaken this when each device has one request at a time.
RoutedKeyIsCurrent ==
  \A k \in handed, a \in Ips :
    route[a] = k =>
      /\ k.dev \in Registered
      /\ table[k.dev] = [ip |-> a, key |-> k, active |-> TRUE]

\* What a reply says of the device is so until the next request for it: after a
\* create or a rotation that succeeded its key is routed, after a revocation
\* the record is inactive.
RepliesAreTrue ==
  \A d \in Devices :
    /\ told[d] = "up" =>
         /\ d \in Registered /\ table[d].active
         /\ route[table[d].ip] = table[d].key
    /\ told[d] = "down" => d \in Registered /\ ~table[d].active

\* "revoke removes peer ... and marks device inactive": once it has said so, no
\* key a client holds for the device carries traffic.
RevokeRemovesPeer ==
  \A d \in Devices :
    told[d] = "down" => \A k \in handed, a \in Ips : route[a] = k => k.dev # d

\* The table is the registry.
Registry == INSTANCE DeviceRegistry WITH
  Addresses <- Ips, NoRecord <- NoRow, records <- table

\* The records change as DeviceRegistry says, whatever happens to the peers and
\* however creates, revocations and rotations interleave.
ImplementsRegistry == Registry!Spec
=============================================================================
