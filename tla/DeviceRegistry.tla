--------------------------- MODULE DeviceRegistry ---------------------------
(***************************************************************************)
(* What the VPN service promises about its device records, whatever it     *)
(* does to the WireGuard interface on the way: a record is entered with an *)
(* address no other record holds, a revoked one's included; its key, any   *)
(* new one, changes only while it is active; revocation is final; and only *)
(* active records are ever dropped (by the create that could not finish).  *)
(***************************************************************************)
EXTENDS Naturals

CONSTANTS Devices, Addresses, NoRecord

VARIABLE records    \* device -> [ip, key, active] or NoRecord

Holders(ip) == {d \in Devices : records[d] # NoRecord /\ records[d].ip = ip}

Init == records = [d \in Devices |-> NoRecord]

Enter(d, ip) ==
  /\ records[d] = NoRecord
  /\ records'[d] # NoRecord
  /\ Holders(ip) = {}
  /\ records' = [records EXCEPT ![d] = [ip |-> ip, key |-> records'[d].key,
                                       active |-> TRUE]]

Drop(d) ==
  /\ records[d] # NoRecord
  /\ records[d].active
  /\ records' = [records EXCEPT ![d] = NoRecord]

Rekey(d) ==
  /\ records[d] # NoRecord
  /\ records[d].active
  /\ records'[d] # NoRecord
  /\ records' = [records EXCEPT ![d].key = records'[d].key]

Revoke(d) ==
  /\ records[d] # NoRecord
  /\ records' = [records EXCEPT ![d].active = FALSE]

Next ==
  \E d \in Devices :
    \/ \E ip \in Addresses : Enter(d, ip)
    \/ Drop(d)
    \/ Rekey(d)
    \/ Revoke(d)

Spec == Init /\ [][Next]_records
=============================================================================
