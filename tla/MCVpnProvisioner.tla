------------------------- MODULE MCVpnProvisioner -------------------------
(* Instances of VpnProvisioner for TLC. *)
EXTENDS VpnProvisioner, TLC

CONSTANTS d1, d2, d3, r1, r2

TwoDevices == {d1, d2}
ThreeDevices == {d1, d2, d3}
TwoRequests == {r1, r2}

Symmetry == Permutations(Devices) \cup Permutations(Requests)
=============================================================================
