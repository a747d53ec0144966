----------------------------- MODULE MCUserVpn -----------------------------
(* UserVpn for TLC. *)
EXTENDS UserVpn, TLC

CONSTANTS w1, w2

OneUser == {1}
TwoUsers == {1, 2}
OneWorker == {w1}
TwoWorkers == {w1, w2}
AnyWorker == Permutations({w1, w2})
=============================================================================
