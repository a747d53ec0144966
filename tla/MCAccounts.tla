----------------------------- MODULE MCAccounts -----------------------------
(* Accounts for TLC. *)
EXTENDS Accounts

LOCAL INSTANCE TLC

CONSTANTS u1, u2, p1, p2, p3, w1, w2

TwoUsers == {u1, u2}
SecondUser == {u2}
ThreePhones == {p1, p2, p3}
TwoWorkers == {w1, w2}

\* Neither the phones nor the processes are told apart.
Alike == {f @@ g : f \in Permutations(ThreePhones), g \in Permutations(TwoWorkers)}
=============================================================================
