------------------------- MODULE MCInspectionIntake -------------------------
(* Instances of InspectionIntake for TLC. *)
EXTENDS InspectionIntake

CONSTANTS u1, u2, w1, w2, unit1

TwoUsers == {u1, u2}
TwoWorkers == {w1, w2}
OneUnit == {unit1}
OneDirection == {"inbound"}
=============================================================================
