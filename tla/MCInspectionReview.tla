------------------------- MODULE MCInspectionReview -------------------------
(* Instances of InspectionReview for TLC. *)
EXTENDS InspectionReview

CONSTANTS i1, i2, lead1, admin, beat, http

TwoInspections == {i1, i2}
OneLead == {lead1}
TwoRuns == {beat, http}

=============================================================================
