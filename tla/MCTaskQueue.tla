---------------------------- MODULE MCTaskQueue ----------------------------
(* Instances of TaskQueue for TLC. *)
EXTENDS TaskQueue, TLC

CONSTANTS t1, t2, p1, p2

OneTask == {t1}
TwoTasks == {t1, t2}
TwoWorkers == {p1, p2}

Symmetry == Permutations(Workers)
=============================================================================
