---------------------------- MODULE ReviewLedger ----------------------------
(***************************************************************************)
(* What the review of inspections promises, whatever the transactions      *)
(* behind it: each inspection has a ledger of decisions that only grows; a *)
(* person takes one decision at a time and never repeats the standing one; *)
(* the system closes a batch of inspections at a stroke, and only ones     *)
(* that are open at that moment.                                           *)
(***************************************************************************)
EXTENDS Naturals, Sequences

CONSTANTS Inspections, People, System

VARIABLE ledger     \* inspection -> sequence of [to, by]

OpenStatuses == {"PENDING", "IN_REVIEW"}
Statuses == OpenStatuses \cup {"APPROVED", "REJECTED"}

\* An inspection is created IN_REVIEW and has no decision yet.
Standing(i) ==
  IF ledger[i] = <<>> THEN "IN_REVIEW" ELSE ledger[i][Len(ledger[i])].to

Init == ledger = [i \in Inspections |-> <<>>]

Decide(i, p, s) ==
  /\ s # Standing(i)
  /\ ledger' = [ledger EXCEPT ![i] = Append(@, [to |-> s, by |-> p])]

Sweep(S) ==
  /\ \A i \in S : Standing(i) \in OpenStatuses
  /\ ledger' = [i \in Inspections |->
                  IF i \in S THEN Append(ledger[i], [to |-> "APPROVED", by |-> System])
                  ELSE ledger[i]]

Next ==
  \/ \E i \in Inspections, p \in People, s \in Statuses : Decide(i, p, s)
  \/ \E S \in SUBSET Inspections : Sweep(S)

Spec == Init /\ [][Next]_ledger
=============================================================================
