----------------------------- MODULE AtomicTask -----------------------------
(***************************************************************************)
(* What the task engine promises to the operations built on it: a mutation *)
(* is opened, takes effect at one instant or not at all, and is closed     *)
(* only in one of these two states.  Crashes, retries, rollback and        *)
(* roll-forward are invisible here.                                        *)
(***************************************************************************)

VARIABLES
  status,   \* "open" while the mutation is unresolved
  outcome   \* "applied" once the mutation can no longer be taken back

vars == <<status, outcome>>

Init == status = "closed" /\ outcome \in {"applied", "unapplied"}

\* A new mutation begins.
Open == status = "closed" /\ status' = "open" /\ outcome' = "unapplied"

\* The commit point.
Apply == status = "open" /\ outcome = "unapplied"
         /\ outcome' = "applied" /\ UNCHANGED status

\* The mutation is resolved: an applied one stays applied, and one that did not
\* reach its commit point may still be found applied, as a whole.
Close == status = "open" /\ status' = "closed" /\ outcome' \in {outcome, "applied"}

Next == Open \/ Apply \/ Close

Spec == Init /\ [][Next]_vars
=============================================================================
