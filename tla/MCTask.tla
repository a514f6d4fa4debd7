------------------------------- MODULE MCTask -------------------------------
(* Instances of TaskContract: the shapes of the tasks ops builds, shortened. *)
EXTENDS TaskContract

\* "tail" has a step behind its commit point (a forced snapshot, a restore),
\* "flush" ends at it (a plain snapshot), "free" is durable from the start.
MCStepCount == [t \in Tasks |-> CASE t = "tail" -> 4 [] OTHER -> 3]
MCCommitAt == [t \in Tasks |-> CASE t = "tail" -> 2 [] t = "flush" -> 3 [] OTHER -> 0]
MCHasUndo == [t \in Tasks |-> CASE t = "tail" -> {0, 1} [] t = "flush" -> {1, 2} [] OTHER -> {}]
=============================================================================
