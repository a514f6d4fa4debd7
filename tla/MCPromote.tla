----------------------------- MODULE MCPromote -----------------------------
(* Instances of Promote: an address for each machine, or one that may drift *)
(* to the address of the other.                                             *)
EXTENDS Promote

Steady == [s \in Slots |-> IF s = "a" THEN {"a1"} ELSE {"b1"}]
Drifting == [s \in Slots |-> IF s = "a" THEN {"a1", "b1"} ELSE {"b1"}]
=============================================================================
