---------------------------- MODULE MCForwarder ----------------------------
(* Instances of Forwarder: machines with an address of their own each, or   *)
(* one that may drift to the address of the other.                          *)
EXTENDS Forwarder, TLC

Steady == [s \in Slots |-> IF s = "a" THEN {"a1"} ELSE {"b1"}]
Drifting == [s \in Slots |-> IF s = "a" THEN {"a1", "b1"} ELSE {"b1"}]
Symmetry == Permutations(Conns)
=============================================================================
