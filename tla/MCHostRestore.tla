---------------------------- MODULE MCHostRestore ----------------------------
(* Instances of HostRestore for TLC; the .cfg files set the constants. *)
EXTENDS HostRestore, TLC

Symmetric == Permutations(Clis) \cup Permutations(Names)
=============================================================================
