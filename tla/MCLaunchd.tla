------------------------------ MODULE MCLaunchd ------------------------------
(* Instances of Launchd for TLC; the .cfg files set the constants. *)
EXTENDS Launchd, TLC

Symmetric == Permutations(Clis)
=============================================================================
