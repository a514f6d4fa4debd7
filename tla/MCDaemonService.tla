-------------------------- MODULE MCDaemonService ---------------------------
(* Instances of DaemonService for TLC; the .cfg files set the constants. *)
EXTENDS DaemonService, TLC

Symmetric == Permutations(Reqs)
=============================================================================
