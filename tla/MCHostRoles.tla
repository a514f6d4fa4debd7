----------------------------- MODULE MCHostRoles -----------------------------
(* Instances of HostRoles for TLC; the .cfg files set the constants. *)
EXTENDS HostRoles, TLC

AddrSymmetry == Permutations(Addrs)
=============================================================================
