-------------------------- MODULE MCStoreBootstrap --------------------------
(* Instances of StoreBootstrap. *)
EXTENDS StoreBootstrap, TLC

Symmetry == Permutations(Inodes)
SymmetryOfTwo == Permutations(Inodes) \cup Permutations(Procs)
=============================================================================
