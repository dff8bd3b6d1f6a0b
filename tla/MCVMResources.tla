--------------------------- MODULE MCVMResources ---------------------------
(* Instances of VMResources for TLC. *)
EXTENDS VMResources, TLC

Symmetry == Permutations(Bytes) \cup Permutations(Dir)
=============================================================================
