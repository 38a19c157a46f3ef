--------------------------- MODULE MCStagedRoots ---------------------------
(* Instances of StagedRoots for TLC. *)
EXTENDS StagedRoots, TLC

VersionSymmetry == Permutations(Versions)
=============================================================================
