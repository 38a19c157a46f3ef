--------------------------- MODULE MCOrchestrator ---------------------------
(* Instances of Orchestrator for TLC. *)
EXTENDS Orchestrator, TLC

CONSTANTS j1, j2, j3, k1

\* A sloppy and a strict variant of one test often emit the same Go, so jobs
\* share a tail key.
SharedKeys == j1 :> k1 @@ j2 :> k1 @@ j3 :> k1
TwoJobKeys == j1 :> k1 @@ j2 :> k1

SlotSymmetry == Permutations(Slots)
=============================================================================
