---------------------------- MODULE MCFreshness ----------------------------
(* Instances of Freshness for TLC. *)
EXTENDS Freshness, TLC

CONSTANTS j1, j2, t1, p1, p2

\* A test with a sloppy and a strict job.
TwoModes == j1 :> t1 @@ j2 :> t1

\* It includes one of the two ports.
OneIncluded == t1 :> {p1}
=============================================================================
