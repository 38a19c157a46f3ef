------------------------------ MODULE MCSweep ------------------------------
(* Instances of Sweep for TLC. *)
EXTENDS Sweep, TLC

CONSTANTS j1, j2, j3, Array, ArrayBuffer, Fixtures

\* --grep test/built-ins/Array also selects test/built-ins/ArrayBuffer.
TwoGroups  == <<Array, ArrayBuffer>>
Substrings == Array :> {j1, j2, j3} @@ ArrayBuffer :> {j2}

\* A directory without a test of its own.
EmptyFirst == <<Fixtures, ArrayBuffer>>
EmptyScope == Fixtures :> {} @@ ArrayBuffer :> {j2}
=============================================================================
