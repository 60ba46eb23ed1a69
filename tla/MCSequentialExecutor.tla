------------------------ MODULE MCSequentialExecutor ------------------------
(* Small instances of SequentialExecutor for TLC. *)
EXTENDS SequentialExecutor, TLC

CONSTANTS p1, p2, g1, g2

Two == {p1, p2}
Symmetric == Permutations(Two) \cup Permutations({g1, g2})
=============================================================================
