------------------------- MODULE MCStreamingRuntime -------------------------
(* Small instances of StreamingRuntime for TLC. *)
EXTENDS StreamingRuntime, TLC

CONSTANTS l1, l2, l3, l4, l5

Targets == {l1, l2, l3, l4, l5}
\* The first block is of another layout than the others.
TwoLayouts == [b \in Blocks |-> IF b = 0 THEN "first" ELSE "other"]
Symmetric == Permutations(Targets)
=============================================================================
