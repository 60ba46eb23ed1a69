---------------------------- MODULE MCTargetLease ----------------------------
(* Small instances of TargetLease for TLC. *)
EXTENDS TargetLease, TLC

CONSTANTS s1, s2, s3, l1

ThreeStreams == {s1, s2, s3}
Symmetric == Permutations(ThreeStreams)
=============================================================================
