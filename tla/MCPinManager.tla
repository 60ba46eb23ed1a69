---------------------------- MODULE MCPinManager ----------------------------
(* Small instances of PinManager for TLC. *)
EXTENDS PinManager

CONSTANTS p1, p2, a, b, c

Two == {p1, p2}

\* a and b lie in place and share page 1; c is checkpoint storage of one page.
Mixed == {a, b, c}
MixedFirst == [s \in Mixed |-> IF s = b THEN 1 ELSE 0]
MixedLast == [s \in Mixed |-> IF s = b THEN 2 ELSE 1]
MixedSize == [s \in Mixed |-> IF s = c THEN 1 ELSE 2]
MixedFiles == {c}
MixedRequests == {<<b, c>>, <<c, a>>}
=============================================================================
