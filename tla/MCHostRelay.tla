---------------------------- MODULE MCHostRelay ----------------------------
(* Two ranks make two calls, one of them out of pageable memory or none, with
   one fault; three ranks make one. *)
EXTENDS HostRelay
Pair2(kind, pinnedRanks) ==
  [transport |-> kind, size |-> 2, pinned |-> pinnedRanks, depth |-> 2, calls |-> 2, faults |-> 1]
Three(kind) ==
  [transport |-> kind, size |-> 3, pinned |-> 0 .. 2, depth |-> 3, calls |-> 1, faults |-> 1]
MCGroups == {Pair2(kind, ranks) : kind \in {"shared", "gloo"}, ranks \in {{0}, {0, 1}}}
            \cup {Three(kind) : kind \in {"shared", "gloo"}}
JustThree == {3}
=============================================================================
