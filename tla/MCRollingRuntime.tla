--------------------------- MODULE MCRollingRuntime ---------------------------
(* Three blocks over two slots.  One graph reads a slot through a view and again
   late, beside a reader of the other; in the other graph one kernel reads both,
   or one of them is not read. *)
EXTENDS RollingRuntime
At(params, nodes, view) == [params |-> params, nodes |-> nodes, view |-> view]
MCGraphs == {<<At({1}, {}, TRUE), At({2}, {}, FALSE), At({}, {1}, FALSE), At({1}, {2}, FALSE)>>,
             <<At({1, 2}, {}, FALSE), At({1}, {}, FALSE)>>,
             <<At({2}, {}, FALSE)>>}
MCUnloaded == {<<1, 2>>}
===============================================================================
