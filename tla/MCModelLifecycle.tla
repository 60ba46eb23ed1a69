-------------------------- MODULE MCModelLifecycle --------------------------
(* A host component with trainables, one that is transient, a resident block
   group with trainables, one that streams and a transient one that does. *)
EXTENDS ModelLifecycle
Part(kind, transient, trainable) == [kind |-> kind, transient |-> transient, trainable |-> trainable]
MCLayout == <<Part("host", FALSE, TRUE), Part("host", TRUE, FALSE), Part("resident", FALSE, TRUE),
              Part("session", FALSE, FALSE), Part("session", TRUE, FALSE)>>
=============================================================================
