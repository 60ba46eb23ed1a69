--------------------------- MODULE MCResourceCache ---------------------------
(* Small instances of ResourceCache for TLC. *)
EXTENDS ResourceCache

CONSTANTS t1, t2, m, a, n

Pair == {t1, t2}

\* A model m that turns out larger than its estimate of one unit, an adapter a of two
\* that may turn out smaller or report nonsense, and an object n outside the budget.
Three == {m, a, n}
Estimates == [k \in Three |-> CASE k = m -> 1 [] k = a -> 2 [] k = n -> 0]
Actuals == [k \in Three |-> CASE k = m -> {2} [] k = a -> {-1, 1, 2} [] k = n -> {0}]
UseSequences == {<<a, m>>, <<m, n>>, <<a, a>>}

\* The default policy with factories that keep to themselves, and any policy with
\* factories that lease.
BothSetups == {[lru |-> TRUE, reenter |-> FALSE], [lru |-> FALSE, reenter |-> TRUE]}
=============================================================================
