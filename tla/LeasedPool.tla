----------------------------- MODULE LeasedPool -----------------------------
(***************************************************************************)
(* What a lease promises, for the pinned storage of PinManager and for the *)
(* stores of ResourceCache, with nothing of how the promise is kept: an    *)
(* item enters the pool for a holder, an item in the pool can be shared,   *)
(* and it can leave only when nobody holds it.  Budgets, eviction orders,  *)
(* copies, failures and locks are all below this.                          *)
(***************************************************************************)
CONSTANTS Holders, Items

VARIABLES
    pool,       \* the items present
    holding     \* what each holder, or one on the way to a lease, holds

vars == <<pool, holding>>

Unheld == {i \in pool : \A h \in Holders : i \notin holding[h]}

Init == pool = {} /\ holding = [h \in Holders |-> {}]

\* A new item enters for h, which holds it at once; unheld ones may make room.
Admit(h, i) ==
    /\ i \notin pool
    /\ \E gone \in SUBSET Unheld : pool' = (pool \ gone) \cup {i}
    /\ holding' = [holding EXCEPT ![h] = @ \cup {i}]

\* h comes to hold an item that is present.
Share(h, i) ==
    /\ i \in pool
    /\ holding' = [holding EXCEPT ![h] = @ \cup {i}]
    /\ UNCHANGED pool

\* h lets go of i, which may leave on the spot when nobody else holds it.
LetGo(h, i) ==
    /\ i \in holding[h]
    /\ holding' = [holding EXCEPT ![h] = @ \ {i}]
    /\ \/ UNCHANGED pool
       \/ (\A g \in Holders \ {h} : i \notin holding[g]) /\ pool' = pool \ {i}

\* Items nobody holds leave, at any moment and for any reason.
Evict ==
    /\ \E gone \in SUBSET Unheld : pool' = pool \ gone
    /\ UNCHANGED holding

Next ==
    \/ Evict
    \/ \E h \in Holders, i \in Items : Admit(h, i) \/ Share(h, i) \/ LetGo(h, i)

Spec == Init /\ [][Next]_vars
=============================================================================
