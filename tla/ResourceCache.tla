---------------------------- MODULE ResourceCache ----------------------------
(***************************************************************************)
(* The budgeted, policy-driven pool of resource_cache.py and the threads   *)
(* that lease stores from it, singly or in the order lease_many fixes.     *)
(*                                                                         *)
(* A public operation runs under the cache's RLock from start to end and   *)
(* is one step here, except a cache miss: the store's factory is caller    *)
(* code that runs with the lock held, between the eviction that made room  *)
(* for its estimate and the admission of its actual size.  The lock is     *)
(* reentrant, so a factory may lease from the same cache on its way.       *)
(***************************************************************************)
EXTENDS Integers, FiniteSets, SequencesExt

CONSTANTS
    Threads,
    Keys,           \* resource keys; a key stands for its one spec
    Estimate,       \* estimated_cache_bytes of each spec
    Actual,         \* the cache_bytes its stores may report
    Limits,         \* values of max_cache_bytes that are asked for
    Unlimited,      \* max_cache_bytes = None
    Wanted,         \* the key sequences passed to lease_many
    Frees,          \* arguments of evict_bytes
    Setups,         \* the caches to look at: their policy and their factories
    Nobody,         \* the holder of a free lock
    MaxCalls        \* bound: public calls made in a behaviour, a factory's included

ASSUME CacheAssumption ==
    /\ IsFiniteSet(Threads) /\ Nobody \notin Threads
    /\ IsFiniteSet(Keys)
    /\ Estimate \in [Keys -> Nat]
    /\ Actual \in [Keys -> SUBSET Int]
    /\ Limits \subseteq Nat /\ Limits # {} /\ Unlimited \notin Nat
    /\ Wanted \subseteq Seq(Keys)
    /\ Frees \subseteq Nat
    /\ Setups \subseteq [lru : BOOLEAN, reenter : BOOLEAN] /\ Setups # {}
    /\ MaxCalls \in Nat

VARIABLES
    setup,          \* which cache this is; it never changes
    lock,           \* the thread inside the RLock across a factory call, or Nobody
    limit,          \* _max_cache_bytes
    used,           \* _used_bytes
    registered,     \* the keys of _entries
    cached,         \* the entries with a store
    bytes,          \* _Entry.cache_bytes
    leaseCount,     \* _Entry.lease_count
    order,          \* LRUEvictionPolicy._inactive_order
    built,          \* which build of a key its store is: the store's identity
    building,       \* each thread's factories in progress, innermost last
    want,           \* what its lease_many has still to enter
    holding,        \* the leases it has entered, latest last
    phase,          \* where its lease_many stands
    calls           \* public calls made so far

storeVars  == <<used, cached, bytes, leaseCount, order, built>>
threadVars == <<building, want, holding, phase>>
vars == <<setup, lock, limit, registered, storeVars, threadVars, calls>>

LRU == setup.lru            \* LRUEvictionPolicy, or else any policy that validates
Reenter == setup.reenter    \* factories lease from the cache they are built for

-----------------------------------------------------------------------------
(* Making room *)

\* Mutant: entries with a lease are offered to the policy too.
CandidatesLeased == cached
Candidates == {k \in cached : leaseCount[k] = 0}

Bytes(S) == MapThenSumSet(LAMBDA k : bytes[k], S)

\* EvictionContext.bytes_to_free.
BytesToFree(required, max) == IF used + required > max THEN used + required - max ELSE 0

\* The LRU policy takes the oldest inactive entries that have bytes, as few as reach
\* the target, and then candidates its order does not know.
Worth == {k \in Candidates : bytes[k] > 0}
Aged(n) == {order[i] : i \in 1 .. n} \cap Worth
LruVictims(target) ==
    LET enough == {n \in 0 .. Len(order) : Bytes(Aged(n)) >= target}
        known == Aged(Len(order)) IN
    IF enough # {} THEN {Aged(Min(enough))}
    ELSE {V \in SUBSET Worth : /\ known \subseteq V /\ Bytes(V) >= target
                               /\ \E last \in V \ known : Bytes(V \ {last}) < target}

\* The sets of entries that may go to free the target: none when too little is
\* inactive, and nothing when there is nothing to free.  A policy's victims are
\* evicted in its order until the target is reached.
Victims(target) ==
    IF target = 0 THEN {{}}
    ELSE IF Bytes(Candidates) < target THEN {}
    ELSE IF LRU THEN LruVictims(target)
    ELSE {V \in SUBSET Candidates :
              Bytes(V) >= target /\ \E last \in V : Bytes(V \ {last}) < target}

\* What _evict_to_fit may evict so that `required` fits under `max`.
Room(required, max) ==
    IF max = Unlimited THEN {{}} ELSE Victims(BytesToFree(required, max))

\* It raises: too little is inactive, or a policy of the caller's own, which is asked
\* only when something has to go, does not validate.
MayFail(required, max) ==
    \/ Room(required, max) = {}
    \/ ~LRU /\ Room(required, max) # {{}}

\* Their bytes, or none for entries that are dropped or were never built.
Zeroed(V) == [k \in Keys |-> IF k \in V THEN 0 ELSE bytes[k]]

\* discard() in the LRU order.  Mutant: the policy keeps the evicted key.
DiscardForgotten(V) == order
Discard(V) == FoldSet(LAMBDA k, rest : RemoveFirst(rest, k), order, V)

\* _release_store on every entry of V.  Mutant: an entry's bytes are reset before
\* they are subtracted.
ReleaseResetFirst(V) ==
    /\ cached' = cached \ V
    /\ bytes' = Zeroed(V)
    /\ used' = used - MapThenSumSet(LAMBDA k : bytes'[k], V)
    /\ order' = Discard(V)
    /\ UNCHANGED <<leaseCount, built>>

Release(V) ==
    /\ cached' = cached \ V
    /\ bytes' = Zeroed(V)
    /\ used' = used - Bytes(V)
    /\ order' = Discard(V)
    /\ UNCHANGED <<leaseCount, built>>

-----------------------------------------------------------------------------
(* Leasing *)

Holds(t, k) == \E i \in DOMAIN holding[t] : holding[t][i].key = k
Grabbed(t, k, id) == [holding EXCEPT ![t] = Append(@, [key |-> k, id |-> id])]

\* lease_many is called.
CallLease(t) ==
    /\ phase[t] = "idle" /\ calls < MaxCalls
    /\ \E w \in Wanted : want' = [want EXCEPT ![t] = w]
    /\ phase' = [phase EXCEPT ![t] = "entering"]
    /\ calls' = calls + 1
    /\ UNCHANGED <<lock, setup, limit, registered, storeVars, building, holding>>

\* t, outside the lock, is about to enter its next lease.
Entering(t, k) ==
    /\ phase[t] = "entering" /\ want[t] # <<>> /\ k = Head(want[t])
    /\ lock = Nobody
    /\ UNCHANGED calls

\* A factory t is running leases another resource; a key that is being built is
\* not asked for again, which would build without end.
Nesting(t, k) ==
    /\ Reenter
    /\ lock = t /\ building[t] # <<>>
    /\ \A i \in DOMAIN building[t] : building[t][i].key # k
    /\ calls < MaxCalls /\ calls' = calls + 1

\* lease_count += 1.
LeasedMore(k) == [leaseCount EXCEPT ![k] = @ + 1]

\* The store is cached: it is leased and no longer inactive.
Hit(t, k) ==
    /\ k \in cached
    /\ leaseCount' = LeasedMore(k)
    /\ order' = Discard({k})
    /\ holding' = Grabbed(t, k, built[k])
    /\ UNCHANGED <<lock, setup, limit, registered, used, cached, bytes, built, building, phase>>

EnterHit(t, k) ==
    /\ Entering(t, k)
    /\ Hit(t, k)
    /\ want' = [want EXCEPT ![t] = Tail(@)]

NestHit(t, k) ==
    /\ Nesting(t, k)
    /\ Hit(t, k)
    /\ UNCHANGED want

\* It is not: room is made for the estimate and the factory starts, with the lock.
Miss(t, k) ==
    /\ k \notin cached
    /\ registered' = registered \cup {k}
    /\ \E V \in Room(Estimate[k], limit) : Release(V)
    /\ building' = [building EXCEPT ![t] = Append(@, [key |-> k, base |-> Len(holding[t])])]
    /\ lock' = t
    /\ UNCHANGED <<setup, limit, want, holding, phase>>

EnterMiss(t, k) == Entering(t, k) /\ Miss(t, k)
NestMiss(t, k) == Nesting(t, k) /\ Miss(t, k)

\* The lease fails: lease_many unwinds, or the enclosing factory sees the error.
Fail(t) ==
    phase' = [phase EXCEPT ![t] = IF building'[t] = <<>> THEN "leaving" ELSE @]

\* The estimate cannot be admitted, or the key was never registered and no spec
\* came with it.
MissFails(t, k) ==
    /\ k \notin cached
    /\ \/ MayFail(Estimate[k], limit) /\ registered' = registered \cup {k}
       \/ k \notin registered /\ UNCHANGED registered
    /\ UNCHANGED building
    /\ Fail(t)
    /\ UNCHANGED <<lock, setup, limit, storeVars, want, holding>>

EnterFails(t, k) == Entering(t, k) /\ MissFails(t, k)
NestFails(t, k) == Nesting(t, k) /\ MissFails(t, k)

\* The innermost factory of t is about to return: what it leased it has released.
Returning(t, k) ==
    /\ lock = t /\ building[t] # <<>>
    /\ k = building[t][Len(building[t])].key
    /\ Len(holding[t]) = building[t][Len(building[t])].base

\* Its frame is gone, and with the outermost one the lock.  Mutant: the lock stays.
UnwindLocked(t) ==
    /\ building' = [building EXCEPT ![t] = Front(@)]
    /\ lock' = t

Unwind(t) ==
    /\ building' = [building EXCEPT ![t] = Front(@)]
    /\ lock' = IF building'[t] = <<>> THEN Nobody ELSE t

\* A store's size is checked before it is admitted.
Accepts(size) == size >= 0

\* The store is admitted at its actual size, after more evictions when it
\* exceeds the estimate, and leased.
Admit(t, k) ==
    /\ Returning(t, k)
    /\ \E size \in Actual[k] :
          /\ Accepts(size)
          /\ \E V \in IF size > Estimate[k] THEN Room(size, limit) ELSE {{}} :
                /\ cached' = (cached \ V) \cup {k}
                /\ bytes' = [Zeroed(V) EXCEPT ![k] = size]
                /\ used' = used - Bytes(V) + size
                /\ order' = Discard(V \cup {k})
    /\ leaseCount' = LeasedMore(k)
    /\ built' = [built EXCEPT ![k] = @ + 1]
    /\ holding' = Grabbed(t, k, built'[k])
    /\ Unwind(t)
    /\ want' = [want EXCEPT ![t] = IF building'[t] = <<>> THEN Tail(@) ELSE @]
    /\ UNCHANGED <<setup, limit, registered, phase, calls>>

\* The factory raises, its store reports a negative size, or the store does not
\* fit after all; what was evicted for it stays evicted.
BuildFails(t, k) ==
    /\ Returning(t, k)
    /\ Unwind(t)
    /\ Fail(t)
    /\ UNCHANGED <<setup, limit, registered, storeVars, want, holding, calls>>

\* Everything asked for is leased: the caller's own code runs.
Entered(t) ==
    /\ phase[t] = "entering" /\ want[t] = <<>>
    /\ phase' = [phase EXCEPT ![t] = "using"]
    /\ UNCHANGED <<lock, setup, limit, registered, storeVars, building, want, holding, calls>>

\* And ends; or projecting a store it has just leased to its value raises.
Leave(t) ==
    /\ \/ phase[t] = "using"
       \/ phase[t] = "entering" /\ holding[t] # <<>> /\ lock # t
    /\ phase' = [phase EXCEPT ![t] = "leaving"]
    /\ UNCHANGED <<lock, setup, limit, registered, storeVars, building, want, holding, calls>>

\* mark_inactive of an entry that loses its last lease.
Released(k) == IF leaseCount[k] = 1 THEN Append(Discard({k}), k) ELSE order

\* The latest lease of t is released: lease_many unwinds in reverse order, and a
\* factory leaves the leases it entered.
ReleaseLast(t) ==
    /\ holding[t] # <<>>
    /\ \/ phase[t] = "leaving" /\ lock = Nobody
       \/ lock = t /\ building[t] # <<>> /\ Len(holding[t]) > building[t][Len(building[t])].base
    /\ LET k == holding[t][Len(holding[t])].key IN
          /\ leaseCount' = [leaseCount EXCEPT ![k] = @ - 1]
          /\ order' = Released(k)
    /\ holding' = [holding EXCEPT ![t] = Front(@)]
    /\ UNCHANGED <<lock, setup, limit, registered, used, cached, bytes, built, building, want, phase, calls>>

Left(t) ==
    /\ phase[t] = "leaving" /\ holding[t] = <<>>
    /\ phase' = [phase EXCEPT ![t] = "idle"]
    /\ want' = [want EXCEPT ![t] = <<>>]
    /\ UNCHANGED <<lock, setup, limit, registered, storeVars, building, holding, calls>>

-----------------------------------------------------------------------------
(* The other public operations, each under the lock from start to end *)

Calling == lock = Nobody /\ calls < MaxCalls /\ calls' = calls + 1

\* resize, and assigning max_cache_bytes: what is inactive is evicted down to the
\* new limit, or it raises and nothing changes.
Resize(max) ==
    /\ Calling
    /\ max # limit
    /\ \/ /\ \E V \in Room(0, max) : Release(V)
          /\ limit' = max
       \/ MayFail(0, max) /\ UNCHANGED <<limit, storeVars>>
    /\ UNCHANGED <<setup, lock, registered, threadVars>>

\* evict_bytes: as much as asked for, or everything inactive.
EvictBytes(n) ==
    /\ Calling
    /\ LET target == IF n < Bytes(Candidates) THEN n ELSE Bytes(Candidates)
       IN \E V \in Victims(target) : Release(V)
    /\ UNCHANGED <<lock, setup, limit, registered, threadVars>>

\* evict(key), and register(spec, replace=True) of a key that is built.
Evict(k) ==
    /\ Calling
    /\ k \in Candidates
    /\ Release({k})
    /\ UNCHANGED <<lock, setup, limit, registered, threadVars>>

\* register of a key that is not built: a fresh entry.
Register(k) ==
    /\ Calling
    /\ k \notin cached
    /\ registered' = registered \cup {k}
    /\ UNCHANGED <<lock, setup, limit, storeVars, threadVars>>

\* unregister, with its store when it has one.
Unregister(k) ==
    /\ Calling
    /\ k \in registered /\ leaseCount[k] = 0
    /\ registered' = registered \ {k}
    /\ Release(IF k \in cached THEN {k} ELSE {})
    /\ UNCHANGED <<lock, setup, limit, threadVars>>

\* clear raises while anything is leased, and evicts everything otherwise.
Clear ==
    /\ Calling
    /\ \A k \in Keys : leaseCount[k] = 0
    /\ Release(Candidates)
    /\ UNCHANGED <<lock, setup, limit, registered, threadVars>>

-----------------------------------------------------------------------------
(* The system *)

Init ==
    /\ setup \in Setups
    /\ lock = Nobody
    /\ limit \in Limits \cup {Unlimited}
    /\ used = 0
    /\ registered = {} /\ cached = {}
    /\ bytes = [k \in Keys |-> 0]
    /\ leaseCount = [k \in Keys |-> 0]
    /\ built = [k \in Keys |-> 0]
    /\ order = <<>>
    /\ building = [t \in Threads |-> <<>>]
    /\ want = [t \in Threads |-> <<>>]
    /\ holding = [t \in Threads |-> <<>>]
    /\ phase = [t \in Threads |-> "idle"]
    /\ calls = 0

\* The steps of a lease_many that is under way, other than its caller's own code.
Progress(t) ==
    \/ \E k \in Keys :
          \/ EnterHit(t, k) \/ EnterMiss(t, k) \/ EnterFails(t, k)
          \/ Admit(t, k) \/ BuildFails(t, k)
    \/ Entered(t)
    \/ ReleaseLast(t)
    \/ Left(t)

\* What a factory or a caller may do and need not.
Choice(t) ==
    \/ CallLease(t)
    \/ Leave(t)
    \/ \E k \in Keys : NestHit(t, k) \/ NestMiss(t, k) \/ NestFails(t, k)

Operation ==
    \/ \E max \in Limits : Resize(max)
    \/ \E n \in Frees : EvictBytes(n)
    \/ \E k \in Keys : Evict(k) \/ Register(k) \/ Unregister(k)
    \/ Clear

\* The bounded run is over.
Rest ==
    /\ calls = MaxCalls /\ \A t \in Threads : phase[t] = "idle"
    /\ UNCHANGED vars

Next == (\E t \in Threads : Progress(t) \/ Choice(t)) \/ Operation \/ Rest

Spec == Init /\ [][Next]_vars

\* Factories return and leases unwind; nothing obliges anyone to call or to leave.
FairSpec == Spec /\ \A t \in Threads : WF_vars(Progress(t))

-----------------------------------------------------------------------------
(* Properties *)

Frame == [key : Keys, base : Nat]
Lease == [key : Keys, id : Nat]

\* Type invariant: every table and every thread's frames stay in their domains.
TypeOK ==
    /\ setup \in Setups
    /\ lock \in Threads \cup {Nobody}
    /\ limit \in Limits \cup {Unlimited}
    /\ used \in Int
    /\ registered \subseteq Keys /\ cached \subseteq Keys
    /\ bytes \in [Keys -> Nat]
    /\ leaseCount \in [Keys -> Int]
    /\ built \in [Keys -> Nat]
    /\ order \in Seq(Keys)
    /\ building \in [Threads -> Seq(Frame)]
    /\ want \in [Threads -> Seq(Keys)]
    /\ holding \in [Threads -> Seq(Lease)]
    /\ phase \in [Threads -> {"idle", "entering", "using", "leaving"}]
    /\ calls \in 0 .. MaxCalls

\* "Leased entries are never evicted": whoever holds a lease keeps the very store
\* it was given, which is still registered and counted.
LeasedStoreStays ==
    \A t \in Threads : \A i \in DOMAIN holding[t] :
        LET lease == holding[t][i] IN
        lease.key \in cached \cap registered /\ built[lease.key] = lease.id

\* Each entry's lease count is the number of leases entered and not released,
\* repeated keys counted once per occurrence.
LeasesOf(k) == UNION {{t} \X {i \in DOMAIN holding[t] : holding[t][i].key = k} : t \in Threads}
LeasesCounted == \A k \in Keys : leaseCount[k] = Cardinality(LeasesOf(k))

\* _used_bytes is the sum of the cached stores' bytes, through failed builds,
\* partial evictions, replacement and resizing.
UsedIsSum ==
    /\ used = Bytes(cached)
    /\ \A k \in Keys \ cached : bytes[k] = 0

\* The LRU order lists exactly the inactive stores, each once, so choose_victims
\* can always reach the bytes the cache found evictable.
OrderIsInactive ==
    /\ ToSet(order) = Candidates
    /\ IsInjective(order)

\* Class docstring: max_cache_bytes is the "total budget for cached resource
\* backing storage".
WithinBudget == lock = Nobody => limit = Unlimited \/ used <= limit

\* It is, unless factories lease from the cache that is making room for their stores.
BudgetKept == Reenter \/ WithinBudget

\* Bytes, lease counts, eviction order and budget agree with the stores that are
\* cached and with the leases that are out.
Accounting == UsedIsSum /\ LeasesCounted /\ OrderIsInactive /\ BudgetKept

\* Every lease_many ends up with all of its leases or none: it is never stuck
\* behind the lock, a factory or a lease of someone else.
LeasesSettle == \A t \in Threads : phase[t] \in {"entering", "leaving"} ~> phase[t] \in {"using", "idle"}

\* The cache keeps LeasedPool's promise to those that lease from it.
Promise == INSTANCE LeasedPool WITH
    Holders <- Threads, Items <- Keys,
    pool <- cached, holding <- [t \in Threads |-> {k \in Keys : Holds(t, k)}]
KeepsPromise == Promise!Spec

=============================================================================
