----------------------------- MODULE PinManager -----------------------------
(***************************************************************************)
(* The budgeted host registrations of pin_manager.py: one PinManager, the  *)
(* callers that lease storage from it, the copies of _copy_memory.py that  *)
(* checkpoint storage is pinned through, and the runtime that registers    *)
(* memory and may refuse.                                                  *)
(*                                                                         *)
(* `lock` is the manager's RLock.  A critical section is a run of steps of *)
(* its holder, one per iteration of the code's loops, so that the only     *)
(* things that can come between two of them are other callers' steps off   *)
(* the lock and the owner finalizer, which the reentrant lock lets in on   *)
(* the holder's own thread.  Storages are distinct, non-overlapping ranges *)
(* (overlap is rejected before any state changes); sizes are in OS pages.  *)
(***************************************************************************)
EXTENDS Integers, FiniteSets, SequencesExt

CONSTANTS
    Callers,        \* lease slots; one thread may own several
    Storages,       \* the storages callers ask for, by data pointer
    FileBacked,     \* those with a checkpoint file slice: pinned through a copy
    FirstPage,      \* the OS page of a storage's first byte
    LastPage,       \* and of its last byte
    SizePages,      \* its size rounded up to whole pages
    Requests,       \* the storage sequences a caller may ask for
    Budgets,        \* values of max_pinned_bytes, in pages
    Unlimited,      \* max_pinned_bytes = None
    Nobody,         \* the holder of a free lock
    MaxCalls,       \* bound: public calls made in a behaviour
    MaxFailures     \* bound: failed unregistrations in a behaviour

Pages == UNION {FirstPage[s] .. LastPage[s] : s \in Storages}

ASSUME StorageAssumption ==
    /\ IsFiniteSet(Storages)
    /\ FileBacked \subseteq Storages
    /\ FirstPage \in [Storages -> Nat]
    /\ LastPage \in [Storages -> Nat]
    /\ SizePages \in [Storages -> Nat \ {0}]
    /\ \A s \in Storages : FirstPage[s] <= LastPage[s]

\* Distinct byte ranges can share only the pages at their ends.
ASSUME DisjointAssumption ==
    \A s, t \in Storages \ FileBacked :
        s # t => LastPage[s] <= FirstPage[t] \/ LastPage[t] <= FirstPage[s]

ASSUME CallerAssumption ==
    /\ IsFiniteSet(Callers)
    /\ Nobody \notin Callers
    /\ Requests \subseteq {r \in Seq(Storages) : IsInjective(r)}
    /\ Budgets \subseteq Nat \cup {Unlimited}
    /\ Budgets # {}
    /\ Unlimited \notin Nat
    /\ MaxCalls \in Nat
    /\ MaxFailures \in Nat

VARIABLES
    (* the manager *)
    lock,           \* the caller inside the RLock, or Nobody
    budget,         \* _max_pinned_bytes
    registered,     \* the keys of _registrations
    leases,         \* _Registration.leases
    retired,        \* registrations whose owner is gone
    owners,         \* _Registration.owners: whose tensors are weakly referenced
    idle,           \* _idle, least recently released first
    pageable,       \* _pageable[s].leases, 0 when absent
    starts,         \* how often a range's pointer is in _starts
    boundary,       \* _boundary_pages
    pinned,         \* _pinned_bytes, in pages
    failures,       \* _unregistration_failures
    open,           \* the callers with an entry in _leases
    rooted,         \* the manager is in _live_managers
    (* the loop the lock holder is in *)
    tried,          \* idle registrations the running eviction pass has been through
    mark,           \* _pinned_bytes when a capacity retry began, or -1
    (* each caller *)
    pc,             \* where its call stands
    req,            \* the storages it asked for, in order
    pin,            \* the pin argument
    at,             \* position of its loop over req
    held,           \* registrations it holds, in the order of the dict `held`
    created,        \* registrations this acquisition created
    pend,           \* its reserved storages not registered yet
    ready,          \* its copies that are filled
    spoiled,        \* its copies whose fill failed
    paged,          \* _LeaseState.pageable of its open lease
    reading,        \* pinned storage its asynchronous transfers still read
    calls           \* public calls made so far

budgetVars == <<boundary, pinned>>
tableVars  == <<registered, leases, retired, owners, idle, starts>>
lifeVars   == <<open, rooted>>
loopVars   == <<tried, mark>>
askVars    == <<req, pin>>
loadVars   == <<ready, spoiled>>
leaseVars  == <<paged, reading>>
managerVars == <<lock, budget, tableVars, pageable, budgetVars, failures, lifeVars>>
callerVars == <<pc, askVars, at, held, created, pend, loadVars, leaseVars>>
vars == <<managerVars, loopVars, callerVars, calls>>

-----------------------------------------------------------------------------
(* Page accounting *)

Boundaries(s) == {FirstPage[s], LastPage[s]}

\* Pages reserving s would add, given the boundary counts b.
PageReservation(b, s) ==
    LastPage[s] - FirstPage[s] + 1 - Cardinality({g \in Boundaries(s) : b[g] > 0})

Need(s) == IF s \in FileBacked THEN SizePages[s] ELSE PageReservation(boundary, s)

Reserve(s) ==
    /\ pinned' = pinned + Need(s)
    /\ boundary' = IF s \in FileBacked THEN boundary
                   ELSE [g \in Pages |-> boundary[g] + IF g \in Boundaries(s) THEN 1 ELSE 0]

\* Mutant: the released pages are counted before the boundary counts drop.
UnreserveStale(s) ==
    /\ boundary' = IF s \in FileBacked THEN boundary
                   ELSE [g \in Pages |-> boundary[g] - IF g \in Boundaries(s) THEN 1 ELSE 0]
    /\ pinned' = pinned - Need(s)

Unreserve(s) ==
    /\ boundary' = IF s \in FileBacked THEN boundary
                   ELSE [g \in Pages |-> boundary[g] - IF g \in Boundaries(s) THEN 1 ELSE 0]
    /\ pinned' = pinned - IF s \in FileBacked THEN SizePages[s]
                                              ELSE PageReservation(boundary', s)

Within(pages) == budget # Unlimited => pages <= budget

Fits(needed) == Within(pinned + needed)

-----------------------------------------------------------------------------
(* Unregistering and evicting *)

Idle == ToSet(idle)

\* _idle.pop(s, None).  Mutant: a leased registration stays in the LRU.
UnidleForgets(s) == UNCHANGED idle
Unidle(s) == idle' = RemoveFirst(idle, s)

\* _drop_lifetime_root_if_empty.
DropRoot(regs, opens) == rooted' = (rooted /\ (regs # {} \/ opens # {}))

\* _unregister(s) with the backend accepting: the registration is dropped, its
\* pages returned, its copy freed.
UnregisterDone(s) ==
    /\ registered' = registered \ {s}
    /\ retired' = retired \ {s}
    /\ starts' = [starts EXCEPT ![s] = @ - 1]
    /\ owners' = [owners EXCEPT ![s] = {}]
    /\ Unidle(s)
    /\ Unreserve(s)
    /\ DropRoot(registered', open)
    /\ UNCHANGED failures

\* _unregister with the backend raising: everything is retained for a retry.
UnregisterFailed ==
    /\ failures < MaxFailures
    /\ failures' = failures + 1
    /\ UNCHANGED <<registered, starts, idle, budgetVars, rooted>>

\* What the pass over a snapshot of _idle has not come to yet, and its next victim.
Candidates == {i \in DOMAIN idle : idle[i] \notin tried}
IsVictim(s) == \E i \in Candidates : s = idle[i] /\ \A j \in Candidates : i =< j

\* One iteration of the eviction loops.
EvictVictim ==
    \E s \in Storages :
        /\ IsVictim(s)
        /\ tried' = tried \cup {s}
        /\ \/ UnregisterDone(s)
           \/ UnregisterFailed /\ UNCHANGED <<retired, owners>>
        /\ UNCHANGED <<leases, open>>

-----------------------------------------------------------------------------
(* Entering acquire and the critical sections *)

Asked(p) == ToSet(req[p])
Held(p) == ToSet(held[p])
Pending == UNION {ToSet(pend[q]) : q \in Callers}
Copies(p) == ToSet(pend[p]) \cap FileBacked
FirstCopy(p) == {s \in Copies(p) : \E i \in DOMAIN pend[p] :
                      s = pend[p][i] /\ \A j \in 1 .. i - 1 : pend[p][j] \notin FileBacked}

Inside(p, where) == lock = p /\ pc[p] = where
Goto(p, where) == pc' = [pc EXCEPT ![p] = where]
Enter(p, where) == lock = Nobody /\ lock' = p /\ Goto(p, where)
Leave(p, where) == lock' = Nobody /\ Goto(p, where)

\* acquire is called.
CallAcquire(p) ==
    /\ pc[p] = "free" /\ calls < MaxCalls
    /\ \E r \in Requests, b \in BOOLEAN :
          req' = [req EXCEPT ![p] = r] /\ pin' = [pin EXCEPT ![p] = b]
    /\ calls' = calls + 1
    /\ Goto(p, "waiting")
    /\ UNCHANGED <<managerVars, loopVars, at, held, created, pend, loadVars, leaseVars>>

\* What acquire waits for: a pinning acquisition, that nothing is pending; a
\* pageable one, that nothing it asks for is.
MayEnter(p) == IF pin[p] THEN Pending = {} ELSE Pending \cap Asked(p) = {}

Admit(p) ==
    /\ pc[p] = "waiting"
    /\ MayEnter(p)
    /\ Enter(p, "hold")
    /\ at' = [at EXCEPT ![p] = 1]
    /\ UNCHANGED <<budget, tableVars, pageable, budgetVars, failures, lifeVars, loopVars,
                   askVars, held, created, pend, loadVars, leaseVars, calls>>

\* _hold(s): one more lease, and p's tensors among its owners.
\* Mutant: the count is set rather than incremented.
HoldOnce(p, s) ==
    /\ owners' = [owners EXCEPT ![s] = @ \cup {p}]
    /\ leases' = [leases EXCEPT ![s] = 1]
    /\ held' = [held EXCEPT ![p] = Append(@, s)]

Hold(p, s) ==
    /\ owners' = [owners EXCEPT ![s] = @ \cup {p}]
    /\ leases' = [leases EXCEPT ![s] = @ + 1]
    /\ held' = [held EXCEPT ![p] = Append(@, s)]

\* Hold what is registered already, anywhere in the request.
HoldNext(p) ==
    /\ Inside(p, "hold") /\ at[p] <= Len(req[p])
    /\ at' = [at EXCEPT ![p] = @ + 1]
    /\ LET s == req[p][at[p]] IN
       IF s \in registered THEN Hold(p, s) /\ Unidle(s)
                           ELSE UNCHANGED <<leases, owners, idle, held>>
    /\ UNCHANGED <<lock, budget, registered, retired, starts, pageable, budgetVars, failures, lifeVars,
                   loopVars, pc, askVars, created, pend, loadVars, leaseVars, calls>>

\* A pinning acquisition goes on to reserve; a pageable one leaves the lock.
HoldDone(p) ==
    /\ Inside(p, "hold") /\ at[p] > Len(req[p])
    /\ at' = [at EXCEPT ![p] = 1]
    /\ IF pin[p] THEN Goto(p, "reserve") /\ UNCHANGED lock ELSE Leave(p, "final")
    /\ UNCHANGED <<budget, tableVars, pageable, budgetVars, failures, lifeVars, loopVars,
                   askVars, held, created, pend, loadVars, leaseVars, calls>>

-----------------------------------------------------------------------------
(* Reserving, in request order, under the same lock *)

Reserving(p, s) == Inside(p, "reserve") /\ at[p] <= Len(req[p]) /\ s = req[p][at[p]]

\* What is larger than the budget is refused before anything is evicted for it.
Eligible(p, s) ==
    s \notin Held(p) /\ pageable[s] = 0 /\ (Within(Need(s)) \/ tried # {})

\* _fit makes room by evicting one more idle registration.
ReserveEvict(p, s) ==
    /\ Reserving(p, s) /\ Eligible(p, s) /\ ~Fits(Need(s))
    /\ EvictVictim
    /\ UNCHANGED <<lock, budget, pageable, mark, callerVars, calls>>

\* It fits: the range or a fresh copy is reserved and pending.
ReserveTake(p, s) ==
    /\ Reserving(p, s) /\ Eligible(p, s) /\ Fits(Need(s))
    /\ Reserve(s)
    /\ pend' = [pend EXCEPT ![p] = Append(@, s)]
    /\ starts' = [starts EXCEPT ![s] = @ + 1]
    /\ at' = [at EXCEPT ![p] = @ + 1]
    /\ tried' = {}
    /\ UNCHANGED <<lock, budget, registered, leases, retired, owners, idle, pageable, failures, lifeVars, mark,
                   pc, askVars, held, created, loadVars, leaseVars, calls>>

\* It is held or leased pageable, cannot fit, or its copy cannot be allocated.
ReserveSkip(p, s) ==
    /\ Reserving(p, s)
    /\ \/ ~Eligible(p, s)
       \/ ~Fits(Need(s)) /\ Candidates = {}
       \/ Fits(Need(s)) /\ s \in FileBacked
    /\ at' = [at EXCEPT ![p] = @ + 1]
    /\ tried' = {}
    /\ UNCHANGED <<managerVars, mark, pc, askVars, held, created, pend, loadVars, leaseVars, calls>>

ReserveDone(p) ==
    /\ Inside(p, "reserve") /\ at[p] > Len(req[p])
    /\ Leave(p, IF Copies(p) = {} THEN "final" ELSE "fillFirst")
    /\ UNCHANGED <<budget, tableVars, pageable, budgetVars, failures, lifeVars, loopVars,
                   askVars, at, held, created, pend, loadVars, leaseVars, calls>>

-----------------------------------------------------------------------------
(* Filling copies, off the lock *)

\* The copies of one _fill are joined: those in bad met a read error.
Filled(p, filling, bad) ==
    /\ ready' = [ready EXCEPT ![p] = @ \cup (filling \ bad)]
    /\ spoiled' = [spoiled EXCEPT ![p] = @ \cup bad]

\* The first copy is filled alone, then what is ready may register.
FillFirst(p) ==
    /\ pc[p] = "fillFirst"
    /\ \E bad \in SUBSET FirstCopy(p) : Filled(p, FirstCopy(p), bad)
    /\ Goto(p, "early")
    /\ UNCHANGED <<managerVars, loopVars, askVars, at, held, created, pend, leaseVars, calls>>

\* The rest are filled together.
FillRest(p) ==
    /\ pc[p] = "fillRest"
    /\ \E bad \in SUBSET Copies(p) : Filled(p, Copies(p), bad)
    /\ Goto(p, "final")
    /\ UNCHANGED <<managerVars, loopVars, askVars, at, held, created, pend, leaseVars, calls>>

\* A fill raises something other than a read error.
FillRaises(p) ==
    /\ pc[p] \in {"fillFirst", "fillRest"} /\ Copies(p) # {}
    /\ Goto(p, "failing")
    /\ UNCHANGED <<managerVars, loopVars, askVars, at, held, created, pend, loadVars, leaseVars, calls>>

-----------------------------------------------------------------------------
(* Registering the ready prefix of pend *)

\* Take the lock for _register_pending, the final section or the handler.
TakeLock(p) ==
    /\ pc[p] \in {"early", "final", "open", "failing"}
    /\ Enter(p, pc[p])
    /\ UNCHANGED <<budget, tableVars, pageable, budgetVars, failures, lifeVars, loopVars,
                   askVars, at, held, created, pend, loadVars, leaseVars, calls>>

Settling(p) == lock = p /\ pc[p] \in {"early", "final"}

\* The first pending storage may register: it lies in place, or its fill is over.
HeadReady(p) ==
    pend[p] # <<>> /\ (Head(pend[p]) \in FileBacked => Head(pend[p]) \in ready[p] \cup spoiled[p])

\* Nothing left that may register: back to filling, or on to opening the lease.
SettleStop(p) ==
    /\ Settling(p) /\ mark = -1
    /\ ~HeadReady(p)
    /\ IF pc[p] = "early" THEN Leave(p, "fillRest") ELSE Goto(p, "open") /\ UNCHANGED lock
    /\ UNCHANGED <<budget, tableVars, pageable, budgetVars, failures, lifeVars, loopVars,
                   askVars, at, held, created, pend, loadVars, leaseVars, calls>>

\* _evict_pending and its removal from the pending tables.
EvictPending(p) ==
    /\ Unreserve(Head(pend[p]))
    /\ starts' = [starts EXCEPT ![Head(pend[p])] = @ - 1]
    /\ pend' = [pend EXCEPT ![p] = Tail(@)]
    /\ UNCHANGED <<registered, leases, retired, owners, idle>>

\* The next storage to offer the backend, and nothing being evicted for it.
Offering(p) == Settling(p) /\ mark = -1 /\ HeadReady(p)

\* The fill failed, or the runtime rejects this range alone: it stays pageable.
SettleRefused(p) ==
    /\ Offering(p)
    /\ EvictPending(p)
    /\ UNCHANGED <<lock, budget, pageable, failures, lifeVars, loopVars, pc, askVars, at, held, created,
                   loadVars, leaseVars, calls>>

\* The runtime registers it; the acquisition holds it at once.
SettleRegister(p) ==
    /\ Offering(p)
    /\ LET s == Head(pend[p]) IN
          /\ s \notin spoiled[p]
          /\ registered' = registered \cup {s}
          /\ created' = [created EXCEPT ![p] = @ \cup {s}]
          /\ Hold(p, s)
    /\ pend' = [pend EXCEPT ![p] = Tail(@)]
    /\ rooted' = TRUE
    /\ UNCHANGED <<lock, budget, retired, idle, starts, pageable, budgetVars, failures, open, loopVars,
                   pc, askVars, at, loadVars, leaseVars, calls>>

\* The runtime is out of capacity: an LRU batch is evicted before a retry.
SettleNoCapacity(p) ==
    /\ Offering(p)
    /\ Head(pend[p]) \notin spoiled[p]
    /\ mark' = pinned
    /\ UNCHANGED <<managerVars, tried, callerVars, calls>>

\* The backend raises anything else: the section is left with pend as it is.
SettleRaises(p) ==
    /\ Offering(p)
    /\ Head(pend[p]) \notin spoiled[p]
    /\ Leave(p, "failing")
    /\ UNCHANGED <<budget, tableVars, pageable, budgetVars, failures, lifeVars, loopVars,
                   askVars, at, held, created, pend, loadVars, leaseVars, calls>>

Retrying(p) == Settling(p) /\ mark # -1

\* The batch still needs pages and has a victim left.
BatchOpen(p) == mark - pinned < SizePages[Head(pend[p])] /\ Candidates # {}

RetryEvict(p) ==
    /\ Retrying(p) /\ BatchOpen(p)
    /\ EvictVictim
    /\ UNCHANGED <<lock, budget, pageable, mark, callerVars, calls>>

\* The batch freed something.  Mutant: retry whether it did or not.
FreedAlways == TRUE
Freed == pinned < mark

\* Then ask the runtime again.
RetryAgain(p) ==
    /\ Retrying(p) /\ ~BatchOpen(p) /\ Freed
    /\ mark' = -1 /\ tried' = {}
    /\ UNCHANGED <<managerVars, callerVars, calls>>

\* It freed nothing: capacity is exhausted, and this acquisition stops registering.
RetryExhausted(p) ==
    /\ Retrying(p) /\ ~BatchOpen(p) /\ ~Freed
    /\ EvictPending(p)
    /\ mark' = -1 /\ tried' = {}
    /\ IF pc[p] = "early" THEN Leave(p, "open") ELSE Goto(p, "open") /\ UNCHANGED lock
    /\ UNCHANGED <<budget, pageable, failures, lifeVars, askVars, at, held, created,
                   loadVars, leaseVars, calls>>

-----------------------------------------------------------------------------
(* Opening the lease, and the exception handler *)

\* _discard_pending, one storage at a time.
DiscardNext(p) ==
    /\ lock = p /\ pc[p] \in {"open", "failing"} /\ pend[p] # <<>>
    /\ EvictPending(p)
    /\ UNCHANGED <<lock, budget, pageable, failures, lifeVars, loopVars, pc, askVars, at, held, created,
                   loadVars, leaseVars, calls>>

\* _open_lease: what is not held is leased pageable.
OpenLease(p) ==
    /\ Inside(p, "open") /\ pend[p] = <<>>
    /\ LET rest == Asked(p) \ Held(p) IN
          /\ paged' = [paged EXCEPT ![p] = rest]
          /\ pageable' = [s \in Storages |-> pageable[s] + IF s \in rest THEN 1 ELSE 0]
          /\ starts' = [s \in Storages |->
                            starts[s] + IF s \in rest /\ pageable[s] = 0 THEN 1 ELSE 0]
    /\ created' = [created EXCEPT ![p] = {}]
    /\ ready' = [ready EXCEPT ![p] = {}]
    /\ spoiled' = [spoiled EXCEPT ![p] = {}]
    /\ open' = open \cup {p}
    /\ rooted' = TRUE
    /\ Leave(p, "leased")
    /\ UNCHANGED <<budget, registered, leases, retired, owners, idle, budgetVars, failures, loopVars,
                   askVars, at, held, pend, reading, calls>>

\* The handler retires what this acquisition created and releases what it holds.
FailRetire(p) ==
    /\ Inside(p, "failing") /\ pend[p] = <<>>
    /\ retired' = retired \cup created[p]
    /\ created' = [created EXCEPT ![p] = {}]
    /\ ready' = [ready EXCEPT ![p] = {}]
    /\ spoiled' = [spoiled EXCEPT ![p] = {}]
    /\ Goto(p, "release")
    /\ UNCHANGED <<lock, budget, registered, leases, owners, idle, starts, pageable, budgetVars, failures, lifeVars,
                   loopVars, askVars, at, held, pend, leaseVars, calls>>

-----------------------------------------------------------------------------
(* Releasing: _close_lease, _release and the trailing _fit(0) *)

\* The lease closes once no transfer reads its storage.
CloseLease(p) ==
    /\ pc[p] = "leased" /\ reading[p] = {}
    /\ Enter(p, "release")
    /\ UNCHANGED <<budget, tableVars, pageable, budgetVars, failures, lifeVars, loopVars,
                   askVars, at, held, created, pend, loadVars, leaseVars, calls>>

\* A registration whose owner is gone goes with its last lease.  Mutant: it stays.
OrphanForgotten(s) == FALSE
Orphan(s) == s \in retired

\* One registration loses one lease; the last one makes it idle, and
\* unregisters it when its owner is gone.
ReleaseNext(p) ==
    /\ Inside(p, "release") /\ held[p] # <<>>
    /\ held' = [held EXCEPT ![p] = Tail(@)]
    /\ LET s == Head(held[p]) IN
          /\ leases' = [leases EXCEPT ![s] = @ - 1]
          /\ \/ /\ leases[s] # 1
                /\ UNCHANGED <<registered, retired, owners, idle, starts, budgetVars, failures, rooted>>
             \/ leases[s] = 1 /\ Orphan(s) /\ UnregisterDone(s)
             \/ /\ leases[s] = 1
                /\ idle' = Append(idle, s)
                /\ IF Orphan(s) THEN failures < MaxFailures /\ failures' = failures + 1
                                    ELSE UNCHANGED failures
                /\ UNCHANGED <<registered, retired, owners, starts, budgetVars, rooted>>
    /\ UNCHANGED <<lock, budget, pageable, open, loopVars, pc, askVars, at, created, pend,
                   loadVars, leaseVars, calls>>

ReleaseDone(p) ==
    /\ Inside(p, "release") /\ held[p] = <<>>
    /\ Goto(p, "trim")
    /\ UNCHANGED <<managerVars, loopVars, askVars, at, held, created, pend, loadVars, leaseVars, calls>>

\* _fit(lambda: 0): evict what the budget no longer covers.
TrimOver == Fits(0) \/ Candidates = {}

TrimEvict(p) ==
    /\ Inside(p, "trim") /\ ~TrimOver
    /\ EvictVictim
    /\ UNCHANGED <<lock, budget, pageable, mark, callerVars, calls>>

\* Then the lease's pageable storage is let go, and the call returns.
TrimDone(p) ==
    /\ Inside(p, "trim")
    /\ TrimOver
    /\ pageable' = [s \in Storages |-> pageable[s] - IF s \in paged[p] THEN 1 ELSE 0]
    /\ starts' = [s \in Storages |->
                      starts[s] - IF s \in paged[p] /\ pageable[s] = 1 THEN 1 ELSE 0]
    /\ paged' = [paged EXCEPT ![p] = {}]
    /\ open' = open \ {p}
    /\ IF p \in open THEN DropRoot(registered, open') ELSE UNCHANGED rooted
    /\ req' = [req EXCEPT ![p] = <<>>]
    /\ pin' = [pin EXCEPT ![p] = FALSE]
    /\ at' = [at EXCEPT ![p] = 1]
    /\ tried' = {}
    /\ Leave(p, "free")
    /\ UNCHANGED <<budget, registered, leases, retired, owners, idle, budgetVars, failures, mark,
                   held, created, pend, loadVars, reading, calls>>

-----------------------------------------------------------------------------
(* The other public calls, transfers, and dying owners *)

\* max_pinned_bytes is assigned.
SetBudget(p) ==
    /\ pc[p] = "free" /\ calls < MaxCalls
    /\ Enter(p, "trim")
    /\ budget' \in Budgets
    /\ calls' = calls + 1
    /\ UNCHANGED <<tableVars, pageable, budgetVars, failures, lifeVars, loopVars,
                   askVars, at, held, created, pend, loadVars, leaseVars>>

\* clear(): unregister every idle registration.
Clear(p) ==
    /\ pc[p] = "free" /\ calls < MaxCalls
    /\ Enter(p, "clear")
    /\ calls' = calls + 1
    /\ UNCHANGED <<budget, tableVars, pageable, budgetVars, failures, lifeVars, loopVars,
                   askVars, at, held, created, pend, loadVars, leaseVars>>

ClearNext(p) ==
    /\ Inside(p, "clear")
    /\ EvictVictim
    /\ UNCHANGED <<lock, budget, pageable, mark, callerVars, calls>>

ClearDone(p) ==
    /\ Inside(p, "clear") /\ Candidates = {}
    /\ tried' = {}
    /\ Leave(p, "free")
    /\ UNCHANGED <<budget, tableVars, pageable, budgetVars, failures, lifeVars, mark,
                   askVars, at, held, created, pend, loadVars, leaseVars, calls>>

\* transfer(non_blocking=True) under p's lease: refused when the storage is
\* pinned and nothing leases it, otherwise the read goes on after it returns.
StartTransfer(p, s) ==
    /\ pc[p] = "leased" /\ s \in Asked(p)
    /\ lock = Nobody
    /\ s \in registered /\ leases[s] > 0
    /\ reading' = [reading EXCEPT ![p] = @ \cup {s}]
    /\ UNCHANGED <<managerVars, loopVars, pc, askVars, at, held, created, pend, loadVars, paged, calls>>

\* The device has synchronized.
EndTransfers(p) ==
    /\ reading[p] # {}
    /\ reading' = [reading EXCEPT ![p] = {}]
    /\ UNCHANGED <<managerVars, loopVars, pc, askVars, at, held, created, pend, loadVars, paged, calls>>

\* owner_gone: p's tensor over s dies, which it can once no call or lease of p's
\* keeps it, on any thread, even the lock holder's.
OwnerGone(p, s) ==
    /\ p \in owners[s] /\ s \notin Asked(p)
    /\ \/ leases[s] = 0 /\ UnregisterDone(s)
       \/ /\ IF leases[s] = 0 THEN UnregisterFailed
             ELSE UNCHANGED <<registered, starts, idle, budgetVars, failures, rooted>>
          /\ retired' = retired \cup {s}
          /\ owners' = [owners EXCEPT ![s] = @ \ {p}]
    /\ UNCHANGED <<lock, budget, leases, pageable, open, loopVars, callerVars, calls>>

-----------------------------------------------------------------------------
(* The system *)

Init ==
    /\ lock = Nobody
    /\ budget \in Budgets
    /\ registered = {} /\ retired = {} /\ idle = <<>>
    /\ leases = [s \in Storages |-> 0]
    /\ pageable = [s \in Storages |-> 0]
    /\ starts = [s \in Storages |-> 0]
    /\ owners = [s \in Storages |-> {}]
    /\ open = {} /\ rooted = FALSE
    /\ boundary = [g \in Pages |-> 0]
    /\ pinned = 0 /\ failures = 0 /\ calls = 0
    /\ tried = {} /\ mark = -1
    /\ pc = [p \in Callers |-> "free"]
    /\ req = [p \in Callers |-> <<>>]
    /\ pin = [p \in Callers |-> FALSE]
    /\ at = [p \in Callers |-> 1]
    /\ held = [p \in Callers |-> <<>>]
    /\ pend = [p \in Callers |-> <<>>]
    /\ created = [p \in Callers |-> {}]
    /\ ready = [p \in Callers |-> {}]
    /\ spoiled = [p \in Callers |-> {}]
    /\ paged = [p \in Callers |-> {}]
    /\ reading = [p \in Callers |-> {}]

\* The steps a call takes by itself once it is made.
Progress(p) ==
    \/ Admit(p) \/ HoldNext(p) \/ HoldDone(p)
    \/ \E s \in Storages : ReserveEvict(p, s) \/ ReserveTake(p, s) \/ ReserveSkip(p, s)
    \/ ReserveDone(p)
    \/ FillFirst(p) \/ FillRest(p) \/ FillRaises(p)
    \/ TakeLock(p)
    \/ SettleStop(p) \/ SettleRefused(p) \/ SettleRegister(p) \/ SettleNoCapacity(p)
    \/ SettleRaises(p) \/ RetryEvict(p) \/ RetryAgain(p) \/ RetryExhausted(p)
    \/ DiscardNext(p) \/ OpenLease(p) \/ FailRetire(p)
    \/ ReleaseNext(p) \/ ReleaseDone(p) \/ TrimEvict(p) \/ TrimDone(p)
    \/ ClearNext(p) \/ ClearDone(p)

\* What callers choose to do.
Choice(p) ==
    \/ CallAcquire(p) \/ CloseLease(p) \/ SetBudget(p) \/ Clear(p)
    \/ \E s \in Storages : StartTransfer(p, s)
    \/ EndTransfers(p)

\* The bounded run is over.
Rest ==
    /\ calls = MaxCalls /\ \A p \in Callers : pc[p] = "free"
    /\ UNCHANGED vars

Next ==
    \/ \E p \in Callers : Progress(p) \/ Choice(p)
    \/ \E p \in Callers, s \in Storages : OwnerGone(p, s)
    \/ Rest

Spec == Init /\ [][Next]_vars

\* A thread inside a call keeps running; nothing obliges anyone to call or close.
FairSpec == Spec /\ \A p \in Callers : WF_vars(Progress(p))

-----------------------------------------------------------------------------
(* Properties *)

Stages == {"free", "waiting", "hold", "reserve", "fillFirst", "early", "fillRest", "final",
           "open", "failing", "leased", "release", "trim", "clear"}

\* Type invariant: every table and every caller's locals stay in their domains.
TypeOK ==
    /\ lock \in Callers \cup {Nobody}
    /\ budget \in Budgets
    /\ registered \subseteq Storages /\ retired \subseteq Storages /\ tried \subseteq Storages
    /\ idle \in Seq(Storages)
    /\ leases \in [Storages -> Nat]
    /\ owners \in [Storages -> SUBSET Callers]
    /\ open \subseteq Callers /\ rooted \in BOOLEAN
    /\ pageable \in [Storages -> Int]
    /\ starts \in [Storages -> Int]
    /\ boundary \in [Pages -> Int]
    /\ pinned \in Int
    /\ mark \in Int
    /\ failures \in 0 .. MaxFailures
    /\ calls \in 0 .. MaxCalls
    /\ pc \in [Callers -> Stages]
    /\ req \in [Callers -> Seq(Storages)]
    /\ pin \in [Callers -> BOOLEAN]
    /\ at \in [Callers -> Nat \ {0}]
    /\ held \in [Callers -> Seq(Storages)]
    /\ pend \in [Callers -> Seq(Storages)]
    /\ created \in [Callers -> SUBSET Storages]
    /\ ready \in [Callers -> SUBSET Storages]
    /\ spoiled \in [Callers -> SUBSET Storages]
    /\ paged \in [Callers -> SUBSET Storages]
    /\ reading \in [Callers -> SUBSET Storages]

\* "A registration it holds is not evicted": whatever an open lease or a running
\* acquisition holds stays registered, whoever evicts, clears, shrinks the budget,
\* fails or loses an owner meanwhile.
HeldStaysRegistered == \A p \in Callers : Held(p) \subseteq registered

\* Each registration's lease count is the number of leases and running
\* acquisitions that hold it.
LeasesCounted ==
    \A s \in Storages : leases[s] = Cardinality({p \in Callers : s \in Held(p)})

\* The idle LRU lists exactly the registrations nobody holds, each once.
IdleIsUnleased ==
    /\ Idle = {s \in registered : leases[s] = 0}
    /\ IsInjective(idle)

\* A registration is in the idle LRU exactly when no lease or acquisition holds it: what
\* is held is never a victim, and what nobody holds never stays out of reach.
LeasesAgree == LeasesCounted /\ IdleIsUnleased

\* Only one acquisition has storage pending, and pending storage is neither
\* registered nor leased by anyone, so no range is reserved or registered twice.
PendingExclusive ==
    /\ \A p, q \in Callers : pend[p] # <<>> /\ pend[q] # <<>> => p = q
    /\ Pending \cap registered = {}
    /\ \A s \in Pending : leases[s] = 0

\* _pinned_bytes is the union of the pages pinned in place plus the copies'
\* pages, though the code only counts the boundary pages of each range.
InPlacePages == UNION {FirstPage[s] .. LastPage[s] : s \in (registered \cup Pending) \ FileBacked}
PinnedIsUnion ==
    pinned = Cardinality(InPlacePages)
             + MapThenSumSet(LAMBDA s : SizePages[s], (registered \cup Pending) \cap FileBacked)

\* With no failed unregistration, the pins exceed the budget between critical
\* sections only while every one of them is held or being acquired.
OverBudgetOnlyLeased ==
    lock = Nobody /\ failures = 0 /\ ~Fits(0) => idle = <<>>

\* _starts lists a range once for being registered or pending and once for being
\* leased pageable: entries are never lost or left behind.
StartsMatch ==
    \A s \in Storages :
        starts[s] = (IF s \in registered \cup Pending THEN 1 ELSE 0)
                    + (IF pageable[s] > 0 THEN 1 ELSE 0)

\* The manager's books agree with each other and with the budget, whatever failed.
Accounting == PinnedIsUnion /\ OverBudgetOnlyLeased /\ StartsMatch

\* Losing an owner gives the memory back: a retired registration outlives its
\* last lease only when its unregistration failed.
RetiredIsReleased ==
    failures = 0 => \A s \in retired : s \in registered /\ leases[s] > 0

\* _live_managers roots the manager exactly while it has a registration or an open
\* lease, so dropping every reference can neither lose pinned memory nor leak it.
RootedExactly == rooted <=> registered # {} \/ open # {}

\* Nothing outlives its owners and leases but what the runtime refused to let go.
NothingLeaks == RetiredIsReleased /\ RootedExactly

\* Every call returns, so that a caller is outside of calls again and again: an
\* acquisition is never stranded behind another's pending storage, and no section
\* or eviction loop runs forever.
CallsReturn == \A p \in Callers : []<>(pc[p] \in {"free", "leased"})

\* The manager keeps LeasedPool's promise: every step registers storage for a
\* holder, shares it, lets go of it or drops what nobody holds, or does neither.
Promise == INSTANCE LeasedPool WITH
    Holders <- Callers, Items <- Storages,
    pool <- registered, holding <- [p \in Callers |-> Held(p)]
KeepsPromise == Promise!Spec

=============================================================================
