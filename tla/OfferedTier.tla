------------------------------ MODULE OfferedTier ------------------------------
(***************************************************************************)
(* The pin manager's copies on Windows (_copy_memory_windows.py,           *)
(* _host_memory_windows.py and the acquisitions of pin_manager.py): a copy *)
(* evicted from the pinned budget is offered to Windows by a worker, kept  *)
(* in a tier with a budget of its own, and taken back, whole or in part,   *)
(* when its storage is acquired again.  Every copy here is of a checkpoint *)
(* storage; PinManager models registration in place, waiting and ranges.   *)
(***************************************************************************)
EXTENDS Integers, Sequences, FiniteSets, SequencesExt, FiniteSetsExt

CONSTANTS
  Threads,
  Size,            \* Size[s]: the spans of storage s's copy
  Requests,        \* what is acquired: sequences of storages
  Regions,         \* the addresses VirtualAlloc can return
  PinnedBudgets, OfferedBudgets,  \* the values the budgets are set to
  MaxOperations,   \* bound on acquisitions, settings and clears
  MaxDrops         \* bound on owners that are dropped

Storages == DOMAIN Size
None == 0
Junk == -1   \* bytes Windows discarded, or that are not filled yet

(* An acquisition's tensors are grouped by storage (_requests): none is requested twice. *)
ASSUME OfferedAssumption ==
  /\ Size \in Seq(Nat \ {0}) /\ Storages \subseteq Regions /\ None \notin Regions
  /\ IsFiniteSet(Threads) /\ None \notin Threads
  /\ Requests \subseteq {q \in Seq(Storages) : IsInjective(q)}
  /\ PinnedBudgets \subseteq Nat /\ OfferedBudgets \subseteq Nat
  /\ MaxOperations \in Nat /\ MaxDrops \in Nat

VARIABLES
  memory,     \* what the manager's lock guards, and the regions; `missed` are the storages
              \* whose copy entered the tier behind the back of its owner's finalizer
  call,       \* call[t]: thread t's acquisition or lease
  current,    \* current[s]: which storage is now at address s
  exhausted,  \* MaximumCommitCondition
  operations, drops
vars == <<memory, call, current, exhausted, operations, drops>>

Free == [state |-> "free", data |-> <<>>]
Unregistered == [region |-> None, leases |-> 0, retired |-> FALSE]
NoCall == [pc |-> "idle", request |-> <<>>, held |-> <<>>, loads |-> <<>>, created |-> {}]

(* q without the elements of S. *)
Lacking(q, S) == FoldSet(LAMBDA e, rest : RemoveFirst(rest, e), q, S)

Pointers(owners) == {o.pointer : o \in ToSet(owners)}
Total(owners) == MapThenSumSet(LAMBDA s : Size[s], Pointers(owners))
Freed(x, R) == [x EXCEPT !.regions = [r \in Regions |-> IF r \in R THEN Free ELSE x.regions[r]]]
FreeRegions(x) == {r \in Regions : x.regions[r].state = "free"}
Fresh(x) == CHOOSE r \in FreeRegions(x) : TRUE
Allocated(x, s, r) ==
  [x EXCEPT !.regions[r] = [state |-> "open", data |-> [i \in 1 .. Size[s] |-> Junk]]]

------------------------------------------------------------------------------
(* The tier. *)

Tiered(x) == Pointers(x.tier)
Entry(x, s) == CHOOSE e \in ToSet(x.tier) : e.pointer = s

(* _evict_offered: least recently offered copies are freed down to target bytes. *)
EvictOffered(x, target) ==
  LET length == Len(x.tier)
      first == Min({k \in 0 .. length : k = length \/ Total(SubSeq(x.tier, k + 1, length)) <= target})
  IN  Freed([x EXCEPT !.tier = SubSeq(x.tier, first + 1, length)], {x.tier[i].region : i \in 1 .. first})

Relieved(x) == IF exhausted THEN EvictOffered(x, 0) ELSE x

Occupied(x, s) == x.registered[s].region # None \/ s \in x.pending

(* MUTANT: the watcher is not started again once it has ended. *)
SettleUnwatched(x, owner, offered, collected) ==
  IF \/ ~offered \/ owner.retired \/ Occupied(x, owner.pointer) \/ owner.pointer \in Tiered(x)
     \/ Size[owner.pointer] > x.maxOffered
  THEN Freed(x, {owner.region})
  ELSE LET made == EvictOffered(x, x.maxOffered - Size[owner.pointer])
       IN  Relieved([made EXCEPT !.tier = Append(@, [owner EXCEPT !.retired = collected]),
                                       !.missed = @ \cup IF collected THEN {owner.pointer} ELSE {}])

(* _settle_offer: the copy enters the tier, or is freed if it could not be
   offered, was retired meanwhile, has a successor or does not fit.  `collected`
   is a finalizer that runs on this thread, inside its own lock, just before
   the copy enters. *)
Settle(x, owner, offered, collected) ==
  IF \/ ~offered \/ owner.retired \/ Occupied(x, owner.pointer) \/ owner.pointer \in Tiered(x)
     \/ Size[owner.pointer] > x.maxOffered
  THEN Freed(x, {owner.region})
  ELSE LET made == EvictOffered(x, x.maxOffered - Size[owner.pointer])
           kept == Relieved([made EXCEPT !.tier = Append(@, [owner EXCEPT !.retired = collected]),
                                       !.missed = @ \cup IF collected THEN {owner.pointer} ELSE {}])
       IN  [kept EXCEPT !.watching = @ \/ kept.tier # <<>>]

(* Memory.release, with the batch of thread t or, for None, at once. *)
ReleaseCopy(x, owner, demote, t, o) ==
  IF demote /\ ~owner.retired /\ Size[owner.pointer] <= x.maxOffered
  THEN IF t # None
       THEN [x EXCEPT !.batch[t] = Append(@, [owner |-> owner, offer |-> "running"])]
       ELSE Settle(IF o.offered THEN [x EXCEPT !.regions[owner.region].state = "offered"] ELSE x,
                   owner, o.offered, o.collected)
  ELSE Freed(x, {owner.region})

(* What the environment decides inside a locked section: whether a copy evicted
   there can be offered, and whether a finalizer is collected. *)
Undecided == [offered |-> FALSE, collected |-> FALSE]
Outcomes(evicting) ==
  IF evicting /\ memory.maxOffered > 0
  THEN {o \in [offered : BOOLEAN, collected : BOOLEAN] : o.collected => o.offered} ELSE {Undecided}

------------------------------------------------------------------------------
(* Registrations, under the lock. *)

Pinned(x) == MapThenSumSet(LAMBDA s : Size[s], {s \in Storages : Occupied(x, s)})

Unregister(x, s, demote, t, o) ==
  ReleaseCopy([x EXCEPT !.registered[s] = Unregistered, !.idle = RemoveFirst(@, s)],
              [pointer |-> s, region |-> x.registered[s].region, retired |-> x.registered[s].retired],
              demote, t, o)

Evicted(x, s, limit, t, o) == IF Pinned(x) <= limit THEN x ELSE Unregister(x, s, TRUE, t, o)
EvictIdle(x, limit, t, o) ==
  LET after[n \in 0 .. Len(x.idle)] ==
        IF n = 0 THEN x ELSE Evicted(after[n - 1], x.idle[n], limit, t, o)
  IN  after[Len(x.idle)]

Fits(x, size) == Pinned(x) + size <= x.maxPinned
Fit(x, size, t, o) == IF size > x.maxPinned THEN x ELSE EvictIdle(x, x.maxPinned - size, t, o)

OverBudget == Pinned(memory) > memory.maxPinned

(* _hold, for the registrations an acquisition finds. *)
Hold(x, held) ==
  [x EXCEPT !.registered = [s \in Storages |-> IF s \in ToSet(held) THEN [x.registered[s] EXCEPT !.leases = @ + 1]
                                              ELSE x.registered[s]],
            !.idle = Lacking(@, ToSet(held))]

(* _release: an idle registration is the most recent; a retired one goes. *)
Release(x, held, o) ==
  LET last == {s \in ToSet(held) : x.registered[s].leases = 1}
      gone == {s \in last : x.registered[s].retired}
      kept == [x EXCEPT !.registered = [s \in Storages |->
                          IF s \in gone THEN Unregistered
                          ELSE IF s \in ToSet(held) THEN [x.registered[s] EXCEPT !.leases = @ - 1]
                          ELSE x.registered[s]],
                        !.idle = @ \o Lacking(held, ToSet(held) \ (last \ gone))]
  IN  Fit(Freed(kept, {x.registered[s].region : s \in gone}), 0, None, o)

------------------------------------------------------------------------------
(* An acquisition.  Its loads are the copies it has reserved: what is missing of
   each, whether it still has to be reclaimed, and the worker that does it. *)

Load(s, r, offered) ==
  [pointer |-> s, region |-> r, missing |-> 1 .. Size[s], offered |-> offered, error |-> FALSE,
   worker |-> IF offered THEN "queued" ELSE "none"]
Ready(load) == ~load.offered /\ (load.missing = {} \/ load.error)

Pageable(s) == \E t \in Threads : call[t].pc = "leased" /\ s \in ToSet(call[t].request) \ ToSet(call[t].held)

(* Memory.allocate: a failed allocation frees offered copies and tries again. *)
Allocation(x, s, outcome) ==
  LET before == Relieved(x)
      after == EvictOffered(before, Total(before.tier) - Size[s])
      x1 == IF outcome = "first" \/ before.tier = <<>> THEN before ELSE after
  IN  IF outcome = "none" \/ (outcome = "second" /\ before.tier = <<>>) \/ FreeRegions(x1) = {}
      THEN [x |-> x1, region |-> None]
      ELSE [x |-> Allocated(x1, s, Fresh(x1)), region |-> Fresh(x1)]

Reserved(a, x, s, r, offered) ==
  [x |-> [x EXCEPT !.pending = @ \cup {s}], loads |-> Append(a.loads, Load(s, r, offered))]

(* A copy goes back into the tier, at its end; a finalizer may be collected just before. *)
PutBack(x, entry, o) ==
  [x EXCEPT !.tier = Append(@, [entry EXCEPT !.retired = o.collected]),
            !.missed = @ \cup IF o.collected THEN {entry.pointer} ELSE {}]

(* MUTANT: room is made for a tier copy while it is still in the tier. *)
ReserveInTier(a, s, t, outcome, o) ==
  LET made == Fit(a.x, Size[s], t, o)
      allocation == Allocation(made, s, outcome)
  IN  IF a.x.registered[s].region # None \/ Pageable(s) THEN a
      ELSE IF ~Fits(made, Size[s]) THEN [a EXCEPT !.x = made]
      ELSE IF s \in Tiered(a.x) THEN Reserved(a, made, s, Entry(a.x, s).region, TRUE)
      ELSE IF allocation.region = None THEN [a EXCEPT !.x = allocation.x]
      ELSE Reserved(a, allocation.x, s, allocation.region, FALSE)

(* _reserve_copy: a copy leaves the tier before room is made for it, and goes
   back if there is none. *)
Reserve(a, s, t, outcome, o) ==
  LET entry == Entry(a.x, s)
      taken == IF s \in Tiered(a.x) THEN [a.x EXCEPT !.tier = Lacking(@, {entry})] ELSE a.x
      made == Fit(taken, Size[s], t, o)
      allocation == Allocation(made, s, outcome)
  IN  IF a.x.registered[s].region # None \/ Pageable(s) THEN a
      ELSE IF s \in Tiered(a.x)
      THEN IF Fits(made, Size[s]) THEN Reserved(a, made, s, entry.region, TRUE)
           ELSE [a EXCEPT !.x = PutBack(made, entry, o)]
      ELSE IF ~Fits(made, Size[s]) THEN [a EXCEPT !.x = made]
      ELSE IF allocation.region = None THEN [a EXCEPT !.x = allocation.x]
      ELSE Reserved(a, allocation.x, s, allocation.region, FALSE)
ReserveAll(x, q, t, outcome, o) ==
  LET after[n \in 0 .. Len(q)] ==
        IF n = 0 THEN [x |-> x, loads |-> <<>>] ELSE Reserve(after[n - 1], q[n], t, outcome, o)
  IN  after[Len(q)]
(* Which allocation of a copy succeeds. *)
Allocations == {"first", "second", "none"}

(* acquire, its first locked section. *)
Acquire(t) == \E q \in Requests, outcome \in Allocations, o \in Outcomes(memory.tier # <<>>) :
  /\ call[t].pc = "idle" /\ operations < MaxOperations
  /\ memory.pending = {}
  /\ LET held == Lacking(q, {s \in ToSet(q) : memory.registered[s].region = None})
         a == ReserveAll(Hold(memory, held), q, t, outcome, o)
     IN  /\ memory' = a.x
         /\ call' = [call EXCEPT ![t] = [NoCall EXCEPT !.pc = "offering", !.request = q, !.held = held,
                                                       !.loads = a.loads]]
  /\ operations' = operations + 1
  /\ UNCHANGED <<current, exhausted, drops>>

(* The max_pinned_bytes setter. *)
SetPinned(t) == \E v \in PinnedBudgets \ {memory.maxPinned} :
  /\ call[t].pc = "idle" /\ operations < MaxOperations
  /\ memory' = Fit([memory EXCEPT !.maxPinned = v], 0, t, Undecided)
  /\ call' = [call EXCEPT ![t].pc = "offering"]
  /\ operations' = operations + 1
  /\ UNCHANGED <<current, exhausted, drops>>

(* A worker of the batch: OfferVirtualMemory's pages may go from here on. *)
OfferEnds(t, i) == \E offered \in BOOLEAN :
  /\ memory.batch[t][i].offer = "running"
  /\ memory' = [memory EXCEPT !.batch[t][i].offer = IF offered THEN "offered" ELSE "refused",
                              !.regions[memory.batch[t][i].owner.region].state = IF offered THEN "offered" ELSE @]
  /\ UNCHANGED <<call, current, exhausted, operations, drops>>

(* ReleaseBatch.finish: the workers are joined, then each copy is settled. *)
Joined(t) == \A i \in DOMAIN memory.batch[t] : memory.batch[t][i].offer # "running"
SettleAll(x, batch, collected) ==
  LET after[n \in 0 .. Len(batch)] ==
        IF n = 0 THEN x ELSE Settle(after[n - 1], batch[n].owner, batch[n].offer = "offered", collected)
  IN  after[Len(batch)]
Finish(t) == \E collected \in BOOLEAN :
  /\ call[t].pc = "offering" /\ Joined(t)
  /\ memory' = SettleAll([memory EXCEPT !.batch[t] = <<>>], memory.batch[t], collected)
  /\ call' = [call EXCEPT ![t].pc = IF call[t].request = <<>> THEN "idle" ELSE "preparing"]
  /\ UNCHANGED <<current, exhausted, operations, drops>>

(* _reclaim_copy on a worker of the acquisition's pool.  A copy Windows does not
   give back is freed and rebuilt, if a replacement can be allocated. *)
ReclaimStarts(t, i) ==
  /\ call[t].pc = "preparing" /\ call[t].loads[i].worker = "queued"
  /\ call' = [call EXCEPT ![t].loads[i].worker = "running"]
  /\ UNCHANGED <<memory, current, exhausted, operations, drops>>
(* MUTANT: a partly discarded copy is taken for whole. *)
DiscardedNever(r) == {}
Discarded(r) == {i \in DOMAIN memory.regions[r].data : memory.regions[r].data[i] = Junk}
ReclaimEnds(t, i) ==
  LET load == call[t].loads[i]
      back == [load EXCEPT !.worker = "back"]
      freed == Freed(memory, {load.region})
  IN  /\ load.worker = "running"
      /\ \/ /\ memory' = [memory EXCEPT !.regions[load.region].state = "open"]
            /\ call' = [call EXCEPT ![t].loads[i] = [back EXCEPT !.missing = Discarded(load.region)]]
         \/ LET r == Fresh(freed)
            IN  /\ memory' = Allocated(freed, load.pointer, r)
                /\ call' = [call EXCEPT ![t].loads[i] = [back EXCEPT !.region = r]]
         \/ /\ memory' = freed
            /\ call' = [call EXCEPT ![t].loads[i] = [back EXCEPT !.region = None, !.error = TRUE]]
      /\ UNCHANGED <<current, exhausted, operations, drops>>
(* _try_register, and the eviction of idle registrations while the runtime
   refuses capacity: a batch that frees as much as is wanted, then another. *)
Answers == {"registered", "later", "capacity", "refused", "raised"}
TryRegister(x, s, answer, o) ==
  LET batch == EvictIdle(x, Pinned(x) - Size[s], None, o)
  IN  CASE answer = "later" ->
             [x |-> batch, result |-> IF Pinned(batch) < Pinned(x) THEN "registered" ELSE "capacity"]
        [] answer = "capacity" -> [x |-> EvictIdle(x, -1, None, o), result |-> "capacity"]
        [] OTHER -> [x |-> x, result |-> answer]

(* _settle_pending.  An exception leaves the load pending. *)
SettlePending(a, k, answer, o) ==
  LET load == a.loads[k]
      s == load.pointer
      try == IF load.error THEN [x |-> a.x, result |-> "refused"] ELSE TryRegister(a.x, s, answer, o)
      done == [try.x EXCEPT !.pending = @ \ {s}]
  IN  IF try.result = "raised" THEN [a EXCEPT !.x = try.x, !.result = "raised"]
      ELSE IF try.result = "registered"
      THEN [a EXCEPT !.x = [done EXCEPT !.registered[s] = [region |-> load.region, leases |-> 1, retired |-> FALSE]],
                     !.loads = RemoveAt(@, k), !.held = Append(@, s), !.created = @ \cup {s}]
      ELSE [a EXCEPT !.x = Freed(done, {load.region}), !.loads = RemoveAt(@, k),
                     !.result = IF try.result = "capacity" THEN "capacity" ELSE @]

(* _register_pending: the ready prefix in request order; one copy that is just
   back may go ahead of an unfinished one. *)
Place(loads, s) == CHOOSE k \in DOMAIN loads : loads[k].pointer = s
RegisterNext(a, answers, o) ==
  IF a.result # "all" \/ a.loads = <<>> \/ (~Ready(a.loads[1]) /\ a.early = None) THEN a
  ELSE LET k == IF Ready(a.loads[1]) THEN 1 ELSE Place(a.loads, a.early)
       IN  SettlePending([a EXCEPT !.early = IF a.loads[k].pointer = @ THEN None ELSE @],
                         k, answers[a.loads[k].pointer], o)
RegisterPending(x, c, early, answers, o) ==
  LET after[n \in 0 .. Len(c.loads)] ==
        IF n = 0 THEN [x |-> x, loads |-> c.loads, held |-> c.held, created |-> c.created,
                       early |-> early, result |-> "all"]
        ELSE RegisterNext(after[n - 1], answers, o)
  IN  after[Len(c.loads)]

Registering(t, a, next) ==
  /\ memory' = a.x
  /\ call' = [call EXCEPT ![t] = [@ EXCEPT !.loads = a.loads, !.held = a.held, !.created = a.created,
                                           !.pc = CASE a.result = "all" -> next
                                                    [] a.result = "capacity" -> "closing"
                                                    [] a.result = "raised" -> "raising"]]
  /\ UNCHANGED <<current, exhausted, operations, drops>>

(* The runtime's answers for the loads in `which`. *)
Answering(t, which) ==
  [{call[t].loads[i].pointer : i \in which} -> IF memory.idle = <<>> THEN Answers \ {"later"} ELSE Answers]
Evictions == Outcomes(memory.idle # <<>>)

(* _prepare hands back reclaimed copies in request order; each that is whole is
   registered before anything is read. *)
Yield(t) ==
  LET loads == call[t].loads
      first == SelectInSeq(loads, LAMBDA l : l.offered)
      given == [call[t] EXCEPT !.loads[first] = [@ EXCEPT !.offered = FALSE, !.worker = "none"]]
      early == IF Ready(given.loads[first]) THEN loads[first].pointer ELSE None
  IN  /\ call[t].pc = "preparing" /\ first # 0 /\ loads[first].worker = "back"
      /\ \E o \in Evictions, answers \in Answering(t, {i \in DOMAIN loads : i = first \/ ~loads[i].offered}) :
           Registering(t, RegisterPending(memory, given, early, answers, o), "preparing")

(* _fill_copies: what is missing is read; a copy that cannot be read stays as it is. *)
Fill(x, c, which, failing) ==
  LET fills == {i \in which : c.loads[i].pointer \notin failing}
  IN  [x |-> [x EXCEPT !.regions = [r \in Regions |->
                IF \E i \in fills : c.loads[i].region = r
                THEN LET l == CHOOSE l \in ToSet(c.loads) : l.region = r
                     IN  [x.regions[r] EXCEPT !.data = [j \in DOMAIN @ |->
                                                          IF j \in l.missing THEN current[l.pointer] ELSE @[j]]]
                ELSE x.regions[r]]],
       c |-> [c EXCEPT !.loads = [i \in DOMAIN @ |->
                IF i \in fills THEN [@[i] EXCEPT !.missing = {}]
                ELSE IF i \in which THEN [@[i] EXCEPT !.error = TRUE] ELSE @[i]]]]
Unfilled(t) == {i \in DOMAIN call[t].loads : call[t].loads[i].missing # {} /\ ~call[t].loads[i].error}

Reclaimed(t) == \A i \in DOMAIN call[t].loads : ~call[t].loads[i].offered

(* The first copy is filled alone, and registered, before the others are read. *)
FillFirst(t) ==
  LET first == Min(Unfilled(t))
  IN  /\ call[t].pc = "preparing" /\ Reclaimed(t) /\ Unfilled(t) # {}
      /\ \E failing \in SUBSET {call[t].loads[first].pointer}, o \in Evictions,
            answers \in Answering(t, DOMAIN call[t].loads \ (Unfilled(t) \ {first})) :
           LET filled == Fill(memory, call[t], {first}, failing)
           IN  Registering(t, RegisterPending(filled.x, filled.c, None, answers, o), "filling")

(* The others are filled, everything left is registered and the lease opens. *)
FillRest(t) ==
  /\ call[t].pc = "filling" \/ (call[t].pc = "preparing" /\ Reclaimed(t) /\ Unfilled(t) = {})
  /\ \E failing \in SUBSET {call[t].loads[i].pointer : i \in Unfilled(t)}, o \in Evictions,
        answers \in Answering(t, DOMAIN call[t].loads) :
       LET filled == Fill(memory, call[t], Unfilled(t), failing)
       IN  Registering(t, RegisterPending(filled.x, filled.c, None, answers, o), "leased")

(* The generator is closed, which joins the reclaims that run and cancels the
   rest; then what is still pending is freed.  After an exception the
   acquisition's registrations are retired and released. *)
Quiet(t) == \A i \in DOMAIN call[t].loads : call[t].loads[i].worker # "running"
DiscardPending(t) == \E o \in Outcomes(OverBudget) :
  LET loads == call[t].loads
      freed == Freed([memory EXCEPT !.pending = @ \ Pointers(loads)], {l.region : l \in ToSet(loads)})
      retired == [freed EXCEPT !.registered = [s \in Storages |->
                    IF s \in call[t].created THEN [freed.registered[s] EXCEPT !.retired = TRUE]
                    ELSE freed.registered[s]]]
  IN  /\ call[t].pc \in {"closing", "raising"} /\ Quiet(t)
      /\ IF call[t].pc = "closing"
         THEN /\ memory' = freed
              /\ call' = [call EXCEPT ![t] = [@ EXCEPT !.pc = "leased", !.loads = <<>>]]
         ELSE /\ memory' = Release(retired, call[t].held, o)
              /\ call' = [call EXCEPT ![t] = NoCall]
      /\ UNCHANGED <<current, exhausted, operations, drops>>

CloseLease(t) == \E o \in Outcomes(OverBudget) :
  /\ call[t].pc = "leased"
  /\ memory' = Release(memory, call[t].held, o)
  /\ call' = [call EXCEPT ![t] = NoCall]
  /\ UNCHANGED <<current, exhausted, operations, drops>>

------------------------------------------------------------------------------
(* Settings, owners, Windows. *)

(* The max_offered_bytes setter (resize), and clear. *)
SetOffered == \E v \in OfferedBudgets \ {memory.maxOffered} :
  /\ operations < MaxOperations
  /\ memory' = EvictOffered([memory EXCEPT !.maxOffered = v], v)
  /\ operations' = operations + 1
  /\ UNCHANGED <<call, current, exhausted, drops>>
Clear ==
  /\ operations < MaxOperations
  /\ LET gone == ToSet(memory.idle)
         kept == [memory EXCEPT !.registered = [s \in Storages |-> IF s \in gone THEN Unregistered
                                                                  ELSE memory.registered[s]],
                                !.idle = <<>>]
     IN  memory' = EvictOffered(Freed(kept, {memory.registered[s].region : s \in gone}), 0)
  /\ operations' = operations + 1
  /\ UNCHANGED <<call, current, exhausted, drops>>

Using(s) == \E t \in Threads : s \in ToSet(call[t].request)

(* owner_gone, for a tensor every copy of s was acquired with.  The storage
   itself goes with its last tensor, which no call may hold, and its address
   is used again.  A copy that was retired before has no tensor left to tell. *)
OwnerGone(s) == \E dies \in BOOLEAN :
  LET retired == [memory EXCEPT
        !.registered[s].retired = memory.registered[s].region # None,
        !.batch = [t \in Threads |-> [i \in DOMAIN memory.batch[t] |->
                    IF memory.batch[t][i].owner.pointer = s THEN [memory.batch[t][i] EXCEPT !.owner.retired = TRUE]
                    ELSE memory.batch[t][i]]]]
      gone == {e \in ToSet(memory.tier) : e.pointer = s /\ ~e.retired}
      untiered == Freed([retired EXCEPT !.tier = Lacking(@, gone)], {e.region : e \in gone})
  IN  /\ drops < MaxDrops
      /\ dies => ~Using(s)
      /\ memory' = IF s \in ToSet(memory.idle) THEN Unregister(untiered, s, FALSE, None, Undecided) ELSE untiered
      /\ current' = [current EXCEPT ![s] = IF dies THEN @ + 1 ELSE @]
      /\ drops' = drops + 1
      /\ UNCHANGED <<call, exhausted, operations>>
(* Windows discards a span of what is offered, and runs short of commitment. *)
Discard(r, i) ==
  /\ memory.regions[r].state = "offered"
  /\ memory' = [memory EXCEPT !.regions[r].data[i] = Junk]
  /\ UNCHANGED <<call, current, exhausted, operations, drops>>
Commitment ==
  /\ exhausted' = ~exhausted
  /\ UNCHANGED <<memory, call, current, operations, drops>>

(* _keep_commit: the watcher's turn, which may be its last. *)
Watch ==
  /\ memory.watching
  /\ LET x == Relieved(memory) IN memory' = [x EXCEPT !.watching = x.tier # <<>>]
  /\ UNCHANGED <<call, current, exhausted, operations, drops>>

(* Earlier calls left some storages pinned and some copies in the tier, in any order. *)
Orders == {q \in UNION {[1 .. n -> Storages] : n \in 0 .. Len(Size)} : IsInjective(q)}
Init ==
  /\ \E pinned \in PinnedBudgets, offered \in OfferedBudgets, idle, tiered \in Orders :
       LET owners == [s \in Storages |-> [pointer |-> s, region |-> s, retired |-> FALSE]]
           Whole(s) == [i \in 1 .. Size[s] |-> 0]
       IN  /\ ToSet(idle) \cap ToSet(tiered) = {}
           /\ memory = [registered |-> [s \in Storages |-> IF s \in ToSet(idle) THEN [Unregistered EXCEPT !.region = s]
                                                          ELSE Unregistered],
                        idle |-> idle, pending |-> {},
                        tier |-> [i \in DOMAIN tiered |-> owners[tiered[i]]],
                        batch |-> [t \in Threads |-> <<>>],
                        regions |-> [r \in Regions |->
                          IF r \in ToSet(idle) THEN [state |-> "open", data |-> Whole(r)]
                          ELSE IF r \in ToSet(tiered) THEN [state |-> "offered", data |-> Whole(r)]
                          ELSE Free],
                        maxPinned |-> pinned, maxOffered |-> offered, watching |-> tiered # <<>>, missed |-> {}]
           /\ Fits(memory, 0) /\ Total(memory.tier) <= offered
  /\ call = [t \in Threads |-> NoCall]
  /\ current = [s \in Storages |-> 0]
  /\ exhausted = FALSE
  /\ operations = 0 /\ drops = 0

Steps(t) ==
  \/ Finish(t) \/ Yield(t) \/ FillFirst(t) \/ FillRest(t) \/ DiscardPending(t)
  \/ \E i \in DOMAIN memory.batch[t] : OfferEnds(t, i)
  \/ \E i \in DOMAIN call[t].loads : ReclaimStarts(t, i) \/ ReclaimEnds(t, i)
Next ==
  \/ \E t \in Threads : Acquire(t) \/ SetPinned(t) \/ Steps(t) \/ CloseLease(t)
  \/ SetOffered \/ Clear \/ Watch \/ Commitment
  \/ \E s \in Storages : OwnerGone(s)
  \/ \E r \in Regions, i \in 1 .. Max(ToSet(Size)) : i \in DOMAIN memory.regions[r].data /\ Discard(r, i)

(* The watcher's thread runs: it waits at most _COMMIT_WATCH_SECONDS for the
   condition, and no locked section waits for anything. *)
Spec == Init /\ [][Next]_vars /\ WF_vars(Watch)

------------------------------------------------------------------------------

(* Who owns region r, by kind. *)
Registrants(r) == {s \in Storages : memory.registered[s].region = r}
Places(r) == {i \in DOMAIN memory.tier : memory.tier[i].region = r}
Loaders(r, t) == {i \in DOMAIN call[t].loads : call[t].loads[i].region = r}
Offers(r, t) == {i \in DOMAIN memory.batch[t] : memory.batch[t][i].owner.region = r}

Owned(r) ==
  {<<"registered", s>> : s \in Registrants(r)} \cup {<<"tier", i>> : i \in Places(r)}
  \cup UNION {{<<"load", t, i>> : i \in Loaders(r, t)} \cup {<<"batch", t, i>> : i \in Offers(r, t)} : t \in Threads}

(* A region has exactly one owner from VirtualAlloc to VirtualFree: a
   registration, an acquisition, a batch of offers or the tier.  So none is freed,
   offered or registered under a worker that reads, offers or reclaims it, and
   none is left behind, however acquisitions fail and overlap
   (_copy_memory_windows.py, CopyOwner and _OfferBatch). *)
OneOwner == \A r \in Regions : Cardinality(Owned(r)) = IF r \in FreeRegions(memory) THEN 0 ELSE 1

(* What is registered with CUDA is accessible and holds its storage's bytes: a
   span Windows discarded is read again first, no copy is offered before it is
   unregistered, and no copy of a storage that is gone is taken for one of the
   storage now at its address (_reclaimed, _register_pending, owner_gone).  "Freed
   ... when its owner is dropped" (pin_manager.py:361) fails for a copy whose
   owner is collected inside the section that puts it into the tier: of that
   storage nothing is promised any more. *)
RegisteredIsRight ==
  \A s \in Storages \ memory.missed : memory.registered[s].region # None =>
    LET region == memory.regions[memory.registered[s].region]
    IN  region.state = "open" /\ \A i \in DOMAIN region.data : region.data[i] = current[s]

(* The tier keeps to its budget and never holds a second copy of a storage that
   is pinned or about to be (_settle_offer, reserve). *)
TierKept ==
  /\ Total(memory.tier) <= memory.maxOffered
  /\ \A s \in Tiered(memory) : ~Occupied(memory, s)
  /\ Cardinality(Tiered(memory)) = Len(memory.tier)

(* Each copy is where it belongs, and no more of them than the tier may keep. *)
CopiesKept == OneOwner /\ TierKept

(* While commitment is exhausted, offered copies do not stay committed: the
   watcher, which ends with the tier and starts with it again, frees them
   (_watch_commit, _keep_commit). *)
CommitReturns == exhausted ~> (memory.tier = <<>> \/ ~exhausted)

=============================================================================
