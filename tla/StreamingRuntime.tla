-------------------------- MODULE StreamingRuntime --------------------------
(***************************************************************************)
(* StreamingBlockRuntime of streaming_runtime.py: one active block, one    *)
(* prefetch on a worker thread, a pool of targets, the optimizer step, and *)
(* release.                                                                *)
(*                                                                         *)
(* The main thread runs the forward hooks, the optimizer step and release; *)
(* the worker stages the block that is expected next.  Each may stop       *)
(* between any two uses of the tables they share.  The order in which the  *)
(* device does the work on a target is TargetLease's: here a target holds  *)
(* what was copied into it last.                                           *)
(***************************************************************************)
EXTENDS Integers, FiniteSets

CONSTANTS
    Number,         \* of blocks
    Signatures,     \* layouts of targets
    Signature,      \* the layout of each block
    Trained,        \* whether blocks have trainable parameters
    Wraparound,     \* whether the block after the last is the first
    Leases,         \* the targets there may be at a time
    StepCopies,     \* the copies of an optimizer step that did not begin
    MaxFailures     \* bound: failures in a behaviour

Blocks == 0 .. Number - 1
NoBlock == -1

ASSUME RuntimeAssumption ==
    /\ Number \in Nat \ {0}
    /\ Signature \in [Blocks -> Signatures]
    /\ Trained \in BOOLEAN /\ Wraparound \in BOOLEAN
    /\ StepCopies \notin Leases /\ MaxFailures \in Nat

VARIABLES
    target,     \* "none" while there is no such target, "open", "closed"
    staged,     \* _staged of each lease
    acquired,   \* _acquired
    ofWorker,   \* the targets whose memory is from the worker's stream
    content,    \* the block whose present host bytes a target holds, if any
    reading,    \* targets whose copies were queued and not waited for by the host since
    lost,       \* whether a closing synchronization failed
    held,       \* _block_to_lease: {} or {l} for each block
    free,       \* _MorphingTargetPool._free
    pc,         \* where the main thread is
    want,       \* the block its hook, or acquire, is about
    hooks,      \* whether the hooks are registered
    active,     \* _active_idx
    last,       \* _last_idx
    pending,    \* the keys of _pending
    job,        \* where the worker is with its latest task
    jobFor,     \* the block of that task
    failures    \* of copies, allocations and synchronizations, so far

leaseVars == <<target, staged, acquired, ofWorker, content, reading, lost>>
tableVars == <<held, free>>
hookVars == <<want, hooks, active, last>>
jobVars == <<pending, job, jobFor>>
vars == <<leaseVars, tableVars, pc, hookVars, jobVars, failures>>

Init ==
    /\ target = [l \in Leases |-> "none"] /\ ofWorker = {}
    /\ staged = [l \in Leases |-> FALSE] /\ acquired = [l \in Leases |-> FALSE]
    /\ content = [l \in Leases |-> NoBlock] /\ reading = {} /\ lost = FALSE
    /\ held = [b \in Blocks |-> {}] /\ free = [g \in Signatures |-> {}]
    /\ pc = "released" /\ want = NoBlock /\ hooks = FALSE /\ active = NoBlock /\ last = -1
    /\ pending = {} /\ job = "none" /\ jobFor = NoBlock
    /\ failures = 0

Failing == failures < MaxFailures /\ failures' = failures + 1

\* Where a failure leaves the main thread: at the caller of the hook, or of acquire.
Raised == IF hooks THEN "idle" ELSE "partial"

-----------------------------------------------------------------------------
(* _stage_block, by either thread: it looks for a target, takes it and fills it. *)

Pool(b) == free[Signature[b]]

\* What it finds: the block has a target, or the pool of its layout has.
Look(b) == IF held[b] # {} THEN "fill" ELSE IF Pool(b) # {} THEN "pop" ELSE "allocate"

\* The pool is popped after it was found not to be empty, without a lock.
Pop(b) ==
    \E l \in Pool(b) :
        /\ held' = [held EXCEPT ![b] = {l}]
        /\ free' = [free EXCEPT ![Signature[b]] = @ \ {l}]
        /\ UNCHANGED leaseVars

Allocate(b, byWorker) ==
    \E l \in Leases \ reading :
        /\ target[l] = "none" /\ target' = [target EXCEPT ![l] = "open"]
        /\ ofWorker' = IF byWorker THEN ofWorker \cup {l} ELSE ofWorker \ {l}
        /\ held' = [held EXCEPT ![b] = {l}]
        /\ UNCHANGED <<staged, acquired, content, reading, lost, free>>

Take(how, b, byWorker) ==
    (how = "pop" /\ Pop(b)) \/ (how = "allocate" /\ Allocate(b, byWorker))

\* The other thread was faster, or the device has no memory.
TakeFails(how, b) ==
    /\ \/ how = "pop" /\ Pool(b) = {} /\ UNCHANGED failures
       \/ how = "allocate" /\ Failing
    /\ UNCHANGED <<leaseVars, tableVars>>

\* The main thread's copies are over when it gets on, the worker's are queued.
Reading(l, ok, byWorker) ==
    IF byWorker THEN reading \cup {l} ELSE IF ok THEN reading \ {l} ELSE reading

Fill(b, ok, byWorker) ==
    \E l \in held[b] :
        /\ target[l] = "open" /\ ~acquired[l]
        /\ staged' = [staged EXCEPT ![l] = ok]
        /\ content' = [content EXCEPT ![l] = IF ok THEN b ELSE NoBlock]
        /\ reading' = Reading(l, ok, byWorker)
        /\ IF ok THEN UNCHANGED failures ELSE Failing
        /\ UNCHANGED <<target, acquired, ofWorker, lost>>

\* _release_block of every block in S.  What a target of the pool holds counts for nothing.
\* Mutant: the target does not leave its block.
KeptOf(S, b) == held[b]
HeldAfter(S, b) == IF b \in S THEN {} ELSE held[b]

PutBack(S) ==
    LET back == UNION {held[b] : b \in S} IN
    /\ held' = [b \in Blocks |-> HeldAfter(S, b)]
    /\ free' = [g \in Signatures |->
                  free[g] \cup UNION {held[b] : b \in {c \in S : Signature[c] = g}}]
    /\ acquired' = [l \in Leases |-> acquired[l] /\ l \notin back]
    /\ content' = [l \in Leases |-> IF l \in back THEN NoBlock ELSE content[l]]
    /\ UNCHANGED <<target, staged, ofWorker, reading, lost>>

-----------------------------------------------------------------------------
(* The prefetch *)

Direction(b) ==
    IF last < 0 THEN 1
    ELSE IF (b - last > Number \div 2) \/ (last > b /\ last - b <= Number \div 2) THEN -1
    ELSE 1

Expected(b) == IF ~Wraparound /\ b = Number - 1 THEN {} ELSE {(b + Direction(b)) % Number}

\* _submit_prefetch: there is no second one until its block is used, nor one of the
\* active block.  Mutant: a prefetch nobody used is followed by another.
MaySubmitAgain(p) == p # active' /\ p \notin pending /\ job \in {"none", "done", "failed"}
MaySubmit(p) == p # active' /\ pending = {}

Submit(b) ==
    LET next == {p \in Expected(b) : MaySubmit(p)} IN
    IF next = {} THEN UNCHANGED jobVars
    ELSE pending' = pending \cup next /\ job' = "queued" /\ jobFor' \in next

Busy == {"queued", "pop", "allocate", "fill"}

WorkerLooks ==
    /\ job = "queued" /\ job' = Look(jobFor)
    /\ UNCHANGED <<leaseVars, tableVars, pc, hookVars, pending, jobFor, failures>>

WorkerTakes ==
    /\ \/ Take(job, jobFor, TRUE) /\ job' = "fill" /\ UNCHANGED failures
       \/ TakeFails(job, jobFor) /\ job' = "failed"
    /\ UNCHANGED <<pc, hookVars, pending, jobFor>>

WorkerFills(ok) ==
    /\ job = "fill" /\ Fill(jobFor, ok, TRUE)
    /\ job' = IF ok THEN "done" ELSE "failed"
    /\ UNCHANGED <<tableVars, pc, hookVars, pending, jobFor>>

-----------------------------------------------------------------------------
(* acquire and the forward hooks *)

\* acquire prepares block 0 before there are hooks.
Acquire ==
    /\ pc = "released" /\ pc' = "ensure" /\ want' = 0
    /\ UNCHANGED <<leaseVars, hooks, active, last, tableVars, jobVars, failures>>

\* The pre-forward hook of a block that is not the active one.
Hook(b) ==
    /\ pc = "idle" /\ b # active /\ want' = b
    /\ pc' = IF active = NoBlock THEN "ensure" ELSE "evict"
    /\ UNCHANGED <<leaseVars, hooks, active, last, tableVars, jobVars, failures>>

\* And of the active one.
HookAgain ==
    /\ pc = "idle" /\ active # NoBlock
    /\ last' = active /\ active' = active /\ Submit(active)
    /\ UNCHANGED <<leaseVars, pc, want, hooks, tableVars, failures>>

Evict ==
    /\ pc = "evict" /\ pc' = "ensure"
    /\ PutBack({active}) /\ active' = NoBlock
    /\ UNCHANGED <<want, hooks, last, jobVars, failures>>

\* The block is in _pending: the prefetch is taken out and waited for.
Await ==
    /\ pc = "ensure" /\ want \in pending
    /\ pending' = pending \ {want} /\ pc' = "await"
    /\ UNCHANGED <<leaseVars, hookVars, tableVars, job, jobFor, failures>>

Settled == job \notin Busy

Awaited ==
    /\ pc = "await" /\ Settled
    /\ pc' = IF job = "failed" THEN "idle" ELSE "enter"
    /\ want' = IF job = "failed" THEN NoBlock ELSE want
    /\ job' = "none" /\ jobFor' = NoBlock
    /\ UNCHANGED <<leaseVars, hooks, active, last, tableVars, pending, failures>>

\* It is not: the main thread stages it, beside the worker.
Looks ==
    /\ pc = "ensure" /\ want \notin pending /\ pc' = Look(want)
    /\ UNCHANGED <<leaseVars, hookVars, tableVars, jobVars, failures>>

Takes ==
    /\ \/ Take(pc, want, FALSE) /\ pc' = "fill" /\ UNCHANGED <<want, failures>>
       \/ TakeFails(pc, want) /\ pc' = Raised /\ want' = NoBlock
    /\ UNCHANGED <<hooks, active, last, jobVars>>

Fills(ok) ==
    /\ pc = "fill" /\ Fill(want, ok, FALSE)
    /\ pc' = IF ok THEN "enter" ELSE Raised
    /\ want' = IF ok THEN want ELSE NoBlock
    /\ UNCHANGED <<hooks, active, last, tableVars, jobVars>>

\* The block is installed for the forward.  Hooks also see to what comes next.
Enter ==
    /\ pc = "enter" /\ pc' = "idle" /\ active' = want /\ want' = NoBlock /\ hooks' = TRUE
    /\ \E l \in held[want] :
          /\ staged[l] /\ ~acquired[l]
          /\ staged' = [staged EXCEPT ![l] = FALSE] /\ acquired' = [acquired EXCEPT ![l] = TRUE]
    /\ IF hooks THEN last' = want /\ Submit(want) ELSE UNCHANGED <<last, jobVars>>
    /\ UNCHANGED <<target, ofWorker, content, reading, lost, tableVars, failures>>

-----------------------------------------------------------------------------
(* The optimizer step *)

\* _drain_and_evict_all.  Mutant: a prefetch that is done is left for the next forward.
EvictedActive == IF active = NoBlock THEN {} ELSE {active}
Evicted == Blocks

Drain ==
    /\ Settled /\ pending' = pending \ Evicted /\ UNCHANGED <<job, jobFor>>
    /\ PutBack(Evicted) /\ active' = NoBlock

\* The error of a prefetch nobody used is raised after everything is evicted.
BeginStep ==
    /\ pc = "idle" /\ Trained /\ Drain
    /\ pc' = IF pending # {} /\ job = "failed" THEN "idle" ELSE "step"
    /\ UNCHANGED <<want, hooks, last, failures>>

\* The trainable parameters are copied to targets of their own on the worker's stream,
\* or this fails half way.
LoadTrainables ==
    /\ pc = "step"
    /\ \/ pc' = "update" /\ UNCHANGED <<reading, failures>>
       \/ pc' = "idle" /\ Failing /\ reading' = reading \cup {StepCopies}
    /\ UNCHANGED <<target, staged, acquired, ofWorker, content, lost, tableVars, hookVars, jobVars>>

\* They are copied back, on the same stream and after the update, also when that raised.
\* The host waits for the stream unless a copy fails.  All host bytes have changed.
Scatter ==
    /\ pc = "update" /\ pc' = "idle"
    /\ content' = [l \in Leases |-> NoBlock]
    /\ \/ reading' = {} /\ UNCHANGED failures
       \/ Failing /\ UNCHANGED reading
    /\ UNCHANGED <<target, staged, acquired, ofWorker, lost, tableVars, hookVars, jobVars>>

-----------------------------------------------------------------------------
(* release *)

Release ==
    /\ pc \in {"idle", "partial"} /\ pc' = "shutdown" /\ hooks' = FALSE
    /\ UNCHANGED <<leaseVars, want, active, last, tableVars, jobVars, failures>>

ShutDown ==
    /\ pc = "shutdown" /\ pc' = "closing" /\ Drain
    /\ UNCHANGED <<want, hooks, last, failures>>

Pooled == UNION {free[g] : g \in Signatures}

\* What the host knows to be over once l is closed.  Mutant: the stream of l's memory is
\* waited for, not its last copies.
QuietByStream(l) == IF l \in ofWorker THEN {} ELSE reading
QuietBy(l) == IF l \in ofWorker THEN {} ELSE reading \ {l}

\* The pool is closed target by target; one that was closed before is skipped.  A
\* synchronization that fails ends the release, and the target is dropped all the same.
CloseNext ==
    /\ pc = "closing"
    /\ \E l \in Pooled :
        /\ target[l] = "open" /\ target' = [target EXCEPT ![l] = "closed"]
        /\ staged' = [staged EXCEPT ![l] = FALSE]
        /\ \/ reading' = QuietBy(l) /\ UNCHANGED <<pc, lost, failures>>
           \/ Failing /\ pc' = "partial" /\ lost' = TRUE /\ UNCHANGED reading
    /\ UNCHANGED <<acquired, ofWorker, content, tableVars, hookVars, jobVars>>

Released ==
    /\ pc = "closing" /\ \A l \in Pooled : target[l] = "closed"
    /\ pc' = "released" /\ last' = -1
    /\ target' = [l \in Leases |-> IF l \in Pooled THEN "none" ELSE target[l]]
    /\ ofWorker' = ofWorker \ Pooled
    /\ content' = [l \in Leases |-> IF l \in Pooled THEN NoBlock ELSE content[l]]
    /\ free' = [g \in Signatures |-> {}]
    /\ job' = "none" /\ jobFor' = NoBlock
    /\ UNCHANGED <<staged, acquired, reading, lost, want, hooks, active, held, pending, failures>>

-----------------------------------------------------------------------------

Next ==
    \/ WorkerLooks \/ WorkerTakes \/ (\E ok \in BOOLEAN : WorkerFills(ok))
    \/ Acquire \/ (\E b \in Blocks : Hook(b)) \/ HookAgain \/ Evict \/ Await \/ Awaited
    \/ Looks \/ Takes \/ (\E ok \in BOOLEAN : Fills(ok)) \/ Enter
    \/ BeginStep \/ LoadTrainables \/ Scatter
    \/ Release \/ ShutDown \/ CloseNext \/ Released

Spec == Init /\ [][Next]_vars

-----------------------------------------------------------------------------

\* Everything is of its kind; a block has one target and there is one prefetch at most.
TypeOK ==
    /\ target \in [Leases -> {"none", "open", "closed"}]
    /\ staged \in [Leases -> BOOLEAN] /\ acquired \in [Leases -> BOOLEAN]
    /\ ofWorker \subseteq Leases /\ content \in [Leases -> Blocks \cup {NoBlock}]
    /\ reading \subseteq Leases \cup {StepCopies} /\ lost \in BOOLEAN
    /\ held \in [Blocks -> SUBSET Leases] /\ \A b \in Blocks : Cardinality(held[b]) <= 1
    /\ free \in [Signatures -> SUBSET Leases]
    /\ pc \in {"released", "idle", "partial", "evict", "ensure", "await", "pop", "allocate",
               "fill", "enter", "step", "update", "shutdown", "closing"}
    /\ want \in Blocks \cup {NoBlock} /\ hooks \in BOOLEAN
    /\ active \in Blocks \cup {NoBlock} /\ last \in Blocks \cup {-1}
    /\ pending \subseteq Blocks /\ Cardinality(pending) <= 1
    /\ job \in Busy \cup {"none", "done", "failed"} /\ jobFor \in Blocks \cup {NoBlock}
    /\ failures \in 0 .. MaxFailures

Open == {l \in Leases : target[l] = "open"}
Held == UNION {held[b] : b \in Blocks}

\* The active block computes on its own host bytes of now, whichever thread copied them
\* and whatever was prefetched, failed or was trained before.
ForwardReadsItsBytes ==
    active # NoBlock => \E l \in held[active] : acquired[l] /\ content[l] = active

\* Every target is with one block or in the pool of its layout, once, and only the active
\* block's is in use: what the worker fills nobody reads, and no target is forgotten.
OnePlace ==
    /\ Open \subseteq Pooled \cup Held
    /\ \A b, c \in Blocks : b # c => held[b] \cap held[c] = {}
    /\ \A b \in Blocks, g \in Signatures : held[b] \cap free[g] = {}
    /\ \A g, h \in Signatures : g # h => free[g] \cap free[h] = {}
    /\ \A l \in Leases : acquired[l] => active # NoBlock /\ l \in held[active]

\* "One active block plus one whole-block lookahead target" (streaming_runtime.py:89) of
\* each layout, also when the prefetched blocks are not those that come; a failure may
\* leave one more behind.
TwoTargets ==
    \A g \in Signatures :
        Cardinality(free[g] \cup UNION {held[b] : b \in {c \in Blocks : Signature[c] = g}})
            <= 2 + failures

\* Neither thread asks for what CudaTargetLease refuses: to fill a target in use or
\* closed, or to use one that was not filled.
NeverRefused ==
    /\ pc = "fill" => \E l \in held[want] : l \in Open /\ ~acquired[l]
    /\ job = "fill" => \E l \in held[jobFor] : l \in Open /\ ~acquired[l]
    /\ pc = "enter" => \E l \in held[want] : l \in Open /\ staged[l] /\ ~acquired[l]

\* The two threads never spoil a target for each other, nor do they meet a refusal.
TargetsKept == OnePlace /\ NeverRefused

\* "Once acquired is false, no queued operation may still read any source in the
\* activation load plans" (block_runtime.py:60-61).  So much of it holds: the copies into
\* the pool's targets are over unless a closing synchronization failed.
QuietUnlessLost == pc = "released" /\ ~lost => reading \subseteq {StepCopies}
=============================================================================
