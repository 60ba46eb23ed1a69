---------------------------- MODULE TargetLease ----------------------------
(***************************************************************************)
(* CudaTargetLease of target_lease.py: the order in which the work of      *)
(* several CUDA streams reaches targets that are filled, used and filled   *)
(* again, and the synchronization before a target's memory is let go.      *)
(*                                                                         *)
(* Streams run on their own; what matters is which work happens before     *)
(* which.  after[s] says of which streams the work so far precedes all     *)
(* further work of s: <<t, l, "use">> is in it when every use of l that    *)
(* was issued on t does.  A new use on t takes the element out of every    *)
(* set but t's own.  An event is such a set, taken when it is recorded,    *)
(* and after[Host] is what the host has seen complete.                     *)
(***************************************************************************)

CONSTANTS
    Streams,    \* CUDA streams
    Leases,     \* the leases there may ever be
    Host        \* the thread that issues the work

ASSUME HostAssumption == Host \notin Streams

VARIABLES
    after,          \* what precedes the further work of each stream and of the host
    target,         \* _target: "none" before it is allocated, "open", "closed"
    allocation,     \* _allocation_stream
    ready,          \* _ready_event: {} or {e}
    staged,         \* _staged
    acquired,       \* _acquired
    recorded,       \* _recorded_streams
    whole,          \* whether the latest copies into the target were all issued
    lost            \* the leases whose closing synchronization failed

leaseVars == <<target, allocation, staged, acquired, recorded, whole, lost>>
orderedVars == <<after, ready, leaseVars>>

Times == Streams \cup {Host}
Kinds == {"copy", "use"}
Work == Streams \X Leases \X Kinds
Copies(l) == Streams \X {l} \X {"copy"}
WorkOn(l) == Streams \X {l} \X Kinds

LeaseTypeOK ==
    /\ after \in [Times -> SUBSET Work]
    /\ target \in [Leases -> {"none", "open", "closed"}]
    /\ allocation \in [Leases -> Streams]
    /\ ready \in [Leases -> SUBSET SUBSET Work] /\ \A l \in Leases : \A d, e \in ready[l] : d = e
    /\ staged \in [Leases -> BOOLEAN] /\ acquired \in [Leases -> BOOLEAN]
    /\ recorded \in [Leases -> SUBSET Streams]
    /\ whole \in [Leases -> BOOLEAN] /\ lost \subseteq Leases

LeaseInit ==
    /\ after = [x \in Times |-> Work]
    /\ target = [l \in Leases |-> "none"] /\ allocation \in [Leases -> Streams]
    /\ ready = [l \in Leases |-> {}]
    /\ staged = [l \in Leases |-> FALSE] /\ acquired = [l \in Leases |-> FALSE]
    /\ recorded = [l \in Leases |-> {}]
    /\ whole = [l \in Leases |-> FALSE] /\ lost = {}

-----------------------------------------------------------------------------
(* CUDA *)

\* s issues work w, which begins after everything in `before`.
Issue(s, w, before) ==
    after' = [x \in Times |-> IF x = s THEN before \cup {w} ELSE after[x] \ {w}]

\* Events recorded earlier do not cover it.
Stale(w) == [l \in Leases |-> {e \ {w} : e \in ready[l]}]

Precede(s, work) == after' = [after EXCEPT ![s] = @ \cup work]

\* The host waits: all that is issued from now on comes later.
Synchronize(work) == after' = [x \in Times |-> after[x] \cup work]

\* The caller makes one stream wait for another.
WaitStream(s, t) == Precede(s, after[t]) /\ UNCHANGED <<ready, leaseVars>>

-----------------------------------------------------------------------------
(* The lease *)

\* The memory may come from the stream's own pool, with work of that stream on it.
Allocate(l, s) ==
    /\ target[l] = "none"
    /\ target' = [target EXCEPT ![l] = "open"] /\ allocation' = [allocation EXCEPT ![l] = s]
    /\ Issue(s, <<s, l, "use">>, after[s]) /\ ready' = Stale(<<s, l, "use">>)
    /\ UNCHANGED <<staged, acquired, recorded, whole, lost>>

\* What the mark of the last copies covers, or on a first upload the work of the stream
\* the memory comes from.
Prior(l) == IF ready[l] = {} THEN after[allocation[l]] ELSE UNION ready[l]
Uses(l) == UNION {after[t] : t \in recorded[l]}
StageWaits(l, s) == after[s] \cup Prior(l) \cup Uses(l)
Copied(l, s) == StageWaits(l, s) \cup {<<s, l, "copy">>}

\* The event is recorded in a finally: copies that fail half way leave their mark.
\* Mutant: they leave the mark of the copies before them.
MarkOfSuccess(l, s, ok) == IF ok THEN {Copied(l, s)} ELSE ready[l]
Mark(l, s, ok) == {Copied(l, s)}

\* Mutant: a failed copy leaves the lease as staged as it was.
StagedBefore(l, ok) == staged[l] \/ ok
StagedBy(l, ok) == ok

Stage(l, s, ok) ==
    /\ target[l] = "open" /\ ~acquired[l]
    /\ Issue(s, <<s, l, "copy">>, StageWaits(l, s))
    /\ ready' = [Stale(<<s, l, "copy">>) EXCEPT ![l] = Mark(l, s, ok)]
    /\ recorded' = [recorded EXCEPT ![l] = {}]
    /\ staged' = [staged EXCEPT ![l] = StagedBy(l, ok)] /\ whole' = [whole EXCEPT ![l] = ok]
    /\ UNCHANGED <<target, allocation, acquired, lost>>

AcquireWaits(l) == UNION ready[l]

Acquire(l, s) ==
    /\ target[l] = "open" /\ ~acquired[l] /\ staged[l]
    /\ Precede(s, AcquireWaits(l))
    /\ staged' = [staged EXCEPT ![l] = FALSE] /\ acquired' = [acquired EXCEPT ![l] = TRUE]
    /\ recorded' = [recorded EXCEPT ![l] = @ \cup {s}]
    /\ UNCHANGED <<target, allocation, ready, whole, lost>>

\* The consumer goes on to another stream, which it has made wait for the first.
RecordStream(l, s) ==
    /\ acquired[l] /\ Copies(l) \subseteq after[s]
    /\ recorded' = [recorded EXCEPT ![l] = @ \cup {s}]
    /\ UNCHANGED <<after, target, allocation, ready, staged, acquired, whole, lost>>

\* A kernel of the consumer.
Use(l, s) ==
    /\ acquired[l] /\ s \in recorded[l]
    /\ Issue(s, <<s, l, "use">>, after[s]) /\ ready' = Stale(<<s, l, "use">>)
    /\ UNCHANGED leaseVars

ReleaseLease(l) ==
    /\ target[l] = "open" /\ acquired' = [acquired EXCEPT ![l] = FALSE]
    /\ UNCHANGED <<after, target, allocation, ready, staged, recorded, whole, lost>>

\* Mutant: closing waits for the copies and the pool's stream only.
CloseWaitsCopies(l) == (UNION ready[l]) \cup after[allocation[l]]
CloseWaits(l) == (UNION ready[l]) \cup Uses(l) \cup after[allocation[l]]

Drop(l) ==
    /\ target[l] = "open" /\ target' = [target EXCEPT ![l] = "closed"]
    /\ acquired' = [acquired EXCEPT ![l] = FALSE] /\ staged' = [staged EXCEPT ![l] = FALSE]
    /\ ready' = [ready EXCEPT ![l] = {}] /\ recorded' = [recorded EXCEPT ![l] = {}]
    /\ UNCHANGED <<allocation, whole>>

Close(l) == Drop(l) /\ Synchronize(CloseWaits(l)) /\ UNCHANGED lost

\* A synchronization raises, and the finally drops the target all the same.
CloseFails(l) == Drop(l) /\ lost' = lost \cup {l} /\ UNCHANGED after

LeaseNext ==
    \/ \E s, t \in Streams : WaitStream(s, t)
    \/ \E l \in Leases :
        \/ ReleaseLease(l) \/ Close(l) \/ CloseFails(l)
        \/ \E s \in Streams :
            \/ Allocate(l, s) \/ Acquire(l, s) \/ RecordStream(l, s) \/ Use(l, s)
            \/ \E ok \in BOOLEAN : Stage(l, s, ok)

LeaseSpec == LeaseInit /\ [][LeaseNext]_orderedVars

-----------------------------------------------------------------------------

\* Whichever stream fills a free target next waits for every copy into it and every use
\* of it, on all the streams there were, also after a copy that failed half way.
RefillWaitsForAll ==
    \A l \in Leases, s \in Streams :
        target[l] = "open" /\ ~acquired[l] => WorkOn(l) \subseteq StageWaits(l, s)

\* What is acquired was copied as a whole, was not refilled since, and each stream that
\* may use it begins after the copies.
UseFollowsCopies ==
    \A l \in Leases : acquired[l] =>
        whole[l] /\ \A s \in recorded[l] : Copies(l) \subseteq after[s]

\* "Closing the lease synchronizes all recorded work before dropping the target"
\* (target_lease.py:20-21): nothing is still queued on memory that was let go.
ClosedIsQuiet ==
    \A l \in Leases \ lost : target[l] = "closed" => WorkOn(l) \subseteq after[Host]
=============================================================================
