# Verification of piper-offload

TLA+ models, TLC runs and TLAPS proofs for the host-memory, scheduling,
communication and merging logic of `src/src/piper_offload` (92 files, about 28 500
lines). Every definition is translated from the Python source; `PROJECT.json` maps each
one to its lines. Numerical accuracy, tensor metadata and thin wrappers over an OS or
CUDA call are listed below and left out.

    tlc -workers 2 -config PinManager.cfg MCPinManager     # one run
    tlapm PinManagerProofs.tla                             # the proofs of one module

A run takes seconds to a few minutes, the proofs of a module minutes; `HostRelayProofs`, the
largest, takes a quarter of an hour from nothing.

## 1. Inventory

| component | state | operations | interacts with | what makes it correct | module |
|---|---|---|---|---|---|
| host pin manager (`pin_manager.py`) | registrations with lease counts and owners, idle LRU, pageable leases, pending reservations, ranges, page counts, root | `acquire`, lease close, `transfer`, `clear`, budget setters, owner finalizers | copies, registration backend, every runtime that uploads | what a lease holds stays pinned; pins fit the budget; no range twice; nothing leaks; no call is stranded | `PinManager` |
| pinned copies (`_copy_memory.py`) | per copy: missing spans, error | reserve, fill (first alone, rest together), free | called by `acquire`, off the lock | a copy registers only once it is filled; one bad copy fails alone | `PinManager`, `OfferedTier` |
| offered tier (`_copy_memory_windows.py`, `_host_memory_windows.py`) | LRU of offered copies, offered bytes, batches in flight, commit watcher | offer, take out, settle, retire, resize, clear, reclaim | the manager's lock, worker threads, a watcher thread | a region has one owner; what is registered is whole and of its own storage; exhausted commitment gets the tier's | `OfferedTier` |
| registration backend (`_host_registration.py`, `_host_memory*.py`) | none of its own | register, unregister | CUDA, OS | outcomes are classified into done, refused, out of capacity, raised | - |
| resource cache (`resource_cache.py`) | entries, bytes, lease counts, eviction policy's order, limit | `lease`, `lease_many`, `register`, `unregister`, `evict`, `evict_bytes`, `resize`, `clear` | factories and policies of the caller's own, run under the lock | leased stores stay; accounting is exact; budget; `lease_many` is all or nothing | `ResourceCache` |
| model cache (`model_cache.py`, `resource_specs.py`) | a resource cache | `use` | `ModelOffloader` | adapters and model leased for exactly one activation | - |
| model offloader (`model_offloader.py`, `composite_component.py`) | active device, hooks, routed lease, activation lock | activate, deactivate, use, synchronize | components, adapters | never half active; teardown always ends inactive with the lock free | `ModelLifecycle` |
| host component (`host_component.py`) | transfer lease, target lease | activate, acquire, release, deactivate | pin manager, target lease | storage is released only after the device has read it | `ModelLifecycle` |
| block component (`block_component.py`, `block_runtime.py`) | leases, runtime | activate, acquire, release, deactivate | the three block runtimes | leases outlive every upload; no runtime is reused unreleased | `ModelLifecycle` |
| CUDA target lease (`target_lease.py`) | buffers, recorded streams, events | stage, acquire, record, release, close | CUDA streams | a target is never refilled before its last reader | `TargetLease` |
| streaming runtime (`streaming_runtime.py`) | active block, one prefetch, target pool | pre/post block hooks, close | worker thread, target lease | one block active; a stale prefetch is retired; a target is used by one block at a time | `StreamingRuntime` |
| resident runtime (`resident_runtime.py`) | one lease per block | acquire, release | target lease | all or none staged | `ModelLifecycle` |
| rolling runtime (`rolling_runtime.py`, `rolling_compile.py`) | slot owner and ready event per parameter, refills | waits, rollovers, hooks per block | two streams, the compiler's schedule | a slot is refilled after its last reader and read after its refill | `RollingRuntime` |
| sequential executor (`sequential.py`) | turn, finished ranks, error, pending round, jobs | run, collective, abort, close | rank threads | one rank runs at a time; a failure releases every rank; close joins | `SequentialExecutor` |
| local collectives (`_sequential_collectives.py`, `_triton_sequential.py`, `_sequential_runtime.py`) | none | validate, copy, sum | the executor's rounds | aliases that are accepted do not change the result | `CollectiveBuffers` |
| relay (`_relay_shared.py`, `_relay_staging.py`, `communication.py`) | slots, ready and free signals, broken flag, lanes | collectives over host memory | processes, copy streams | a slot is overwritten only after every reader acknowledged it; a failed exchange poisons the group; aliases as documented | `HostRelay`, `CollectiveBuffers` |
| host modules and parameters (`host_module.py`, `host_param.py`, `host_buffer.py`) | registry, host and installed storage | capture, install, restore | components | aliases move together; restore undoes install; trainables keep their objects | `HostModules` |
| adapters and merging (`adapter.py`, `merge.py`, `_parameter_update.py`, `lora.py`, ...) | routed and merged updates | plan, validate, stage, merge, remove | offloader, formats | each parameter updated once per activation, by what its request says | `AdapterUpdates`, `HostModules`, `UpdateStaging` |
| checkpoint reader (`checkpoint.py`, `_mapped_file.py`) | a mapping | open, read header | host parameters | accepted headers claim each byte exactly once, in any header order | `Checkpoint` |
| adapter registry (`tensor_adapter_registry.py`) | registration list | register, remove, resolve | formats | newest first; removal is idempotent | - |
| tensor formats (`*_adapter.py`, `_torchao_*.py`, ...) | none shared | layout, staging, merge of each format | kernels | a rank merges its own region; the rest is metadata | `UpdateStaging`, partly |
| Triton kernels (`_triton_*.py`) | the buffers of one merge | launches, grids, programs | the target's stream | no two programs race; each code and scale is made of the values that share it | `MergeKernels`, `Codebooks` |
| package surface | none | imports | - | - | - |

The hard behaviours are: two critical sections around off-lock filling, a
finalizer that re-enters the lock on the holder's own thread, refusals by the
runtime at every step, caller code under the cache's lock, prefetching and
offering on worker threads, event ordering across CUDA streams, rendezvous of
ranks with time-outs and aborts, slot reuse between processes, calls that raise half way
through a session, tensors that alias each other, and tiles that do not divide a weight.
`PROJECT.json` lists each at the line where it bites, with the properties that cover it.

## 2. Plan

In order of how much depends on each part; a tick marks what exists.

1. [x] `LeasedPool`, `PinManager`: the pin manager and the promise of a lease.
   [x] `PinManagerProofs`: the promise, then the books.
2. [x] `ResourceCache`, a second implementation of `LeasedPool`.
   [x] `LeaseProofs`: leases, sums, eviction order, budget and the refinement.
3. [x] `SequentialExecutor`: coordinator, rounds, turns, abort, `close` with its deadline.
   [x] `SequentialExecutorProofs`, `MatchedCollectives` included.
   [ ] An abstract specification (two callbacks whose rounds complete or fail as a whole)
   that it implements.
4. [x] `TargetLease`: one reusable target under streams and events. [x] `LeaseProofs`, its
   second half: refills, uses and closing.
5. [x] `StreamingRuntime`: the block hooks, one prefetch on a worker thread, the pool of
   targets, the optimizer step. [x] `BlockRuntimeProofs`, first half: its four invariants.
6. [x] `RollingRuntime`: slots, refills and the compiler passes. [x] `BlockRuntimeProofs`, second half:
   what the passes and the two streams give, for any graph and schedule.
7. [x] `HostRelay`: both transports. [x] `HostRelayProofs`: no unread slot is overwritten,
   what is copied out is what was meant, and no copy outlives its call.
8. [x] `ModelLifecycle`: offloader and components, with failures at every call.
   [x] `ModelProofs`, first half: its three invariants, for any layout.
   [ ] `ModelCache.use` as the composition of its sessions with `ResourceCache`.
9. [x] `OfferedTier`: the Windows memory component beside the manager's lock.
   [x] `OfferedTierProofs`: `CopiesKept` and `RegisteredIsRight`, for any sizes and budgets.
   [ ] Its composition with `PinManager`'s waiting and ranges.
10. [x] `HostModules`, `AdapterUpdates`, `Checkpoint`: which bytes a parameter shows.
    [x] `ModelProofs`, second half: all but `AcceptedAsDocumented`, for any models and requests.
11. [x] `UpdateStaging`, `MergeKernels`, `Codebooks`, `CollectiveBuffers`: what is launched
    on the device, and what each program reads and writes. [ ] `TargetLease` under them:
    a merge's launches as the uses it orders.
12. [x] `DataLemmas`: folds, sums, least elements and sequences without repetition, which
    the proofs share.

Each component has a module of its own; `MC...` modules give the constants their values
for TLC. `PinManager` and `ResourceCache` both implement `LeasedPool`. `HostModules`
extends `AdapterUpdates` (what a request asks for) and `Checkpoint` (which files may be
read); `MergeKernels`, the machine that runs launches, extends `UpdateStaging` (the
launches that stage an update), `Codebooks` (the codes chosen) and `CollectiveBuffers` (the
copies of a collective). The other modules meet at what one of them promises:
`StreamingRuntime` and `RollingRuntime` see a target as `TargetLease` keeps it,
`ModelLifecycle` sees a runtime by what acquiring and releasing it may come to, and a
round of `SequentialExecutor` is accepted or rejected as `CollectiveBuffers` says.

## 3. PinManager

`PinManager` models the manager, the callers (lease slots: one thread may own
several) and, as choices, the runtime and the checkpoint reads.

**State.** `registered`, `leases`, `retired`, `owners` are `_registrations` and
the fields of `_Registration`; `idle` is `_idle`; `pageable` is `_pageable`;
`pend[p]` is the list `pending` of p's call, their union is `_pending`;
`starts[s]` is how often a range's pointer occurs in `_starts`; `boundary` and
`pinned` are `_boundary_pages` and `_pinned_bytes`; `open` is `_leases`; `rooted`
is membership in `_live_managers`. `tried` and `mark` are the locals of the
eviction loops, `pc`, `at`, `held`, `created`, `ready`, `spoiled` the locals of
`acquire`. `reading` is what a caller's asynchronous transfers still read.

**Steps.** The lock is `lock`. A critical section is a run of steps of its
holder, one per iteration of the code's loops: nobody else's section comes
between them, but steps off the lock do, and so does `OwnerGone`, the weak
reference's callback, which the reentrant lock lets in on the holder's own
thread. `CallAcquire`, `Admit`, `HoldNext`, `HoldDone`, `ReserveEvict`,
`ReserveTake`, `ReserveSkip` and `ReserveDone` are the first section of
`acquire`; `FillFirst`, `FillRest` and `FillRaises` the work off the lock;
`SettleRegister`, `SettleRefused`, `SettleNoCapacity`, `SettleRaises`, `RetryEvict`,
`RetryAgain`, `RetryExhausted` and `SettleStop` are `_register_pending` and what it
calls; `DiscardNext` and `OpenLease` the final section; `FailRetire` and the
release steps the exception handler; `CloseLease`, `ReleaseNext`, `ReleaseDone`,
`TrimEvict` and `TrimDone` the lease's close, whose last two also serve the budget
setter (`SetBudget`); `Clear`, `ClearNext`, `ClearDone` are `clear`.

**Abstractions.** Sizes are whole OS pages. A storage is its pointer; ranges of
distinct storages do not overlap (`_validate_ranges` rejects overlap before any
state changes). The memory component is the base one (`_copy_memory.Memory`, the
Linux build): nothing is offered and no copy is ready early. A caller's tensors
over a storage die together. `TransferLease`, statistics and logging are left
out. Page sharing is real: in-place ranges may share the pages at their ends.

**Properties** (`PinManager.cfg`). `HeldStaysRegistered` (and, proved only, `LeasesAgree` and
`PendingExclusive`) relate the tables to what the callers hold. `Accounting` is three parts:
`PinnedIsUnion` says that `_pinned_bytes`, kept by counting end pages only,
is the size of the union of the pinned ranges plus the copies; `OverBudgetOnlyLeased`
that the budget is exceeded between sections only by what is held;
`StartsMatch` that `_starts` is neither early nor late; `NothingLeaks` that a dead
owner's memory goes with its last lease and the process-wide root with the last
lease or registration; `KeepsPromise` that the manager implements `LeasedPool`.

**Liveness.** `CallsReturn`, and with it that nothing stays pending, under
`FairSpec`: weak fairness of each caller's `Progress`. The code justifies it: a
thread inside a call is running Python, a released lock is taken by a waiter (the
waiters' condition is re-checked at every notification, and `MayEnter` stays true
once nothing is pending and nobody else enters), file reads and runtime calls
return. Calling, closing a lease, dying owners and transfers ending are not fair:
nothing obliges callers to any of them. The bounded number of calls means that no
caller overtakes a waiter forever; the code, too, does not promise fairness
among threads competing for a lock.

**Observation.** `acquire` says that "pageable storage it holds is not
registered" (`pin_manager.py:403-404`), and the module that "every host transfer runs
under a lease, so nothing is read or written while it could be evicted" (11-12). A
pageable acquisition notes that a storage is not registered in its first section and
records it in `_pageable` in its second. A pinning acquisition admitted between the two
does not see it and registers it. `transfer` under the pageable lease then finds the
storage pinned with a lease on it (the other caller's), reads the pinned memory
asynchronously, and goes on reading when the other lease closes and the registration is
evicted.

## 4. ResourceCache

An operation runs under the cache's lock from start to end and is one step,
except a miss. `Miss` makes room for the estimate and starts the factory with
`lock` held; `Admit` or `BuildFails` ends it. In between the factory may lease
from the cache through the reentrant lock (`NestHit`, `NestMiss`, `NestFails`,
`ReleaseLast`): `building[t]` is the stack of factories, `base` the number of leases
each must be back to before it returns. `CallLease`, `EnterHit`, `EnterMiss`,
`EnterFails`, `Entered`, `Leave`, `ReleaseLast` and `Left` are `lease_many` (and
`lease`, a sequence of one). `Room` is `_evict_to_fit` under the LRU policy or, with
`~LRU`, under any policy: every set of victims that passes `_validated_victims`, or its
errors. `setup` says which, and whether factories re-enter; it never changes.

Factories re-enter only by leasing (not by resizing or unregistering), and not for
a key that is being built, which would recurse without end.

`LeasedStoreStays` compares the identity of the store a lease was given (`built`)
with the one that is cached; `Accounting` is `UsedIsSum`, `LeasesCounted`,
`OrderIsInactive` and `BudgetKept`; `KeepsPromise` is the refinement to `LeasedPool`.
`WithinBudget` holds when factories do not re-enter, which is `BudgetKept`, and not when
they do: room is made for the estimate before the factory
runs (`resource_cache.py:536`) and checked again only if the store is larger than
estimated (545), so what a factory leases on the way is not counted.
`LeasesSettle` is checked under weak fairness of each thread's `Progress`: factories
return, leases unwind. `Leave` and nesting stay unfair.

## 5. SequentialExecutor

`SequentialExecutor` models the two workers of `_worker`, the coordinator they meet
in, and the callers of `__enter__`, `run` and `close`.

**State.** `sequential`, `turn`, `finished`, `error` are the coordinator's fields;
`round` and `group` are the ranks in `pending.calls` and `pending.group`; `callLock`
is `_call_lock`, `closing` is `_closing`, `pendingJob` is `_pending_job`. A job is its
position in the order of submission: `localOnly[j]` and `results[j]` are the fields of
its `_Job`. `inbox[r]` is rank r's queue, where 0 is the `None` of `close`; `ready[r]`
is the future its start-up settles; `at[r]` and `job[r]` are where its thread stands and
with which job. `isolation` is whether `_runtime` is set; `opener` is the caller inside
`__enter__`. `asked` and `reached` record the groups of a rank's collectives.

**Steps.** A section under the coordinator's condition (`begin`, `enter`, `finish`,
`abort`, a call of `collective` up to its wait and after it) is one step, and what
lies between two sections is another step. An exception on its way to `abort()` is a
place of its own (`aborting`, `failing`, `raising`): other threads act before the
error is known. `Collective` opens a round, joins one, completes one, or leaves a full
one behind when `execute()` rejects it. `Joinable` is the refusal by group, by a rank
that has finished, or by an error; `MayCompute` is the condition both waits share.
A callback is any sequence of collectives that returns or raises; it may swallow the
error of a collective and go on.

**Abstractions.** Which collective is called, its shapes and its arithmetic are left
out: what `_validate` and `execute` decide is a choice. The session lock between two
executors, the device check and the backend's registration come before the runtime is
isolated; a failure there leaves the executor unopened, which is no step. The runtime's
own `__exit__` succeeds. Callers other than the opener call once `__enter__` has ended,
and a callback does not call `run` or `close` (both refuse it). An exception from
outside (`Interrupt`) arrives at the waits of `run` only.

**Properties.** `OneRankComputes` is the promise of the
module's docstring, that both ranks may use one set of buffers. `PreviousUnwound` is
that cleanup does not race work before it, through runs that return at the first failure,
time-outs and interrupts. `MatchedCollectives` is that two values mean the same
collectives on both ranks. Proved, and not repeated in a run: `FailurePoisons` is the order of `abort` and the result;
`AwaitedIsReachable` that `run`'s untimed wait is for a job both workers will see;
`WorkersBeforeRestore` that isolation ends last, after a failed start too.

**Liveness.** `SequentialExecutorLiveness.cfg` has no time-outs, so that nothing but the
protocol releases a waiter: `CallsEnd` says that every run returns, that a rank whose peer
fails gets to the end of its job, and that a close joins its workers. `FairSpec` is weak
fairness of each worker and caller (threads run on, and every change of the coordinator
notifies all waiters) and strong fairness of `Callback`: a callback may catch the error of each
collective and try another, but is at its own code again and again and ends at last.

**Observation.** `run` and `close` check that the
executor is open before they take the call lock. When another thread's `close` ends in
between, the `assert self._coordinator is not None` of either fails, where a second
`close` is meant to return quietly.

## 6. TargetLease

`TargetLease` models `CudaTargetLease` under any number of CUDA streams. The GPU is not
a sequence of operations but an order: `after[s]` says which streams' work so far comes
before everything that stream `s` will do from now on. `<<t, l, "use">>` in `after[s]`
means that every use of lease `l` issued on `t` so far does. Issuing work takes its
element out of all sets but the stream's own, waiting for a stream or an event adds what
it covers, and `after[Host]` is what the host has seen complete. Two accesses race
exactly when neither is in the other's set, so nothing needs to be executed, counted or
bounded: the state space is finite as it is.

`target`, `allocation`, `ready`, `staged`, `acquired` and `recorded` are the fields of the
class. `whole` (the latest copies were all issued) and `lost` (leases whose closing
synchronization raised) are what the properties need to remember. `Stage` waits for the
last mark, or on a first upload for the allocation stream, and for the recorded streams;
it may fail half way (`ok`), and leaves a mark either way. `Acquire` and `RecordStream`
register consumers, `Use` is a kernel of theirs, `WaitStream` an ordering that the caller
adds, `Close` and `CloseFails` the two ends of `close`.

Memory that an allocator hands out again may have work of the stream it belongs to
pending on it; `Allocate` counts that as a use on the allocation stream. A stream is
recorded only once the caller has ordered it after the copies: `record_stream` orders
nothing, and its callers pass the stream that the block's forward runs on after having
waited. Every copy counts as asynchronous (`non_blocking`).

`RefillWaitsForAll` is the promise of `stage`: it must hold for the next refill on any
stream, whatever moved between streams before and whichever copies failed. It breaks when
a failed copy leaves no mark. `UseFollowsCopies` is the promise of
`acquire`, `ClosedIsQuiet` that of `close`. When a synchronization raises, `close` drops
the target all the same, and nothing is promised for that lease.

## 7. StreamingRuntime

`StreamingRuntime` models one `StreamingBlockRuntime`: its main thread (`pc`), which runs
the forward hooks, the optimizer step and release, and the prefetch worker (`job`). They
share `_block_to_lease` (`held`) and the pool (`free`) without a lock of their own, so
every look at these tables and every change of them is a step: `Look` decides on what it
sees, `Take` acts on it, `Fill` stages the target.

**State.** `active`, `last` and `pending` are `_active_idx`, `_last_idx` and the keys of
`_pending`; `hooks` is whether the hooks are registered. A target is what
`CudaTargetLease` is to its caller: `target` (whether it is closed), `staged`, `acquired`;
the order of the device's work is `TargetLease`'s, and with it the meaning of
`ForwardReadsItsBytes`: what the target was filled with last is what kernels read
(`UseFollowsCopies`). `content` is the block whose bytes these are, as long as the host
has not changed them; `reading` are the targets whose queued copies the host has not seen
complete; `ofWorker` are those allocated on the worker's stream, which their close waits
for. `StepCopies` stands for the loads of an optimizer step that failed on the way.

**Steps.** `Acquire`, `Hook` and `HookAgain`, `Evict`, `Await` and `Awaited` or `Looks`,
`Takes` and `Fills`, and `Enter` are `acquire` and `_before_block_forward`;
`WorkerLooks`, `WorkerTakes` and `WorkerFills` the worker's `_stage_block`; `BeginStep`,
`LoadTrainables` and `Scatter` the optimizer step; `Release`, `ShutDown`, `CloseNext` and
`Released` are `release`. A failed `acquire` or `release` leaves the runtime `partial`,
from where `release` may be called again. `Drain` is `_drain_and_evict_all`.

**Abstractions.** Gradients, which tensors a module shows, and the compile backend are
left out. Blocks run in any order, one after another, and not inside an optimizer step. A
copy of the main thread is over when the call returns (`non_blocking=False`), the
worker's are queued. After the loads of a step succeeded, the compute stream is behind
them, and closing block 0's target waits for that stream: only a failed load leaves
copies that nothing is behind. If blocks have no trainable parameters (`Trained`), the
optimizer step changes nothing and is no step.

**Properties.** `ForwardReadsItsBytes` and `OnePlace` (in `TargetsKept`) are
what the two threads must not break together; a prefetch that survives an optimizer step
breaks the first. `TwoTargets` is the memory promise of the class, one active target and
one looked ahead for each layout, whatever order blocks come in: it rests on
`_submit_prefetch` refusing a second prefetch until the first is used. Each failure may
strand one target more, since a failed prefetch keeps its half-filled target.
`NeverRefused` (in `TargetsKept`) says that the guards of `CudaTargetLease` never fire. `QuietUnlessLost` is
what holds of the promise that follows.

**Observation.** "Once `acquired` is false, no queued
operation may still read any source in the activation load plans"
(`block_runtime.py:60-61`). When loading the trainable parameters for an optimizer step
fails half way, the copies before are queued on the runtime's own stream and nothing
waits for them (the compute stream waits only after the last one,
`streaming_runtime.py:242`). The release that follows synchronizes the streams of the
pool's targets, among them the runtime's own only if a prefetch was allocated there. The
other way to break the promise: a release whose closing synchronization raises leaves
`acquired` true, as documented, but closes that target; a second release skips it and
succeeds. `BlockComponent.release` closes the pin lease on the ground that "the runtime
synchronized before releasing its targets" (`block_component.py:1046`); section 9 follows what
that does to a session.

**A race that nothing forbids.** `_MorphingTargetPool.acquire` tests the free list and
then pops it. When a hook is for another block than the one being prefetched, both threads
can see the same last target, and the slower one raises `IndexError` (`TakeFails`). The
properties hold all the same: the error reaches a hook, no target is lost, and the block's
next use stages it.

## 8. HostRelay

`HostRelay` models a process group of `communication.py` over either transport.

**State.** Each rank has a thread (`pc`, `at`: the exchange, the chunk, how many chunks are
acknowledged, the peer), the collectives it has begun (`asked`), a download and an upload
stream (`down`, `up`: the copies queued on them, in order) and its slots or regions
(`mem[r][lane]`: the chunk in it, or `Torn` while a copy may be writing it). `chan` holds the
signals between ranks by tag (0: a chunk is ready, 1: it is free), `posted` what a rank gave
to Gloo's own collectives. `broken` is `SharedRelay.broken`; `dead` is a Gloo context that
failed or was shut down.

**Steps.** `Call` and the four kinds are the public methods up to their first wait;
`Metadata` is the exchange by which ranks agree on what they call. With the shared transport
`Publish` sends the ready signals, `Upload` queues the copies out of the peers' slots,
`Release` acknowledges them once the device has read them, and `Hear`, `Heard` and `Post`
are the sends and receives of `_signal`, in the order it posts and waits for them. With Gloo
`Issue` takes a downloaded chunk to the CPU collective and `Gather` completes it when every
rank has posted its own. `Downloaded` and `Uploaded` complete copies, at any time;
`NextExchange`, `LastChunk` and `Return` end rounds and calls. `TimeOut` is a wait that fails,
`Shutdown` the group's end between calls.

**Abstractions.** A payload is its chunks, a chunk the collective, sender, addressee and index
it belongs to. With the shared transport, which compares them, ranks
call any sequence of collectives, the same or not; through Gloo, the same. Messages between two
ranks with one tag arrive in order (Gloo's promise). The set-up of the mapping, sizes of slots
and the reductions' arithmetic are left out; alias checks are in `CollectiveBuffers`.

**Properties.** `ChunksRight`: while a copy out of a slot is queued the slot holds, whole, the
chunk its reader was told of (`ReadsItsChunk`), and a call that returns has copied out exactly
the chunks its kind promises (`Delivered`). It breaks when a slot is released before the copy
out of it is over. `LeaseOutlivesCopies`: no copy is queued outside a call, whether it returned
or raised, so the pin lease may be closed. `CollectivesReturn`: every call comes to an end.
It is checked under weak fairness of `Progress`: threads inside a call run on, copies complete,
a wait for a rank that has died times out, and every rank's program makes its calls (a rank
whose peers never call waits until its time-out). A rank only moves forward and its calls are
bounded, so one condition stands for one per rank and stream. The cyclic rounds and the waits
for every peer are what could lock.

## 9. ModelLifecycle

`ModelLifecycle` models one `ModelOffloader` over a sequence of components of three kinds
(`host`; `resident` blocks; blocks that stream or roll through targets for a `session`), some
transient, some with trainables.

**State.** `active` is `_active_device` with the activation lock, `stack` the `ExitStack` that
activation fills, `teardown` the composite's `_teardown_stack`, `hooks` the transient
components' hooks, `routed` the routed hooks with their lease. A component has its own
`active` and `acquired`, its leases of host storage (`transfer`, `pin`), `busy` (copies between
that storage and its targets run), `stamp` (the session its targets were filled in), `lost` (a
release failed to synchronize, and dropped its targets) and `stray` (copies that it has then
lost track of run). `pc` and `at` say which call the offloader is in and at which component.

**Steps.** Each call on a component returns, raises after it has cleaned up, or raises because
a synchronization failed, with the state its handlers leave (`HostReleases`,
`ResidentReleases`, `SessionReleases`, ...). The offloader's steps call the components in the
code's order: activation forwards, and on an error its stack backwards; deactivation along the
teardown stack, going on after errors; a forward acquires a transient component and releases
it; an optimizer step calls each component that trains. Copies may complete between any two
steps.

**Properties.** `StorageHeld`: while copies run, the component's storage is leased and its
targets are allocated, through failed uploads, steps, releases and deactivations
(`ComponentsHeld`), and the routed factors stay leased until the offloader is activated again.
`stray` is the one exception, and `ComponentsHeld` says whose copies these may be: those of a
transient group that streams or rolls, after a synchronization that failed. The property breaks
when the pin lease is closed while the runtime is still acquired. `FilledThisSession`: in a session
in which nothing raised, every component's targets were filled in it; it breaks if a component
that could not be retired is taken for released. `TearsDown`: between calls the offloader and
all of its components are in a session, ready for teardown, or in none (`SessionEnds`), and
without failed synchronizations nothing is left when it is in none (`NothingLeaks`).

**The exception.** It contradicts the docstrings of `BlockComponent`: "Host pin leases are
released after the runtime confirms all copies have completed" (`block_component.py:1034-1035`),
and of `deactivate`, "A terminal CUDA synchronization failure retains its pin lease" (1053-1054).
`CudaTargetLease.close` drops its target also when a stream could not be synchronized. The forward
hook of a transient component releases it; if that fails to synchronize, the runtime stays acquired
and the pin lease open, as they should; but the deactivation of the same session releases again,
finds no target left to synchronize, and closes the pin lease while the copies may be in flight.
TLC shows it with the layout `<<resident, transient session>>`, one failed synchronization and an
invariant that no component which has left its session has copies running and no lease.
A group that is not transient is only released by its deactivation, which forgets the runtime with
the pin lease open, and a later activation refuses it (`Unfinished`), so it has no second release.

**Observation.** The routed lease is to last "until a later deactivation synchronizes or the
worker is recreated" (`model_offloader.py`, activation's comment); after a teardown that raised,
the next activation closes it. `StorageHeld` says what does hold (`routed.since = session`), and
it needs one component that is not transient. A composite may have none
(`composite_component.py:29`: `resident` may be `None`). If then a reacquisition after a forward
fails, the session goes on with no component holding targets; another forward may stage routed
factors and raise; and the teardown that follows has nothing to synchronize, finds itself
`synchronized` and closes the routed lease with those copies possibly in flight, where
`model_offloader.py:441-443` says that it is kept "until a later deactivation synchronizes".
With the layout `<<transient host, transient session>>` TLC shows such a behaviour; the run's
layout has persistent components, and the theorem `StorageStays` assumes one.

## 10. RollingRuntime

`RollingRuntime` models one `RollingBlockRuntime` under the graphs that `rolling_compile.py`
makes: one target whose parameters (slots) every block shares.

**State.** A graph is a sequence of nodes that read slots and earlier results, or only rename
them (`view`). The target's lease has the streams it has recorded (`recorded`) and a ready event of
its own (`mark`); `installed` and `hooked` are how far the acquisition came. `owners`
and `ready` are the slot's block and how many copies are still in front of its ready event; `kernels` and `copies` are what the host has issued to the two streams and
the device has not done, each with what it waits for; `mem[p]` is whose bytes are in slot p.
`block` and `ran` are the block the host runs and the operations it has issued.

**Steps.** The lifecycle pass places a wait before a slot's first reader and a refill behind its
last, as `Before` orders them; the scheduler pass lets a block's operations run in every order
`Ordered` allows. The host issues operations one at a time (`wait_param`, `rollover_param`, or a
kernel), may start any block, refills in the foreground what is not the block's (`before_block`),
and may end a forward anywhere. `KernelEnds` and `CopyEnds` are the device. A refill may raise, and
so may an acquisition, while it stages (`RollingAcquireFails`) or while it installs the target. Then
the blocks that have the target may be called before it is released, and no hook refills anything. The
acquisition may happen on the stream the blocks run on, or another. `RollingRelease` waits for what the
lease knows of (`Closes`), which is not the queues but `mark` and the recorded streams.

**Properties.** `ReadsItsBlock`: while a kernel runs, every slot it reads holds its own block's
parameter and no copy is writing it, whatever the order of blocks and the schedule. It breaks
if what reads a view of a slot is not counted as its reader. `ReleasedIsQuiet`: when the target is
dropped, no kernel and no copy that touches it is left, which depends on what the lease was told on
the way: the stream a block runs on is recorded by `wait_param`, if not by the acquisition, the
prefetch stream behind the staging, and a staging that raised is covered by the lease's own event
alone. It breaks if `wait_param` records no stream. That the streams do not wait for each other for
ever is not stated: their events only cover work issued before.

**Observation.** `ReadsItsBlock` is stated as long as no acquisition or refill has raised. "compiled waits
provide per-parameter readiness" (`rolling_runtime.py:278`): after a refill that raised half
way, a slot's owner is the new block while its ready event is an earlier copy's; the next
session refills everything.

## 11. OfferedTier

`OfferedTier` models the Windows memory component with the acquisitions of the manager over
copies of checkpoint storages: a copy evicted from the pinned budget is offered to the system
by a worker, kept in a tier with a budget of its own, and taken back when its storage is
acquired again.

**State.** `memory` is what the manager's lock guards: registrations, idle and pending
storages, the tier, the batches of offers in flight, both budgets, and the regions with their
bytes (`Junk` where the system discarded a span). `current[s]` is the storage now at address s:
it changes when an owner is dropped, and what was filled for the old one is wrong for the new.
`exhausted` is the system's commitment. A call's own variables are in `call[t]`. A behaviour
starts with some storages pinned and some copies in the tier, in any order that earlier calls
can have left (`Orders`).

**Steps.** One per critical section and one per piece of work between two: acquire's two
sections with filling between, release, clear and the budget setters, a worker's offer and its
settlement (`Settle`), reclaim and rebuild, the system's discards, `Watch`, the commit watcher,
and `OwnerGone`, an owner's finalizer, which may also run inside a locked section of its own
thread (`collected`).

**Properties.** `CopiesKept`: a region is owned by exactly one of registrations, tier, batches
and calls (`OneOwner`), and the tier keeps to its budget and holds no copy of a storage that is
pinned or about to be (`TierKept`). `RegisteredIsRight`: what is registered is accessible and
holds the bytes of the storage at its address. `CommitReturns`: exhausted commitment gets the
tier's copies or is over, under weak fairness of the watcher alone; it breaks if the watcher is
not started again. The first two are also proved (section 15).

**Observation.** A copy is "freed ... when its owner is dropped" (`pin_manager.py:360-361`). A
finalizer that is collected inside the section that moves a copy between registration, batch and
tier (`_copy_memory_windows.py:219/223`, `279/282`) finds it in none of them; the copy stays for
the address, and a new storage there would be given the old bytes. `memory.missed` records it,
and `RegisteredIsRight` promises nothing of such an address.

## 12. HostModules, AdapterUpdates, Checkpoint

`HostModules` models which bytes each parameter shows: names point at Parameter objects
(`registry`), objects at storage (`data`, `backing`), storage holds contents (`bytes`). A content
is where it came from with the strengths added to it, so two contents are equal exactly when
every adapter contributed as much to both. Ties are shared objects or shared storage; a model
also says which names train, are meta, lie in a mapped file, or are packed.

The phases are: a header is read (`Checkpoint`), the model is loaded, merged into for good
(`merge.py`), captured by components (`composite_component.py`, `block_component.py`), and run
through sessions that load each component's targets under a request (`host_module.py`), with
routed or merged updates, optimizer steps, and restoration. `AdapterUpdates` is how an adapter
is built from its keys and how the active ones are grouped into one plan per parameter.

**Properties.** `OneOwner`: each name has one component, however paths nest and blocks are
numbered. `AcceptedAsDocumented`: a header is accepted exactly if it claims each byte of the data
once, in any order and with empty tensors (`HeaderExact`), and a request, temporary or permanent,
exactly if the documents permit it. `AsRequested`: in a session each name, tied ones alike, shows
its source with each update applied once. `HostKept`: sessions leave the host's bytes alone but
for optimizer steps, and nothing writes a mapped file. `TrainablesKept`: a trainable name keeps
its object. `Permits`, `Expected` and `Exact` state the reference without the code's grouping.
All but `AcceptedAsDocumented` are also proved (section 15).

**Assumptions.** `WellFormed` is what the code relies on in a model. An object has one storage,
and trains or not, under all its names (`wrap`); a storage is meta or mapped under all its names;
a meta tensor has no storage, so only one object is tied to itself (`param_tensor_id`). Tied names
are streamed in one block or not at all, and belong to the same transient paths: sharing between
host and streamed state or between blocks is unsupported (`docs/streaming.md:58-61`), and paths own
disjoint state, aliases included (`docs/streaming.md:205`). A block has one tensor of a local name
(`PlacesAssumption`), and a request is a list of adapters with strengths (`RequestsAssumption`).

**Observation.** A merged update on a resident trainable parameter is in the target that
`optimizer_step` copies back (`host_module.py:36`): from then on it is part of the host's bytes.
`AsRequested` therefore speaks of trainables only before the first step.

## 13. UpdateStaging, MergeKernels, Codebooks, CollectiveBuffers

`MergeKernels` is a machine that runs launches. A launch is a grid of programs which run in
any order, each loading all it loads before it stores; launches follow each other on a stream. A
cell of memory holds the set of input cells its value is made of, so arithmetic is left out and
where every program reads and writes is not. Block sizes are constants.

`UpdateStaging` gives the launches before a merge: factors of different ranks and broadcast
shapes are transferred into packed buffers and scaled slice by slice, dense deltas added up, an
int8 weight's activation scale divided out. For a tensor-parallel weight it gives each rank's
region, placement by placement, and narrows updates to it. `MergeKernels` gives the launches of
each format: tiles, levels of reductions, swizzled and nested scales. `Codebooks` is the choice
of a four-bit code, deterministic and stochastic, for a probe of a value.

`CollectiveBuffers` gives the copies of a collective. Two local ranks share an address space;
their copies run in order. One rank of the relay downloads chunks of its sources and uploads
chunks of its outputs, one region at a time or the upload of one beside the download of the next,
with the copy of its own contribution beside any of them on the caller's stream (`late`). What
arrives from a peer is a cell of the peer's; that it arrives is `HostRelay`'s.

**Properties.** `MergesExactly`: programs of a launch store only inside the buffers, no word
twice, and nothing another loads or stores (`Confined`), and in the end each code and scale is
made of exactly the merged values that share it (`Requantized`, against a definition of the
format that knows no tiles). `ShardsTile`: ranks hold the regions their placements mean,
replicas with equal rounding seeds and other regions with different ones. `CodesNearest`: the
code is a nearest one, a stochastic one a neighbour. `CollectivesDeliver`: what a collective
accepts it delivers, whatever its tensors alias, and all other memory is as it was; it breaks if
a copy's output may be another copy's source.

Stores are atomic per program, which is enough: `Confined` refuses every conflict between two
programs, and with it every effect of their interleaving within a launch.

## 14. Runs and bounds

| run | configuration | instance | properties |
|---|---|---|---|
| `pin` | `PinManager.cfg` | 2 callers, 3 storages (two in place sharing a page, one from a checkpoint), budgets of 2 and 3 pages, 3 calls, 1 failed unregistration | `HeldStaysRegistered`, `Accounting`, `NothingLeaks`, `KeepsPromise`, `CallsReturn` |
| `cache` | `ResourceCache.cfg` | 2 threads, 3 keys (larger than, smaller than, equal to the estimate; a bad size), limits 2, 3 or none, 3 calls; LRU with factories that do not re-enter, and any policy with factories that do | `LeasedStoreStays`, `Accounting`, `KeepsPromise`, `LeasesSettle` |
| `executor_safety` | `SequentialExecutorSafety.cfg` | 2 callers, 2 groups, time-outs, 3 calls, 2 collectives per rank and callback | `OneRankComputes`, `PreviousUnwound`, `MatchedCollectives` |
| `executor_liveness` | `SequentialExecutorLiveness.cfg` | 2 callers, 1 group, no time-outs, 2 calls | `CallsEnd` |
| `target_lease` | `TargetLease.cfg` | 1 lease, 3 symmetric streams, no bounds | `RefillWaitsForAll`, `UseFollowsCopies`, `ClosedIsQuiet` |
| `streaming` | `StreamingRuntime.cfg` | 4 blocks, the first of another layout, 5 symmetric targets, 1 failure, any number of sessions | `ForwardReadsItsBytes`, `TargetsKept`, `TwoTargets`, `QuietUnlessLost` |
| `rolling` | `RollingRuntime.cfg` | 3 graphs, 3 blocks, 2 slots, 3 blocks run, 1 acquisition or refill that raises, with and without wraparound | `ReadsItsBlock`, `ReleasedIsQuiet` |
| `relay` | `HostRelay.cfg` | 2 ranks with 2 calls, one rank pageable or none; 3 ranks with 1 call; both transports, payloads of 3 chunks, 1 fault | `ChunksRight`, `LeaseOutlivesCopies`, `CollectivesReturn` |
| `lifecycle` | `ModelLifecycle.cfg` | 5 components (host with trainables, transient host, resident with trainables, session, transient session), 4 sessions, 3 failed synchronizations | `StorageHeld`, `FilledThisSession`, `TearsDown` |
| `offered` | `OfferedTier.cfg` | 2 threads, 2 storages of 1 and 2 spans, 3 regions, 2 operations, 1 dropped owner | `CopiesKept`, `RegisteredIsRight`, `CommitReturns` |
| `host_modules` | `HostModules.cfg` | 8 names, 7 models, 2 optimizer steps; headers of up to 4 entries over 3 bytes | `OneOwner`, `AcceptedAsDocumented`, `AsRequested`, `HostKept`, `TrainablesKept` |
| `kernels` | `MergeKernels.cfg` | weights of up to 5 x 7 in tiles of 3 x 3 x 2; meshes of 3 and 2 x 2; probes of every code and its neighbours; collectives in a memory of 8 elements | `MergesExactly`, `CodesNearest`, `ShardsTile`, `CollectivesDeliver` |

Some properties are conjunctions of parts that have names of their own: `Accounting`
(`PinManager`: `PinnedIsUnion`, `OverBudgetOnlyLeased`, `StartsMatch`; `ResourceCache`:
`UsedIsSum`, `LeasesCounted`, `OrderIsInactive`, `BudgetKept`), `TargetsKept` (`OnePlace`,
`NeverRefused`), `CallsEnd` (`RunsReturn`, `RanksUnwind`, `ClosesReturn`), `ChunksRight`
(`ReadsItsChunk`, `Delivered`), `TearsDown` (`SessionEnds`, `NothingLeaks`), `CopiesKept`
(`OneOwner`, `TierKept`), `MergesExactly` (`Confined`, `Requantized`).

In `pin`, `MaxCalls` bounds the public calls in a behaviour and `MaxFailures` the failed
unregistrations. Two callers are enough for every race between an acquisition and
another section, since sections exclude each other; three calls are an acquisition,
another that overlaps it or follows its close, and a clear, a shrinking budget or
a third acquisition. The three storages give shared pages, a copy, requests in
opposite orders, and a budget of two pages that can hold any one of them but not
two. Three pages hold the two that share a page, and evict when they shrink to two.
Without a budget nothing is evicted or skipped; the proofs cover it. The whole state space
within the bounds is explored; no symmetry is used where
liveness is checked. `Rest` lets a behaviour stutter once its calls are used up and every
caller is out, so TLC's deadlock check still means that no call is stuck before.

In the executor, `MaxCalls` counts `run` and `close`, and `MaxCollectives` the
collectives a rank completes in one callback. Three calls are a run that fails, its
cleanup, and a close or another run; two collectives are the least that can be paired
in the wrong order. The code has two ranks, so there are two here for every instance.

Leases of targets share nothing but streams, so one of them is enough to break each of
its properties; three streams are a stream that copies, one that consumes and one that
the memory comes from or that the consumer goes on to. The proofs cover every number.

Four blocks are the least number where the direction of the traversal at its ends
(`Number \div 2`) differs from that between them, and with one of another layout there are
three that compete for one pool: an active one, one that was prefetched and not used, and
another. Hooks, steps and releases are not bounded; only failures are. Five targets are
enough: no allocation ever finds none left, which TLC confirmed for this instance.

In `rolling` three blocks are one before, one now and one after; a slot read through a view and
again late, two slots in one kernel, and a slot that is not read are the cases the passes tell
apart. In `relay` three chunks are one more than the slots, so that each transport reuses one
and has another in flight; two calls let signals and bytes of one be taken for the next's; three
ranks are the least with a cyclic round in which sender and receiver differ. In `lifecycle` four
sessions are one that fails, one that finds what it left, one that must refuse or recover, and one
more; each kind of component is there, transient or not. In `offered` one storage of two spans can
be discarded in part, and a third region lets a copy be rebuilt beside its predecessor;
pinned and offered copies start in every order that the budgets admit.
`host_modules` runs each model through one request after another, an optimizer step between them,
with tied, trainable, meta, mapped, packed and block parameters; four header entries are two that
share an offset between two others. `kernels` has no cycle: each input runs to its end, in every
order of its programs, with at least one cut tile, one cut block and two levels of reductions; the
collectives' tensors lie apart, coincide and overlap in every way two of their size can.

`CHECK_DEADLOCK FALSE` is set where a bounded behaviour really ends: calls, sessions or
launches are used up.

### What the code says and does not do

While modelling, the following statements of the code were found not to hold as they stand. The
runs above check what does hold; each is described with its component.

- `pin_manager.py:403-404` and `11-12`: an asynchronous transfer under a pageable lease may read
  storage another caller pinned between the two sections (450, 532), and read on when it is evicted.
- `resource_cache.py:536/545`: a factory that leases may leave the cache over its limit
  (`WithinBudget`; `BudgetKept` is the part that holds).
- `block_runtime.py:60-61`: a failed load of an optimizer step leaves copies that the release does
  not wait for (`streaming_runtime.py:239/242`).
- `streaming_runtime.py:67`: two threads may pop the last target.
- `sequential.py:382, 420, 427`: an assertion fails in `run` or `close` beside another thread's
  `close`.
- `block_component.py:1034-1035` and `1053-1054`: a release that follows one whose synchronization
  failed closes the pin lease under copies in flight (section 9).
- `model_offloader.py:441-443`: with transient components only, the routed lease may be closed while
  factors are being staged from it (section 9).
- `rolling_runtime.py:278`, `pin_manager.py:360-361`, the routed lease of `model_offloader.py` and
  the copy-back of `host_module.py:36`: sections 9 to 12.

## 15. Proofs

Every invariant below holds for all values of the constants that satisfy the named
assumptions of the component's module: any numbers of threads, keys, blocks, targets,
streams and components, any sizes and bounds. Each is proved from an inductive invariant,
which TLC had checked on the instance of the component's run; where several theorems
share one, its name is `IInv` (`Orderly` for `TargetLease`, `RollingInv` for `RollingRuntime`, `LifecycleInv`
for `ModelLifecycle`, `ModulesInv` for `HostModules`).

`PinManagerProofs` proves, for any finite sets of callers and storages, any layout,
requests, budgets and bounds that satisfy the assumptions of `PinManager`
(`StorageAssumption`, `CallerAssumption`):

| theorem | states |
|---|---|
| `Invariance` | `Spec => []IInv`, the inductive invariant |
| `TypeCorrect` | `Spec => []TypeOK` |
| `HeldSafe` | `Spec => []HeldStaysRegistered` |
| `LeasesExact` | `Spec => []LeasesAgree` |
| `PendingSafe` | `Spec => []PendingExclusive` |
| `Refinement` | `Spec => KeepsPromise` |

None of the four safety properties is inductive by itself. That eviction spares
what is held needs `idle` to list only unleased registrations, which needs the lease
counts to be exact, which needs an acquisition never to hold a storage twice:
`HoldNext` counts a storage once because what is held lies before it in the
request, `SettleRegister` because what is pending is not registered and so held by
nobody. That needs `ReserveTake` never to reserve what is registered, which holds
because the same section has already held every registered storage of its request.
`IInv` therefore adds to the types and the four properties

- `Sections`: a call inside a critical section has the lock, and a capacity retry
  (`mark`) is one that has storage left to register;
- `Locals`: at each stage, what a caller holds and has pending, each once, and what
  its loop over the request has been through (`Before`);
- `Alone`: while a pinning acquisition holds and reserves, nobody else has pending
  storage, which is what `MayEnter` waits for.

The proof has one lemma per group of actions (`CoreHoldNext`, `CoreReserveTake`,
`CoreEvictPending`, `CoreSettleRegister`, `CoreReleaseNext`, `CoreEvict`, ...; `CoreGoto`
for the steps that only move a call along) over lemmas on sequences without
repetition (`ToSetAppend`, `ToSetTail`, `ToSetRemoveFirst`) and on cardinalities
(`LeaseCounts`, `HoldCounts`, `ReleaseCounts`). The refinement maps `pool` to
`registered` and `holding[p]` to the set of registrations p holds: `HoldNext` is
`Share` or a stutter, `SettleRegister` is `Admit`, `ReleaseNext` is `LetGo`, an eviction
or a dying owner is `Evict`, and every other step stutters.

Its second half is about the manager's books, for ranges that meet at their ends only
(`DisjointAssumption`, what `_validate_ranges` checks):

| theorem | states |
|---|---|
| `BooksKept` | `Spec => []Books`, inductive given `IInv` before and after each step |
| `NoLeaks` | `Spec => []NothingLeaks` |
| `BooksAgree` | `Spec => []Accounting` |

`Books` has one part per table, each with a lemma that every step keeps it:

- `Booked` (`PagesStep`): a boundary page is counted once per range that ends in it, and
  `pinned` is the size of the union of the pinned ranges plus the copies. `AddRange` says that
  a range adds exactly the pages `_page_reservation` counts, since another range can only
  share a page at an end of both; every step pins or unpins at most one (`PinStep`), and
  `BookOne` reads the change in both directions.
- `PageableCounted`, `StartsMatch`: `_pageable` counts the leases, and `_starts` lists a
  storage once for being pinned and once for being leased pageable.
- `TriedByLoop`, `Trimmed`: between sections the budget is exceeded only if nothing is idle.
  A loop of evictions stops early only for victims it has tried and whose unregistration
  failed, and every way to raise `pinned` or to lower the budget is followed by such a loop.
- `OwnersRegistered`, `CreatedHeld`, `RootedExactly`, `RetiredIsReleased`: `NothingLeaks`, and
  that only what is registered has owners.

`LeaseProofs` proves about `ResourceCache`, for any threads, keys, estimates, sizes and limits
(`CacheAssumption`), under the LRU policy or any other, with factories that lease or not:

| theorem | states |
|---|---|
| `CacheInvariance` | `Spec => []IInv` |
| `CacheTypes` | `Spec => []TypeOK` |
| `LeasedSafe` | `Spec => []LeasedStoreStays` |
| `BooksBalance` | `Spec => []Accounting` |
| `CacheRefines` | `Spec => KeepsPromise` |

Victims may be any set of inactive entries, so what must be inductive is that inactive means
unleased: the lease counts agree with the leases that threads have (`Counted`), the order lists
exactly the cached stores without leases, each once, and the bytes are their sum. While a
factory runs (`Frames`), its keys are registered, distinct and not cached: what it leases
from the cache is never what it is building. `RoomKept` is `BudgetKept` with what it rests on,
that room for the estimate stays free until the store is admitted. The refinement maps an
admission to `Admit` and evictions to one `Evict` of several; `lease` and release are `Share`
and `LetGo`. `DataLemmas` proves what these and the pin manager's sums need. Induction over
data is out of the provers' reach as a rule, but what is folded here is finite sets, and over
the subsets of a finite set, ordered by inclusion, a least counterexample can be taken
(`FoldsExists`, `FoldsUnique`); sums are such folds (`SumIsFold`), and what they add, split and
bound follows (`SumAdd`, `SumSplit`, `SumNat`).

`SequentialExecutorProofs` proves, for any callers, any groups and any values of the two
bounds (`ExecutorAssumption`):

| theorem | states |
|---|---|
| `Invariance` | `Spec => []IInv` |
| `TypeCorrect` | `Spec => []TypeOK` |
| `OneRank` | `Spec => []OneRankComputes` |
| `Unwinding` | `Spec => []PreviousUnwound` |
| `Poisoning` | `Spec => []FailurePoisons` |
| `NoLostJob` | `Spec => []AwaitedIsReachable` |
| `Restoring` | `Spec => []WorkersBeforeRestore` |
| `Matching` | `Spec => []MatchedCollectives` |

The turn alone does not keep the ranks apart: `finished` lets either of them compute,
so one of the ranks must really have no more to do, and no new run may reset the turn
while a rank is at its callback. `IInv` says why:

- `Session`: the call lock and `opener` leave one caller inside;
- `Stages`: who is about to submit finds every job done, and cleanup an error;
- `Unfinished`: only the pending job may be unfinished, and none is when nobody waits
  and there is no error;
- `Unwound`: a worker has a job while it is busy, and what is ahead of a job in a queue
  is done before the job is taken;
- `Poisoned`: without an error no job failed, no worker stops, no job is for cleanup;
- `InStep`: without an error each rank has the last job ahead, in hand, or nothing;
- `AllReachable`, `Turns`: the awaited job and the turn, in a form that each step keeps.

`CloseEnds` clears the error, so the parts that rest on it end with isolation (`Alive`).
There is one lemma per action or group of actions that move a worker (`MoveKeeps`,
`AbortKeeps`), move a caller (`StepKeeps`, `OutsideKeeps`), take from a queue
(`TakeJobKeeps`, `TakeStopKeeps`) or put into one (`SubmitKeeps`, `CloseLockKeeps`).

`Matching` relates the two ranks' histories. While nothing has failed (`Hale`), whoever waits
in the round is there for its group, and both ranks have been through the same collectives
(`Paired`); `Past` counts the collective a rank is just leaving as passed. A value is a result
that was settled without an error: the step that settles the second one finds both at the end
of equal histories, and `Agreed` remembers it whatever fails afterwards. For that a job's
results must not be touched once the next one is in hand, which is `Queued`: what is ahead of
a worker is later than what it has, and nothing of it is done.

The second half of `LeaseProofs` is about `TargetLease`, for any streams and leases
(`HostAssumption`):

| theorem | states |
|---|---|
| `LeaseInvariance` | `LeaseSpec => []Orderly` |
| `LeaseTypeCorrect` | `LeaseSpec => []LeaseTypeOK` |
| `RefillOrdered` | `LeaseSpec => []RefillWaitsForAll` |
| `UseOrdered` | `LeaseSpec => []UseFollowsCopies` |
| `QuietClose` | `LeaseSpec => []ClosedIsQuiet` |

`RefillWaitsForAll` is lost when a new use makes a mark stale, unless the stream of that
use is recorded. The inductive invariant says, per lease, who covers what: before the first
copies the allocation stream covers all work (`Unfilled`); afterwards the mark covers the
copies, and mark and recorded streams together the uses (`Filled`). `Handed` says that a
staged target has no consumers yet, so the first one, which waits for the mark, makes
`UseFollowsCopies` true. One lemma per action; `Kept` is the frame of leases that a step
leaves alone, and `IssueOrder` and `StaleMarks` say what issuing work does to the order.

The first half of `BlockRuntimeProofs` is about `StreamingRuntime`, for any number of blocks and targets, any layouts and any
number of failures (`RuntimeAssumption`):

| theorem | states |
|---|---|
| `RuntimeInvariance` | `Spec => []IInv` |
| `RuntimeTypes` | `Spec => []TypeOK` |
| `ForwardsReadTheirBytes` | `Spec => []ForwardReadsItsBytes` |
| `ThreadsKeepTargets` | `Spec => []TargetsKept` |
| `ReleaseIsQuiet` | `Spec => []QuietUnlessLost` |
| `TwoTargetsSuffice` | `Spec => []TwoTargets` |

`MainStage` and `WorkerStage` say what each thread may rely on where it stands, whatever the
other does: the block a thread looked up without a target has none until it gets one
(nobody else works on that block: the active block is not pending, the prefetch is for a block
the main thread does not want, or waits for), but the free target it saw may be gone. `Places`
is `OnePlace` with the state of the targets that are with a block; `Closing` that targets are
closed only with the worker at rest. `Fresh` is what makes a hook right: a target staged for a
block holds that block's bytes *of now*, so the optimizer step must find no block staged.
`TwoTargets` is not inductive as a bound on targets alone: `Left` are the blocks that keep a
target for nothing, each left by a failure (`Leftovers`), and `Counted` bounds a layout's targets
together with the threads that are about to allocate one.

The first half of `ModelProofs` is about `ModelLifecycle`, for any sequence of components (`LayoutAssumption`: a host
component, a resident or a per-session block component each, transient or not, with trainables
or not, except that a per-session one has none), any number of sessions and of failed
synchronizations:

| theorem | states |
|---|---|
| `LifecycleInvariance` | `Spec => []LifecycleInv` |
| `LifecycleTypes` | `Spec => []TypeOK` |
| `ComponentsKeepStorage` | `Spec => []ComponentsHeld`: components keep their storage, and whose copies may be stray |
| `StorageStays` | `Spec => []StorageHeld`, if some component is not transient |
| `FilledAnew` | `Spec => []FilledThisSession` |
| `TornDown` | `Spec => []TearsDown` |

The proof is in two layers. Per kind of component, what each of its calls may come to, given a
state that is `Sound` and `Clean` (`ActivateOutcome`, `AcquireOutcome`, `ReleaseOutcome`,
`EnterOutcome`, `ExitOutcome`): all failure handlers end in such a state. Per step of the offloader, that its stacks and its components
agree (`Stages`): activation has called exactly a prefix of the components, both stacks are
such prefixes (`Prefix`), and inside a session every component is in it. `Complete` is what a
session in which nothing has raised has filled so far; a transient component has no targets
between its forward and the next, so the place of the running call is part of it. `Stepping`
is what an optimizer step relies on in leaving the boundaries it entered. `Remembered` is
why only transient groups stray: in any other, a release that has lost its targets also ends the component's session. `Persist` and
`Routing` are for routed factors: they are staged by forwards, and the lease under them is
closed by a teardown only if a component was torn down that waits for the device, as one that
is not transient always is. That assumption was not in the first statement of `StorageStays`;
the proof did not go through without it, and TLC then found the behaviour in section 9.

The second half of `BlockRuntimeProofs` is about `RollingRuntime`, for any set of graphs over any number of slots, any number of
blocks, any plan that leaves slots alone, with wraparound or not (`RollingAssumption`):

| theorem | states |
|---|---|
| `RollingInvariance` | `RollingSpec => []RollingInv` |
| `KernelsReadTheirBlock` | `RollingSpec => []ReadsItsBlock` |
| `RollingReleaseIsQuiet` | `RollingSpec => []ReleasedIsQuiet` |

The graph, the schedule and the lengths of both queues are unbounded here; in the run they are
three graphs and three blocks. `Streams` holds whatever raises. `Known` in it
is why a closing lease leaves nothing behind: if kernels are queued the compute stream is recorded, since a kernel that reads a slot is issued behind the slot's
wait (`WaitedFor`), and copies are either behind the recording of the prefetch stream or all in front of
the lease's own event. It is inductive because only a block that has the target issues anything, and
no block has it before the prefetch stream is recorded.
`Parameters` holds until an acquisition or a refill raises. `Holds(q, m, p, b, n)` says what slot p will be after
the first n copies, and the three parts say when it may be relied on: `Slots` at a slot's ready
event, `RollingReading` at what a queued kernel waits for, with every later copy into the slot behind
the kernel, and `Scheduled` in between, for the operations of the running block that are not
issued yet. The compiler's passes enter through one fact (`ReadersBetween`): a slot's wait is
before its readers and its refill is after them; which readers these are is `TouchesRead`, that a kernel
touches a slot through any chain of views only if the passes count its node as a reader.
Both sides are recursive over the graph; the functions exist because a node reads earlier nodes
only (`RecursExists`), and a least index takes the place of induction. `LoadsCount` says that the
slots of a refill are copied in their order, each once, and `RefillSlots`, `RefillReading` and
`HoldsSooner` what putting copies into the queue and ending one do to `Holds`.

`HostRelayProofs` proves, for any number of ranks, buffers, regions, chunks and calls and
any faults, with the shared transport also for ranks that do not call the same (`RelayAssumption`):

| theorem | states |
|---|---|
| `RelayInvariance` | `Spec => []IInv` |
| `ChunksArrive` | `Spec => []ChunksRight` |
| `NoCopyOutlives` | `Spec => []LeaseOutlivesCopies` |

`LeaseOutlivesCopies` needs only that a generator is drained on every way out; `ChunksRight` is a
statement about two ranks, and needs a part of `IInv` for each transport.

With shared slots (`SharedInv`), `Agreement` says that nobody is past the metadata of a
collective that not all have called, and that no rank is more than one call ahead: a signal on
its way is therefore of the call its sender is in. `Counters` and `Slots` say what a rank's own
slots hold: each of the `BUFFERS_PER_RANK` chunks from the first one not acknowledged is in its
slot or has its copy queued. `Uploads` lists what it is copying out and has got. `Handshake` follows a chunk
from s to d through its five stages, each of which some rank's program counter decides: s has
told d (`Told`), d has heard (`Known`), d has copied it out (`Copied`), d has told s so
(`Freed`), s has heard (`Acknowledged`). A stage implies the one before it (`Knowledge`,
`Permission`), and a signal on a channel is one that was said and not heard (`ReadySignals`,
`FreeSignals`), in increasing order. A slot is overwritten after `Acknowledged` and read after
`Known`, so the two sides of `Handshake` exclude the race. The parts do not hold one by one: a
time-out in the middle of telling several peers leaves some told and some not, which is why
`Told` of a rank that failed is defined by what its slots hold and not by where it stopped.
The rounds of the four kinds enter through `Outward`, `Inward` and `Place`, where in its
exchanges one rank meets another; `Meetings` proves that the two ends meet, each pair once.

Through Gloo (`GlooInv`) each rank has regions of its own (`Regions`), a chunk being in its region from
its copy in to its copy out (`Queued`, `Loaded`, `Results`, `Returned`). What ranks share is
Gloo's sequence of CPU collectives, where the i-th of one rank meets the i-th of the others:
`History` says that there are starts of calls, the same for all ranks (`Bases`), from which each
rank has given exactly its chunks in order (`Given`, `Sent`). This is where `Compatible` is
needed: Gloo has no metadata, and the ranks are taken to call alike.

The second half of `ModelProofs` is about `HostModules`, for any finite set of names, any adapters,
any set of well-formed models, any lists of requests and merges and any number of optimizer steps
(`PlacesAssumption`, `RequestsAssumption`, `ModelsAssumption`, section 12):

| theorem | states |
|---|---|
| `ModulesInvariance` | `ModulesSpec => []ModulesInv` |
| `OneOwnerAlways` | `ModulesSpec => []OneOwner` |
| `AsRequestedAlways` | `ModulesSpec => []AsRequested` |
| `HostKeptAlways` | `ModulesSpec => []HostKept` |
| `TrainablesKeptAlways` | `ModulesSpec => TrainablesKept` |

`AsRequested` compares what the code does with an adapter list, which it folds into one plan per
parameter, with the sum over the list that the documents promise. `Gathers` says what the fold's
partial results are, that they exist and are unique (`GathersExists`, `GathersUnique`); `Grouped`
says of each that it holds, per adapter, the strengths summed so far (`ContributionsGrouped`), and
`AppliedIsAfter` that applying a plan under one of its names is `After` for all of them. The last
needs that a storage is updated under one name only, which acceptance checks (`Distinct1` for
merges, `Serving` for sessions). A meta name may take its value through any alias.

`ModulesInv` has two halves, because capture changes what a name points at. While the model is
built (`Building`), names point at their own object or at a copy that all names of the storage
share (`Pointed`); an operation that is not applied yet would give what the merge promises
(`Operation`), and until it is applied nothing of its storage has changed (`Waits`), after which the
storage shows the result (`Ready`); no two operations are about one storage. Once captured
(`Captured`), the names of one storage share a HostParam and its backing and no others do
(`Hosted`), what is backed holds what the merge left and the steps taken (`Backed`), and with the
components acquired a name points at its target or at the host (`Pointing`), a target holding what
the session asks for (`Targeted`). `Pointing` and `Targeted` are operators of the components, objects and bytes,
so that `InstallTargetsKeeps`, `InstallHostKeeps` and `LoadedIs` serve acquisition, release and a
session on the host alike. `Own` storage that is mapped is never the target of an operation or of
a step: a captured trainable has storage of its own (`Owned`), which is why `Mapped` is kept.
The proof needed the assumptions to be stated; one of the run's models then turned out to have an
object that trained under one of its names only, which none can, and was replaced.

`OfferedTierProofs` proves, for any finite set of threads, any number of storages of any sizes,
any regions, requests and values of both budgets, and any failures, discards and dropped owners
(`OfferedAssumption`):

| theorem | states |
|---|---|
| `Invariance` | `Spec => []IInv` |
| `CopiesKeptAlways` | `Spec => []CopiesKept` |
| `RegisteredIsRightAlways` | `Spec => []RegisteredIsRight` |

That a region has one owner is a statement about four tables at once, and inside a section it
holds of none of the states between two assignments of the model's variables: one action evicts
several copies, settles several loads and starts the next. So the invariant is stated of a memory
and not of the variables. `Good(x, E, n, cur)` says what a memory x is when E are the regions that
calls own, n counts the leases on each storage and cur says which storage is at each address; every
operator of the model that returns a memory has a lemma that says what it does to x, E and n
(`FreedKeeps`, `ReleaseKeeps`, ...), and an action's lemma (`FillRestSound`, ...) composes them.
The parts of `Good` are

- `RegisteredApart`, `TierApart`, `BatchApart`, `KindsApart`: registrations, tier, batches and E
  own different regions, and within each no two do. `Covered` says that what nobody owns is free.
- `Booked`: the lease counts, that idle lists exactly the registered storages without leases,
  each once, and that what is pending is not registered. `WithinTier` is `TierKept`.
- `RegisteredWhole`: what is registered holds its storage's bytes. It rests on `TierRight` and
  `BatchRight`, that an offered copy holds only its own storage's bytes or `Junk` (`Mixed`),
  unless it was retired or missed.

`CallRight` says of a call what its loads may hold where it stands: its regions are apart
(`LoadsApart`), and outside the spans it knows to be missing a load has the bytes of its storage
(`LoadsRight`); that storage cannot go away, since the call has a tensor of it. The pending
storages are those of the loads, and one thread at a time has any, which is what acquisitions
wait for. `Frame` and `Spares` say what a section leaves alone, so that what one thread does in
it keeps what the others rely on.

The loops of the code (`EvictIdle`, `ReserveAll`, `SettleAll`, `RegisterPending`) are functions
over 0 to the length of a sequence. That these exist and satisfy their equation, and that what
each step keeps the whole loop keeps, is by a least number that is a counterexample, once for each
(`Runs` is their common shape). `Lacking` folds over a set, as in `DataLemmas`.

**Only model-checked.** Liveness under fairness (`CallsReturn`, `LeasesSettle`, `CallsEnd`,
`CommitReturns`, `CollectivesReturn`): TLAPS has neither ENABLED nor fairness.
`AcceptedAsDocumented` and the properties of `MergeKernels` and the modules under it compare
algorithms over sequences (headers, tiles, codebooks, collectives) with reference definitions; for
every length that is induction over data.

The theorems also state properties that the runs do not repeat: the type invariants,
`LeasesAgree` and `PendingExclusive` of the manager, `FailurePoisons`, `AwaitedIsReachable` and
`WorkersBeforeRestore` of the executor, `ComponentsHeld` of the lifecycle.

## 16. Not modelled

- The registration backend (`_host_registration.py`, `_host_memory*.py`): calls into CUDA and the
  OS. `PinManager` and `OfferedTier` branch over what they can return.
- Metadata, layouts and dtypes of tensor formats, rounding and the arithmetic of scales: they
  share no state, and accuracy is out of a model checker's reach. Where each value is read and
  written is modelled.
- `_sequential_runtime.py`: it patches PyTorch's own state, thread by thread.
- The compiler's part of `rolling_compile.py` and `block_compile.py` (matching graph nodes): what
  the passes guarantee of a schedule is modelled.
- `ModelCache.use` and the factories that load models: `ResourceCache`'s lease around an
  activation of `ModelLifecycle`.
- The adapter registry: a short sequential list that unit tests reach.
- Gradients, statistics, logging, GGUF parsing and the reading threads below a fill.
