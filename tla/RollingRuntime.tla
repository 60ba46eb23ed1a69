---------------------------- MODULE RollingRuntime ----------------------------
(***************************************************************************)
(* RollingBlockRuntime (rolling_runtime.py) under the graphs               *)
(* rolling_compile.py makes: one target whose parameters ("slots") every   *)
(* block shares.  A compiled block waits for a slot before its first       *)
(* reader and, after its last, has it refilled for the next block.  The    *)
(* host thread only issues work to two CUDA streams, which run it later:   *)
(* the blocks' kernels, and the copies into the slots.  The target's lease *)
(* (target_lease.py) is closed once the work it knows of has ended.        *)
(***************************************************************************)
EXTENDS Integers, Sequences, FiniteSets, FiniteSetsExt

CONSTANTS
  Graphs,      \* the block's graph: a sequence of nodes [params, nodes, view]
  NumParams, NumBlocks,
  Unloaded,    \* pairs of a block and a slot its load plan leaves alone
  MaxCalls,    \* bound on the sessions' blocks
  MaxFaults    \* bound on the acquisitions and refills that raise

(* A node reads slots (params) and the results of earlier nodes; a view only
   renames what it reads. *)
ASSUME RollingAssumption ==
  /\ NumParams \in Nat \ {0} /\ NumBlocks \in Nat \ {0} /\ MaxCalls \in Nat /\ MaxFaults \in Nat
  /\ Graphs \subseteq Seq([params : SUBSET (1 .. NumParams), nodes : SUBSET Nat, view : BOOLEAN])
  /\ \A g \in Graphs : \A i \in DOMAIN g : g[i].nodes \subseteq 1 .. i - 1
  /\ Unloaded \subseteq (0 .. NumBlocks - 1) \X (1 .. NumParams)

Params == 1 .. NumParams
RollingBlocks == 0 .. NumBlocks - 1
None == -1

VARIABLES
  graph, wraparound,
  leased,
  recorded,     \* the streams recorded in the lease
  mark,         \* how many copies are still in front of the lease's ready event
  installed,    \* how many blocks have the target installed
  hooked,       \* the blocks' hooks, which call before_block, are registered
  owners,       \* owners[p]: the block slot p was last refilled for
  ready,        \* ready[p]: how many copies are still in front of its ready event
  barrier,      \* how many the compute stream has still been told to wait for
  kernels,      \* the compute stream: kernels [block, reads, after]
  copies,       \* the prefetch stream: copies [block, param, after]
  mem,          \* mem[p]: whose bytes are in slot p
  block, ran,   \* the block the host thread runs and the operations it has issued
  calls, faults
heldVars == <<recorded, mark, installed, hooked>>
rollingVars == <<graph, wraparound, leased, heldVars, owners, ready, barrier, kernels, copies, mem, block, ran,
                 calls, faults>>

------------------------------------------------------------------------------
(* The compiled graph. *)

(* _is_read_only_alias, _storage_readers: what only views a slot is not its
   reader, whatever reads the view is. *)
Renames(g, p) ==
  LET alias[i \in DOMAIN g] == g[i].view /\ (p \in g[i].params \/ \E j \in g[i].nodes : alias[j])
  IN  {i \in DOMAIN g : alias[i]}
(* MUTANT: a view of a slot counts as its reader, and what reads the view does not. *)
ReadersDirect(g, p) == {i \in DOMAIN g : p \in g[i].params}

Readers(g, p) ==
  {i \in DOMAIN g : ~g[i].view /\ (p \in g[i].params \/ g[i].nodes \cap Renames(g, p) # {})}

(* The lifecycle pass puts a wait in front of a slot's first reader and a refill
   behind its last, in the order the pass meets the slots. *)
Wait(p) == [op |-> "wait", arg |-> p]
Refill(p) == [op |-> "refill", arg |-> p]
Node(i) == [op |-> "node", arg |-> i]
Waited(g) == {p \in Params : Readers(g, p) # {}}
Operations(g) ==
  {Node(i) : i \in {j \in DOMAIN g : ~g[j].view}} \cup {Wait(p) : p \in Waited(g)} \cup {Refill(p) : p \in Waited(g)}
Before(g, e, f) ==
  LET Place(x) == IF x.op = "wait" THEN 2 * Min(Readers(g, x.arg)) - 1 ELSE 2 * Max(Readers(g, x.arg)) + 1
  IN  \/ Place(e) < Place(f)
      \/ /\ Place(e) = Place(f)
         /\ IF e.op = f.op THEN (e.op = "wait" /\ e.arg < f.arg) \/ (e.op = "refill" /\ e.arg > f.arg)
            ELSE e.op = "refill"

(* What the kernel of a node reads: slots, and other nodes' results, through views. *)
Touches(g, i) ==
  LET slots[j \in DOMAIN g] == g[j].params \cup UNION {IF g[k].view THEN slots[k] ELSE {} : k \in g[j].nodes}
  IN  slots[i]
Operands(g, i) ==
  LET sources[j \in DOMAIN g] == UNION {IF g[k].view THEN sources[k] ELSE {k} : k \in g[j].nodes}
  IN  sources[i]

(* The scheduler may order a block's operations in any way that keeps the data
   flow, the order of the effects and the edges _RollingSchedulerPass adds. *)
Ordered(g, x, y) ==
  CASE x.op = "node" /\ y.op = "node" -> x.arg \in Operands(g, y.arg)
    [] x.op = "wait" /\ y.op = "node" -> y.arg \in Readers(g, x.arg)
    [] x.op = "node" /\ y.op = "refill" -> x.arg \in Readers(g, y.arg)
    [] x.op = "node" /\ y.op = "wait" -> FALSE
    [] x.op = "refill" /\ y.op = "node" -> FALSE
    [] OTHER -> Before(g, x, y)

------------------------------------------------------------------------------
(* An event, and the work that waits for one, counts the other stream's work that
   is in front of it and has not ended. *)
Sooner(n) == IF n = 0 THEN 0 ELSE n - 1

(* The slots block b's plan copies into, of some, in their order. *)
Loaded(b, slots) == {p \in slots : <<b, p>> \notin Unloaded}
UpTo(p, loaded) == Cardinality({q \in loaded : q <= p})
Loads(b, slots) ==
  LET loaded == Loaded(b, slots)
  IN  [i \in 1 .. Cardinality(loaded) |-> CHOOSE p \in loaded : UpTo(p, loaded) = i]

Idle ==
  /\ recorded = {} /\ mark = 0
  /\ installed = 0 /\ hooked = FALSE
  /\ owners = [p \in Params |-> None]
  /\ ready = [p \in Params |-> 0]
  /\ barrier = 0
  /\ block = None /\ ran = {}

RollingInit ==
  /\ graph \in Graphs /\ wraparound \in BOOLEAN
  /\ leased = FALSE
  /\ Idle
  /\ kernels = <<>> /\ copies = <<>>
  /\ mem = [p \in Params |-> None]
  /\ calls = 0 /\ faults = 0

(* What acquire has the prefetch stream copy of block 0. *)
Stages(slots, spoilt) ==
  LET loads == Loads(0, slots)
  IN  [i \in DOMAIN loads |-> [block |-> IF loads[i] = spoilt THEN None ELSE 0, param |-> loads[i], after |-> 0]]

(* acquire stages block 0 on the prefetch stream, and the lease's ready event and
   every slot's follow.  CudaTargetLease.acquire has the current stream wait for
   the first and records that stream, which need not be the one the blocks are
   going to run on; the prefetch stream is recorded in any case.  Installing the
   target in the blocks may raise half way, and leaves what it has done. *)
RollingAcquire ==
  /\ ~leased /\ calls < MaxCalls
  /\ leased' = TRUE
  /\ copies' = Stages(Params, None)
  /\ owners' = [p \in Params |-> 0]
  /\ ready' = [p \in Params |-> Len(copies')]
  /\ mark' = Len(copies')
  /\ \E same \in BOOLEAN :
       /\ recorded' = IF same THEN {"prefetch", "compute"} ELSE {"prefetch"}
       /\ barrier' = IF same THEN Len(copies') ELSE 0
  /\ \/ installed' = NumBlocks /\ hooked' = TRUE /\ UNCHANGED faults
     \/ /\ faults < MaxFaults /\ faults' = faults + 1
        /\ installed' \in 0 .. NumBlocks - 1 /\ hooked' = FALSE
  /\ mem' = [p \in Params |-> None]
  /\ UNCHANGED <<graph, wraparound, kernels, block, ran, calls>>

(* Staging raises when it updates what it has copied.  The lease's ready event is
   recorded behind the copies (stage's finally), no slot's is, and the lease knows
   no stream; the runtime keeps it, and is released by its component. *)
RollingAcquireFails ==
  /\ ~leased /\ calls < MaxCalls
  /\ faults < MaxFaults /\ faults' = faults + 1
  /\ leased' = TRUE
  /\ \E p \in Params : <<0, p>> \notin Unloaded /\ copies' = Stages({q \in Params : q <= p}, p)
  /\ mark' = Len(copies')
  /\ owners' = [p \in Params |-> 0]
  /\ mem' = [p \in Params |-> None]
  /\ UNCHANGED <<graph, wraparound, recorded, installed, hooked, ready, barrier, kernels, block, ran, calls>>

(* CudaTargetLease.close waits for the ready event of the staging and for the
   streams recorded in the lease.  (That it waits for the allocation stream too,
   whatever that is, is not counted on; a synchronization that fails is
   ModelLifecycle's.) *)
Closes ==
  /\ mark = 0
  /\ "compute" \in recorded => kernels = <<>>
  /\ "prefetch" \in recorded => copies = <<>>

(* release removes the hooks, gives the blocks their host parameters back and
   closes the lease. *)
RollingRelease ==
  /\ leased /\ block = None /\ Closes
  /\ leased' = FALSE
  /\ recorded' = {} /\ mark' = 0
  /\ installed' = 0 /\ hooked' = FALSE
  /\ owners' = [p \in Params |-> None]
  /\ ready' = [p \in Params |-> 0]
  /\ barrier' = 0
  /\ UNCHANGED <<graph, wraparound, kernels, copies, mem, block, ran, calls, faults>>

(* _refill, one slot after the other: each copy waits for the kernels issued so
   far, the slot's ready event is recorded behind it, and the slot has a new owner.
   A block that has no source for the slot copies nothing. *)
Refilled(b, slots) ==
  LET loads == Loads(b, slots) IN
  /\ copies' = copies \o [i \in DOMAIN loads |-> [block |-> b, param |-> loads[i], after |-> Len(kernels)]]
  /\ ready' = [p \in Params |-> IF p \in slots THEN Len(copies) + UpTo(p, Loaded(b, slots)) ELSE ready[p]]
  /\ owners' = [p \in Params |-> IF p \in slots THEN b ELSE owners[p]]

(* It raises when it updates what it has copied: the slots before are refilled,
   the slot itself keeps its owner and its ready event. *)
RefillFails(b, slots) ==
  /\ faults < MaxFaults /\ faults' = faults + 1
  /\ \E p \in slots :
       /\ <<b, p>> \notin Unloaded
       /\ LET before == {q \in slots : q < p}
              loads == Loads(b, before \cup {p})
          IN  /\ copies' = copies \o [i \in DOMAIN loads |->
                              [block |-> IF loads[i] = p THEN None ELSE b, param |-> loads[i], after |-> Len(kernels)]]
              /\ ready' = [q \in Params |-> IF q \in before THEN Len(copies) + UpTo(q, Loaded(b, before)) ELSE ready[q]]
              /\ owners' = [q \in Params |-> IF q \in before THEN b ELSE owners[q]]

(* before_block: slots that hold another block's parameter, as when a block was
   skipped or the last one does not wrap around, are refilled in the foreground.
   After an acquisition that raised half way the blocks that have the target may be
   called all the same, and nothing goes before them. *)
BeforeBlock ==
  /\ leased /\ block = None /\ calls < MaxCalls
  /\ calls' = calls + 1
  /\ \E b \in 0 .. installed - 1 :
       LET missing == {p \in Params : hooked /\ owners[p] # b} IN
       \/ Refilled(b, missing) /\ block' = b /\ UNCHANGED faults
       \/ RefillFails(b, missing) /\ block' = None
  /\ ran' = {}
  /\ UNCHANGED <<graph, wraparound, leased, heldVars, barrier, kernels, mem>>

Issue(x) ==
  /\ block # None /\ x \in Operations(graph) \ ran
  /\ \A y \in Operations(graph) \ ran : ~Ordered(graph, y, x)
  /\ ran' = ran \cup {x}
  /\ UNCHANGED <<graph, wraparound, leased, mark, installed, hooked, mem, calls>>

(* MUTANT: the stream that is going to read the slot is not recorded. *)
WaitParamUnrecorded ==
  \E p \in Params :
    /\ Issue(Wait(p))
    /\ barrier' = Max({barrier, ready[p]})
    /\ UNCHANGED <<recorded, owners, ready, kernels, copies, block, faults>>

(* wait_param records the stream the block runs on, and has it wait. *)
WaitParam ==
  \E p \in Params :
    /\ Issue(Wait(p))
    /\ recorded' = recorded \cup {"compute"}
    /\ barrier' = Max({barrier, ready[p]})
    /\ UNCHANGED <<owners, ready, kernels, copies, block, faults>>

RunNode ==
  \E i \in DOMAIN graph :
    /\ Issue(Node(i))
    /\ LET reads == {p \in Touches(graph, i) : <<block, p>> \notin Unloaded} IN
       kernels' = IF reads = {} THEN kernels ELSE Append(kernels, [block |-> block, reads |-> reads, after |-> barrier])
    /\ UNCHANGED <<recorded, owners, ready, barrier, copies, block, faults>>

(* rollover_param: the slot is refilled for the block after its owner. *)
Rollover ==
  \E p \in Params :
    LET next == (owners[p] + 1) % NumBlocks IN
    /\ Issue(Refill(p))
    /\ IF next = 0 /\ ~wraparound
       THEN UNCHANGED <<owners, ready, copies, block, faults>>
       ELSE \/ Refilled(next, {p}) /\ UNCHANGED <<block, faults>>
            \/ RefillFails(next, {p}) /\ block' = None
    /\ UNCHANGED <<recorded, barrier, kernels>>

(* The forward of the block ends, or an exception of the caller's ends it. *)
EndBlock ==
  /\ block # None
  /\ block' = None /\ ran' = {}
  /\ UNCHANGED <<graph, wraparound, leased, heldVars, owners, ready, barrier, kernels, copies, mem, calls, faults>>

------------------------------------------------------------------------------
(* The device: either stream runs its oldest work once what that waits for has
   ended. *)
KernelRuns == kernels # <<>> /\ kernels[1].after = 0
CopyRuns == copies # <<>> /\ copies[1].after = 0

KernelEnds ==
  /\ KernelRuns
  /\ kernels' = Tail(kernels)
  /\ copies' = [i \in DOMAIN copies |-> [copies[i] EXCEPT !.after = Sooner(@)]]
  /\ UNCHANGED <<graph, wraparound, leased, heldVars, owners, ready, barrier, mem, block, ran, calls, faults>>

CopyEnds ==
  /\ CopyRuns
  /\ copies' = Tail(copies)
  /\ kernels' = [i \in DOMAIN kernels |-> [kernels[i] EXCEPT !.after = Sooner(@)]]
  /\ mark' = Sooner(mark) /\ ready' = [p \in Params |-> Sooner(ready[p])] /\ barrier' = Sooner(barrier)
  /\ mem' = [mem EXCEPT ![copies[1].param] = copies[1].block]
  /\ UNCHANGED <<graph, wraparound, leased, recorded, installed, hooked, owners, block, ran, calls, faults>>

RollingNext ==
  \/ RollingAcquire \/ RollingAcquireFails \/ RollingRelease \/ BeforeBlock \/ WaitParam \/ RunNode \/ Rollover \/ EndBlock
  \/ KernelEnds \/ CopyEnds

RollingSpec == RollingInit /\ [][RollingNext]_rollingVars

------------------------------------------------------------------------------
(* While a kernel runs, every slot it reads holds its own block's parameter and
   no copy is writing it, whatever order blocks are called in, however the graph
   was scheduled and wherever a forward was cut short, as long as no acquisition or
   refill has raised (wait_param, rollover_param, before_block, the compiler passes). *)
ReadsItsBlock ==
  faults = 0 /\ KernelRuns =>
    \A p \in kernels[1].reads :
      mem[p] = kernels[1].block /\ ~(CopyRuns /\ copies[1].param = p)

(* When the target is dropped neither stream has work left that touches it: its
   lease has known of every stream that reads or writes it, also after a staging or
   an installation that raised half way, on whichever stream the blocks ran and
   wherever they were cut short (acquire, stage, wait_param, close). *)
ReleasedIsQuiet == ~leased => kernels = <<>> /\ copies = <<>>
===============================================================================
