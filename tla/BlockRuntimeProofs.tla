------------------------- MODULE BlockRuntimeProofs -------------------------
(***************************************************************************)
(* Theorems about the two runtimes that fill a block's target ahead of its *)
(* turn.  StreamingRuntime: the active block and the prefetch never spoil  *)
(* a target for each other, for any number of blocks, targets, layouts and *)
(* failures, and whichever of the two threads gets on first.               *)
(* RollingRuntime: a compiled block reads its own parameters and the two   *)
(* streams never wait for each other, for any graph, any schedule the      *)
(* passes allow, any order of blocks and any number of them in flight.     *)
(***************************************************************************)
EXTENDS StreamingRuntime, RollingRuntime, DataLemmas

-----------------------------------------------------------------------------
(* The inductive invariant *)

\* TypeOK, with "one at most" said without a cardinality.
Single(S) == \A x, y \in S : x = y

TypedLeases ==
    /\ target \in [Leases -> {"none", "open", "closed"}]
    /\ staged \in [Leases -> BOOLEAN] /\ acquired \in [Leases -> BOOLEAN]
    /\ ofWorker \subseteq Leases /\ content \in [Leases -> Blocks \cup {NoBlock}]
    /\ reading \subseteq Leases \cup {StepCopies} /\ lost \in BOOLEAN

TypedTables ==
    /\ held \in [Blocks -> SUBSET Leases] /\ \A b \in Blocks : Single(held[b])
    /\ free \in [Signatures -> SUBSET Leases]

TypedThreads ==
    /\ pc \in {"released", "idle", "partial", "evict", "ensure", "await", "pop", "allocate",
               "fill", "enter", "step", "update", "shutdown", "closing"}
    /\ want \in Blocks \cup {NoBlock} /\ hooks \in BOOLEAN
    /\ active \in Blocks \cup {NoBlock} /\ last \in Blocks \cup {-1}
    /\ pending \subseteq Blocks /\ Single(pending)
    /\ job \in Busy \cup {"none", "done", "failed"} /\ jobFor \in Blocks \cup {NoBlock}
    /\ failures \in 0 .. MaxFailures

Typed == TypedLeases /\ TypedTables /\ TypedThreads

\* Where the targets are: OnePlace, and that those with a block are open.
Places ==
    /\ \A l \in Leases : target[l] # "none" =>
          (\E b \in Blocks : l \in held[b]) \/ (\E g \in Signatures : l \in free[g])
    /\ \A b \in Blocks : \A l \in held[b] : target[l] = "open"
    /\ \A g \in Signatures : \A l \in free[g] : target[l] # "none"
    /\ \A b, c \in Blocks : \A l \in held[b] : l \in held[c] => b = c
    /\ \A b \in Blocks, g \in Signatures : \A l \in held[b] : l \notin free[g]
    /\ \A g, h \in Signatures : \A l \in free[g] : l \in free[h] => g = h
    /\ \A l \in Leases : acquired[l] => active # NoBlock /\ l \in held[active]

\* A target is only closed while the runtime is, with the worker at rest.
Closing ==
    \A l \in Leases : target[l] = "closed" =>
        pc \in {"partial", "shutdown", "closing"} /\ job \notin Busy

\* Where the main thread looks for a target of its own, and where nothing is with a block.
Preparing == {"pop", "allocate", "fill", "enter"}
Emptied == {"step", "update", "closing", "released"}

\* The block of the main thread, and what it has made sure of.
MainStage ==
    /\ pc \in Preparing \cup {"evict", "ensure", "await"} => want \in Blocks
    /\ pc \in Preparing \cup Emptied \cup {"ensure", "await", "partial"} => active = NoBlock
    /\ pc = "evict" => active # NoBlock
    /\ pc \in Preparing \cup {"await"} => want \notin pending
    /\ active \notin pending
    /\ pc \in {"pop", "allocate"} => held[want] = {}
    /\ pc = "allocate" => free[Signature[want]] = {}
    /\ pc \in {"fill", "enter"} => held[want] # {}
    /\ pc \in Emptied => pending = {} /\ job \notin Busy /\ \A b \in Blocks : held[b] = {}
    /\ pc = "released" => \A g \in Signatures : free[g] = {}

\* The prefetch is for the block that is pending, or that the main thread waits for.
Live == jobFor \in pending \/ pc = "await"

WorkerStage ==
    /\ pc = "await" => jobFor = want /\ job # "none"
    /\ pending # {} => jobFor \in pending /\ job # "none"
    /\ job \in Busy => jobFor \in Blocks /\ Live
    /\ job \in {"pop", "allocate"} => held[jobFor] = {}
    /\ job = "fill" \/ (job = "done" /\ Live) => held[jobFor] # {}

\* What is staged, or in use, holds the block's bytes of now.
Ready(b) == \E l \in held[b] : staged[l] /\ content[l] = b
Fresh ==
    /\ pc = "enter" => Ready(want)
    /\ job = "done" /\ Live => Ready(jobFor)
    /\ ForwardReadsItsBytes

\* No copy the host has not waited for is into a target that is gone.
Quiet == ~lost => reading \subseteq Open \cup {StepCopies}

\* The blocks that keep a target for nothing: each is left behind by a failure.
Main == {b \in Blocks : b = active \/ (pc \in {"fill", "enter"} /\ b = want)}
Prefetch == {b \in Blocks : b = jobFor /\ job \in Busy \cup {"done"} /\ Live}
Left == {b \in Blocks : held[b] # {}} \ (Main \cup Prefetch)
Leftovers == Cardinality(Left) <= failures

\* The targets of a layout, and the threads that have found that there are too few.
TargetsOf(g) == free[g] \cup UNION {held[b] : b \in {c \in Blocks : Signature[c] = g}}
Asking(g) ==
    (IF pc = "allocate" /\ Signature[want] = g THEN 1 ELSE 0)
        + (IF job = "allocate" /\ Signature[jobFor] = g THEN 1 ELSE 0)
Counted ==
    \A g \in Signatures :
        IsFiniteSet(TargetsOf(g)) /\ Cardinality(TargetsOf(g)) + Asking(g) <= 2 + failures

\* Where the two threads are, what the targets hold, and how many there are.
Control == Typed /\ Places /\ Closing /\ MainStage /\ WorkerStage
IInv == Control /\ Fresh /\ Quiet /\ Leftovers /\ Counted

-----------------------------------------------------------------------------
(* What the shared operations do *)

\* The block that is expected after b is one of the blocks.
LEMMA ExpectedBlock ==
  ASSUME NEW b \in Blocks
  PROVE  Expected(b) \subseteq Blocks /\ Single(Expected(b))
<1> DEFINE n == (b + Direction(b)) % Number
<1>1. Number \in Nat \ {0} /\ b \in Int
  BY RuntimeAssumption DEF Blocks
<1>2. Direction(b) \in Int
  BY DEF Direction
<1>3. n \in 0 .. Number - 1
  BY <1>1, <1>2
<1> HIDE DEF n
<1>4. Expected(b) \subseteq {n}
  BY DEF Expected, n
<1> QED
  BY <1>3, <1>4 DEF Blocks, Single

\* A prefetch is submitted for one block, not the active one, and only without another.
LEMMA SubmitOne ==
  ASSUME NEW b \in Blocks, Submit(b)
  PROVE  \/ UNCHANGED jobVars
         \/ /\ pending = {}
            /\ \E p \in Blocks : p # active' /\ pending' = {p} /\ job' = "queued" /\ jobFor' = p
<1> DEFINE next == {p \in Expected(b) : MaySubmit(p)}
<1>1. CASE next = {}
  BY <1>1 DEF Submit
<1>2. CASE next # {}
  <2>1. PICK p \in next : jobFor' = p
    BY <1>2 DEF Submit
  <2>2. next = {p} /\ p \in Blocks
    BY <2>1, ExpectedBlock DEF Single
  <2>3. p # active' /\ pending = {}
    BY <2>1 DEF MaySubmit
  <2>4. pending' = pending \cup next /\ job' = "queued"
    BY <1>2 DEF Submit
  <2>5. pending' = {p}
    BY <2>2, <2>3, <2>4
  <2> QED
    BY <2>1, <2>2, <2>3, <2>4, <2>5
<1> QED
  BY <1>1, <1>2

\* Blocks put back lose their targets, which their pools gain.
LEMMA PutBackTables ==
  ASSUME TypedLeases, TypedTables, NEW S \in SUBSET Blocks, PutBack(S)
  PROVE  /\ TypedLeases' /\ TypedTables'
         /\ \A b \in Blocks : held'[b] = IF b \in S THEN {} ELSE held[b]
         /\ \A g \in Signatures : \A l \in Leases :
               l \in free'[g] <=> l \in free[g] \/ \E b \in S : Signature[b] = g /\ l \in held[b]
         /\ \A l \in Leases : acquired'[l] <=> acquired[l] /\ \A b \in S : l \notin held[b]
         /\ \A l \in Leases : (\A b \in S : l \notin held[b]) => content'[l] = content[l]
         /\ UNCHANGED <<target, staged, ofWorker, reading, lost>>
<1> DEFINE back == UNION {held[b] : b \in S}
<1>1. /\ held' = [b \in Blocks |-> IF b \in S THEN {} ELSE held[b]]
      /\ free' = [g \in Signatures |->
                    free[g] \cup UNION {held[b] : b \in {c \in S : Signature[c] = g}}]
      /\ acquired' = [l \in Leases |-> acquired[l] /\ l \notin back]
      /\ content' = [l \in Leases |-> IF l \in back THEN NoBlock ELSE content[l]]
      /\ UNCHANGED <<target, staged, ofWorker, reading, lost>>
  BY DEF PutBack, HeldAfter
<1>2. \A b \in Blocks : held[b] \subseteq Leases /\ Single(held[b])
  BY DEF TypedTables
<1>3. \A g \in Signatures : free[g] \subseteq Leases
  BY DEF TypedTables
<1>4. \A g \in Signatures : UNION {held[b] : b \in {c \in S : Signature[c] = g}} \subseteq Leases
  BY <1>2
<1>5. TypedTables'
  <2>1. held' \in [Blocks -> SUBSET Leases] /\ \A b \in Blocks : Single(held'[b])
    BY <1>1, <1>2 DEF Single
  <2>2. free' \in [Signatures -> SUBSET Leases]
    BY <1>1, <1>3, <1>4
  <2> QED
    BY <2>1, <2>2 DEF TypedTables
<1>6. \A l \in Leases : l \in back <=> \E b \in S : l \in held[b]
  OBVIOUS
<1> HIDE DEF back
<1>7. TypedLeases'
  BY <1>1 DEF TypedLeases
<1>8. \A b \in Blocks : held'[b] = IF b \in S THEN {} ELSE held[b]
  BY <1>1
<1>9. \A g \in Signatures : \A l \in Leases :
         l \in free'[g] <=> l \in free[g] \/ \E b \in S : Signature[b] = g /\ l \in held[b]
  BY <1>1
<1>10. \A l \in Leases : acquired'[l] <=> acquired[l] /\ \A b \in S : l \notin held[b]
  BY <1>1, <1>6
<1>11. \A l \in Leases : (\A b \in S : l \notin held[b]) => content'[l] = content[l]
  BY <1>1, <1>6
<1> QED
  BY <1>1, <1>5, <1>7, <1>8, <1>9, <1>10, <1>11

\* And every target is still in one place.
LEMMA PutBackPlaces ==
  ASSUME TypedLeases, TypedTables, Places, NEW S \in SUBSET Blocks, PutBack(S),
         active # NoBlock => active \in S
  PROVE  Places' /\ \A g \in Signatures : TargetsOf(g)' = TargetsOf(g)
<1>1. /\ \A b \in Blocks : held'[b] = IF b \in S THEN {} ELSE held[b]
      /\ \A g \in Signatures : \A l \in Leases :
            l \in free'[g] <=> l \in free[g] \/ \E b \in S : Signature[b] = g /\ l \in held[b]
      /\ \A l \in Leases : acquired'[l] <=> acquired[l] /\ \A b \in S : l \notin held[b]
      /\ target' = target
      /\ TypedTables'
  BY PutBackTables
<1>2. /\ \A b \in Blocks : held[b] \subseteq Leases
      /\ \A g \in Signatures : free[g] \subseteq Leases /\ free'[g] \subseteq Leases
      /\ \A b \in Blocks : Signature[b] \in Signatures
  BY <1>1, RuntimeAssumption DEF TypedTables
<1>3. \A l \in Leases : target'[l] # "none" =>
         (\E b \in Blocks : l \in held'[b]) \/ (\E g \in Signatures : l \in free'[g])
  <2>1. SUFFICES ASSUME NEW l \in Leases, target[l] # "none"
                 PROVE  (\E b \in Blocks : l \in held'[b]) \/ (\E g \in Signatures : l \in free'[g])
    BY <1>1
  <2>2. CASE \E b \in Blocks : l \in held[b]
    <3>1. PICK b \in Blocks : l \in held[b]
      BY <2>2
    <3>2. b \in S => l \in free'[Signature[b]] /\ Signature[b] \in Signatures
      BY <1>1, <1>2, <3>1
    <3> QED
      BY <1>1, <3>1, <3>2
  <2>3. CASE \E g \in Signatures : l \in free[g]
    BY <1>1, <2>3
  <2> QED
    BY <2>1, <2>2, <2>3 DEF Places
<1>4. \A b \in Blocks : \A l \in held'[b] : target'[l] = "open"
  BY <1>1 DEF Places
<1>5. \A g \in Signatures : \A l \in free'[g] : target'[l] # "none"
  BY <1>1, <1>2 DEF Places
<1>6. \A b, c \in Blocks : \A l \in held'[b] : l \in held'[c] => b = c
  BY <1>1 DEF Places
<1>7. \A b \in Blocks, g \in Signatures : \A l \in held'[b] : l \notin free'[g]
  BY <1>1, <1>2 DEF Places
<1>8. \A g, h \in Signatures : \A l \in free'[g] : l \in free'[h] => g = h
  BY <1>1, <1>2 DEF Places
<1>9. \A l \in Leases : ~acquired'[l]
  BY <1>1 DEF Places
<1>10. Places'
  BY <1>3, <1>4, <1>5, <1>6, <1>7, <1>8, <1>9 DEF Places
<1>11. ASSUME NEW g \in Signatures
       PROVE  TargetsOf(g)' = TargetsOf(g)
  <2>1. TargetsOf(g) \subseteq Leases /\ TargetsOf(g)' \subseteq Leases
    BY <1>1, <1>2 DEF TargetsOf
  <2>2. ASSUME NEW l \in Leases
        PROVE  l \in TargetsOf(g) <=> l \in free[g] \/ \E b \in Blocks : Signature[b] = g /\ l \in held[b]
    BY DEF TargetsOf
  <2>3. ASSUME NEW l \in Leases
        PROVE  l \in TargetsOf(g)' <=> l \in free'[g] \/ \E b \in Blocks : Signature[b] = g /\ l \in held'[b]
    BY DEF TargetsOf
  <2>4. ASSUME NEW l \in Leases
        PROVE  l \in TargetsOf(g)' <=> l \in TargetsOf(g)
    BY <1>1, <2>2, <2>3
  <2> QED
    BY <2>1, <2>4
<1> QED
  BY <1>10, <1>11

\* A block without a target takes one, from its pool or a new one.
LEMMA TakeOne ==
  ASSUME TypedLeases, TypedTables, Places, NEW b \in Blocks, NEW how, NEW w \in BOOLEAN,
         held[b] = {}, Take(how, b, w), active \in Blocks \cup {NoBlock},
         active' = active, active # b, \A l \in Leases : target[l] # "closed"
  PROVE  /\ TypedLeases' /\ TypedTables' /\ Places'
         /\ UNCHANGED <<staged, acquired, content, reading, lost>>
         /\ \E l \in Leases :
               /\ held' = [held EXCEPT ![b] = {l}]
               /\ \A k \in Leases : target[k] = "open" => target'[k] = "open"
               /\ \A k \in Leases : target'[k] = "closed" => target[k] = "closed"
               /\ \/ how = "pop" /\ l \in free[Signature[b]]
                     /\ free' = [free EXCEPT ![Signature[b]] = @ \ {l}] /\ target' = target
                  \/ how = "allocate" /\ l \notin TargetsOf(Signature[b]) /\ free' = free
<1>0. held \in [Blocks -> SUBSET Leases] /\ free \in [Signatures -> SUBSET Leases]
  BY DEF TypedTables
<1>3. Signature[b] \in Signatures
  BY RuntimeAssumption
<1>4. target \in [Leases -> {"none", "open", "closed"}]
  BY DEF TypedLeases
<1>5. \A k \in Leases : acquired[k] => active \in Blocks /\ active # b /\ k \in held[active]
  BY DEF Places
<1>1. CASE how = "pop" /\ Pop(b)
  <2>1. PICK l \in Pool(b) : /\ held' = [held EXCEPT ![b] = {l}]
                             /\ free' = [free EXCEPT ![Signature[b]] = @ \ {l}]
                             /\ UNCHANGED leaseVars
    BY <1>1 DEF Pop
  <2>2. l \in free[Signature[b]] /\ l \in Leases
    BY <1>0, <1>3, <2>1 DEF Pool
  <2>3. /\ \A c \in Blocks : held'[c] = IF c = b THEN {l} ELSE held[c]
        /\ \A g \in Signatures : free'[g] = IF g = Signature[b] THEN free[g] \ {l} ELSE free[g]
        /\ target' = target /\ acquired' = acquired
    BY <1>0, <2>1 DEF leaseVars
  <2>9. \A g \in Signatures : \A k : k \in free'[g] <=> k \in free[g] /\ (g = Signature[b] => k # l)
    BY <2>3
  <2>4. held' \in [Blocks -> SUBSET Leases] /\ free' \in [Signatures -> SUBSET Leases]
    BY <1>0, <1>3, <2>1, <2>2
  <2>5. TypedLeases' /\ TypedTables'
    <3>1. \A c \in Blocks : Single(held'[c])
      BY <2>3 DEF TypedTables, Single
    <3>2. TypedTables'
      BY <2>4, <3>1 DEF TypedTables
    <3> QED
      BY <2>1, <3>2 DEF TypedLeases, leaseVars
  <2>6. /\ target[l] = "open"
        /\ \A c \in Blocks : l \notin held[c]
        /\ \A g \in Signatures : l \in free[g] => g = Signature[b]
    BY <1>3, <1>4, <2>2 DEF Places
  <2>7. Places'
    <3>1. ASSUME NEW k \in Leases, target'[k] # "none"
          PROVE  (\E c \in Blocks : k \in held'[c]) \/ (\E g \in Signatures : k \in free'[g])
      <4>1. CASE k = l
        BY <2>3, <4>1
      <4>2. CASE k # l /\ \E c \in Blocks : k \in held[c]
        BY <2>3, <4>2
      <4>3. CASE k # l /\ \E g \in Signatures : k \in free[g]
        BY <2>3, <4>3
      <4> QED
        BY <2>3, <3>1, <4>1, <4>2, <4>3 DEF Places
    <3>2. \A c \in Blocks : \A k \in held'[c] : target'[k] = "open"
      BY <2>3, <2>6 DEF Places
    <3>3. \A g \in Signatures : \A k \in free'[g] : k \in free[g] /\ target'[k] # "none"
      BY <2>3, <2>9 DEF Places
    <3>4. \A c, d \in Blocks : \A k \in held'[c] : k \in held'[d] => c = d
      BY <2>3, <2>6 DEF Places
    <3>5. ASSUME NEW c \in Blocks, NEW g \in Signatures, NEW k \in held'[c]
          PROVE  k \notin free'[g]
      <4>1. CASE c = b
        BY <2>3, <2>6, <2>9, <4>1
      <4>2. CASE c # b
        BY <2>3, <3>3, <4>2 DEF Places
      <4> QED
        BY <4>1, <4>2
    <3>6. \A g, h \in Signatures : \A k \in free'[g] : k \in free'[h] => g = h
      BY <3>3 DEF Places
    <3>7. \A k \in Leases : acquired'[k] => active' # NoBlock /\ k \in held'[active']
      BY <1>5, <2>3 DEF Places
    <3> QED
      BY <3>1, <3>2, <3>3, <3>4, <3>5, <3>6, <3>7 DEF Places
  <2>8. UNCHANGED <<target, staged, acquired, content, reading, lost>>
    BY <2>1 DEF leaseVars
  <2> QED
    BY <1>1, <2>1, <2>2, <2>5, <2>7, <2>8
<1>2. CASE how = "allocate" /\ Allocate(b, w)
  <2>1. PICK l \in Leases \ reading :
           /\ target[l] = "none" /\ target' = [target EXCEPT ![l] = "open"]
           /\ ofWorker' = IF w THEN ofWorker \cup {l} ELSE ofWorker \ {l}
           /\ held' = [held EXCEPT ![b] = {l}]
           /\ UNCHANGED <<staged, acquired, content, reading, lost, free>>
    BY <1>2 DEF Allocate
  <2>2. /\ \A c \in Blocks : held'[c] = IF c = b THEN {l} ELSE held[c]
        /\ \A k \in Leases : target'[k] = IF k = l THEN "open" ELSE target[k]
        /\ free' = free /\ acquired' = acquired
    BY <1>0, <1>4, <2>1
  <2>3. held' \in [Blocks -> SUBSET Leases]
    BY <1>0, <2>1
  <2>4. TypedLeases' /\ TypedTables'
    <3>2. \A c \in Blocks : Single(held'[c])
      BY <2>2 DEF TypedTables, Single
    <3>3. target' \in [Leases -> {"none", "open", "closed"}] /\ ofWorker' \subseteq Leases
      BY <1>4, <2>1 DEF TypedLeases
    <3>4. TypedTables'
      BY <1>0, <2>2, <2>3, <3>2 DEF TypedTables
    <3> QED
      BY <2>1, <3>3, <3>4 DEF TypedLeases
  <2>5. /\ \A c \in Blocks : l \notin held[c]
        /\ \A g \in Signatures : l \notin free[g]
    BY <2>1 DEF Places
  <2>6. Places'
    <3>1. ASSUME NEW k \in Leases, target'[k] # "none"
          PROVE  (\E c \in Blocks : k \in held'[c]) \/ (\E g \in Signatures : k \in free'[g])
      <4>1. CASE k = l
        BY <2>2, <4>1
      <4>2. CASE k # l
        BY <2>2, <3>1, <4>2 DEF Places
      <4> QED
        BY <4>1, <4>2
    <3>2. \A c \in Blocks : \A k \in held'[c] : target'[k] = "open"
      BY <1>0, <2>2 DEF Places
    <3>3. \A g \in Signatures : \A k \in free'[g] : target'[k] # "none"
      BY <1>0, <2>2 DEF Places
    <3>4. \A c, d \in Blocks : \A k \in held'[c] : k \in held'[d] => c = d
      BY <2>2, <2>5 DEF Places
    <3>5. \A c \in Blocks, g \in Signatures : \A k \in held'[c] : k \notin free'[g]
      BY <2>2, <2>5 DEF Places
    <3>6. \A g, h \in Signatures : \A k \in free'[g] : k \in free'[h] => g = h
      BY <2>2 DEF Places
    <3>7. \A k \in Leases : acquired'[k] => active' # NoBlock /\ k \in held'[active']
      BY <1>5, <2>2 DEF Places
    <3> QED
      BY <3>1, <3>2, <3>3, <3>4, <3>5, <3>6, <3>7 DEF Places
  <2>7. l \notin TargetsOf(Signature[b])
    BY <1>3, <2>5 DEF TargetsOf
  <2>8. /\ \A k \in Leases : target[k] = "open" => target'[k] = "open"
        /\ \A k \in Leases : target'[k] = "closed" => target[k] = "closed"
    BY <2>2
  <2>9. UNCHANGED <<staged, acquired, content, reading, lost>> /\ l \in Leases
    BY <2>1
  <2> QED
    <3>1. /\ l \in Leases /\ held' = [held EXCEPT ![b] = {l}]
          /\ \A k \in Leases : target[k] = "open" => target'[k] = "open"
          /\ \A k \in Leases : target'[k] = "closed" => target[k] = "closed"
          /\ how = "allocate" /\ l \notin TargetsOf(Signature[b]) /\ free' = free
      BY <1>2, <2>1, <2>7, <2>8
    <3> QED
      BY <2>4, <2>6, <2>9, <3>1
<1> QED
  BY <1>1, <1>2 DEF Take

\* What the targets of the other blocks hold does not change.
OthersKept(b) ==
    \A c \in Blocks : \A k \in held[c] : c # b => staged'[k] = staged[k] /\ content'[k] = content[k]

\* Filling a target changes what it holds, and no other target.
LEMMA FillOne ==
  ASSUME TypedLeases, TypedTables, Places, NEW b \in Blocks, NEW ok \in BOOLEAN, NEW w \in BOOLEAN,
         Fill(b, ok, w)
  PROVE  /\ TypedLeases'
         /\ UNCHANGED <<target, acquired, ofWorker, lost>>
         /\ held[b] # {} /\ OthersKept(b)
         /\ ok => \A k \in held[b] : staged'[k] /\ content'[k] = b
         /\ IF ok THEN UNCHANGED failures ELSE Failing
         /\ reading' \subseteq reading \cup held[b]
<1>1. PICK l \in held[b] :
         /\ staged' = [staged EXCEPT ![l] = ok]
         /\ content' = [content EXCEPT ![l] = IF ok THEN b ELSE NoBlock]
         /\ reading' = Reading(l, ok, w)
         /\ IF ok THEN UNCHANGED failures ELSE Failing
         /\ UNCHANGED <<target, acquired, ofWorker, lost>>
  BY DEF Fill
<1>2. l \in Leases /\ \A k \in held[b] : k = l
  BY <1>1 DEF TypedTables, Single
<1>3. staged' \in [Leases -> BOOLEAN] /\ content' \in [Leases -> Blocks \cup {NoBlock}]
  BY <1>1, <1>2 DEF TypedLeases
<1>4. reading' \subseteq reading \cup {l}
  BY <1>1 DEF Reading
<1>5. TypedLeases'
  BY <1>1, <1>2, <1>3, <1>4 DEF TypedLeases
<1>6. \A c \in Blocks : \A k \in held[c] : c # b => k \in Leases /\ k # l
  BY <1>1 DEF Places, TypedTables
<1>7. \A k \in Leases : k # l => staged'[k] = staged[k] /\ content'[k] = content[k]
  BY <1>1 DEF TypedLeases
<1>8. ok => staged'[l] /\ content'[l] = b
  BY <1>1, <1>2 DEF TypedLeases
<1>9. OthersKept(b)
  BY <1>6, <1>7 DEF OthersKept
<1> QED
  BY <1>1, <1>2, <1>4, <1>5, <1>8, <1>9

-----------------------------------------------------------------------------
(* Control is kept *)

\* Steps that leave the targets and the active block alone leave them where they are.
LEMMA SamePlaces ==
  ASSUME TypedLeases, TypedTables, Places, UNCHANGED <<leaseVars, tableVars, active>>
  PROVE  TypedLeases' /\ TypedTables' /\ Places'
<1>1. UNCHANGED <<target, staged, acquired, ofWorker, content, reading, lost, held, free, active>>
  BY DEF leaseVars, tableVars
<1>2. TypedLeases'
  BY <1>1 DEF TypedLeases
<1>3. TypedTables'
  BY <1>1 DEF TypedTables
<1>4. Places'
  BY <1>1 DEF Places
<1> QED
  BY <1>2, <1>3, <1>4

\* A drained runtime has no block with a target and none pending.
LEMMA Drained ==
  ASSUME Control, Drain
  PROVE  /\ TypedLeases' /\ TypedTables' /\ Places'
         /\ \A b \in Blocks : held'[b] = {}
         /\ \A g \in Signatures : TargetsOf(g)' = TargetsOf(g)
         /\ UNCHANGED <<target, staged, reading, lost, job, jobFor>>
         /\ pending' = {} /\ active' = NoBlock /\ job \notin Busy
<1>1. /\ TypedLeases /\ TypedTables /\ Places /\ pending \subseteq Blocks
      /\ active \in Blocks \cup {NoBlock}
  BY DEF Control, Typed, TypedThreads
<1>2. PutBack(Blocks) /\ pending' = pending \ Blocks /\ active' = NoBlock /\ job \notin Busy
      /\ UNCHANGED <<job, jobFor>>
  BY DEF Drain, Evicted, Settled
<1>3. /\ TypedLeases' /\ TypedTables' /\ \A b \in Blocks : held'[b] = {}
      /\ UNCHANGED <<target, staged, reading, lost>>
  BY <1>1, <1>2, PutBackTables
<1>4. Places' /\ \A g \in Signatures : TargetsOf(g)' = TargetsOf(g)
  BY <1>1, <1>2, PutBackPlaces
<1> QED
  BY <1>1, <1>2, <1>3, <1>4

\* The worker finds out whether there is a target for the block, takes one, and fills it.
LEMMA WorkerControl ==
  ASSUME Control, WorkerLooks \/ WorkerTakes \/ \E ok \in BOOLEAN : WorkerFills(ok)
  PROVE  Control'
<1>1. TypedLeases /\ TypedTables /\ TypedThreads /\ Places /\ Closing /\ MainStage /\ WorkerStage
  BY DEF Control, Typed
<1>2. CASE WorkerLooks
  <2>1. /\ job = "queued" /\ job' = Look(jobFor)
        /\ UNCHANGED <<leaseVars, tableVars, active>>
        /\ UNCHANGED <<target, held, free, pc, want, hooks, active, last, pending, jobFor, failures>>
    BY <1>2 DEF WorkerLooks, hookVars, leaseVars, tableVars
  <2>2. job' \in {"pop", "allocate", "fill"} /\ (job' = "fill" <=> held[jobFor] # {})
    BY <2>1 DEF Look
  <2>3. TypedLeases' /\ TypedTables' /\ Places'
    BY <1>1, <2>1, SamePlaces
  <2>4. TypedThreads'
    BY <1>1, <2>1, <2>2 DEF TypedThreads, Busy
  <2>5. Closing'
    BY <1>1, <2>1, <2>2 DEF Closing, Busy
  <2>6. MainStage'
    BY <1>1, <2>1, <2>2 DEF MainStage, Busy
  <2>7. WorkerStage'
    BY <1>1, <2>1, <2>2 DEF WorkerStage, Busy, Live
  <2> QED
    BY <2>3, <2>4, <2>5, <2>6, <2>7 DEF Control, Typed
<1>3. CASE WorkerTakes
  <2>1. /\ job \in {"pop", "allocate"} /\ job \in Busy /\ jobFor \in Blocks /\ Live
        /\ UNCHANGED <<pc, want, hooks, active, last, pending, jobFor>>
    BY <1>1, <1>3 DEF WorkerTakes, Take, TakeFails, Busy, WorkerStage, hookVars
  <2>2. held[jobFor] = {} /\ active # jobFor /\ (\A l \in Leases : target[l] # "closed")
        /\ pc \notin Emptied /\ (pc \in Preparing => want # jobFor)
    BY <1>1, <2>1 DEF WorkerStage, MainStage, Closing, Live, Preparing, Emptied, NoBlock, Blocks
  <2>3. CASE Take(job, jobFor, TRUE) /\ job' = "fill" /\ UNCHANGED failures
    <3>1. active \in Blocks \cup {NoBlock} /\ active' = active
      BY <1>1, <2>1 DEF TypedThreads
    <3>2. TypedLeases' /\ TypedTables' /\ Places'
      BY <1>1, <2>1, <2>2, <2>3, <3>1, TakeOne
    <3>3. \E l \in Leases :
             /\ held' = [held EXCEPT ![jobFor] = {l}]
             /\ \A k \in Leases : target'[k] = "closed" => target[k] = "closed"
             /\ free' = free \/ free' = [free EXCEPT ![Signature[jobFor]] = @ \ {l}]
      <4>1. \E l \in Leases :
               /\ held' = [held EXCEPT ![jobFor] = {l}]
               /\ \A k \in Leases : target[k] = "open" => target'[k] = "open"
               /\ \A k \in Leases : target'[k] = "closed" => target[k] = "closed"
               /\ \/ job = "pop" /\ l \in free[Signature[jobFor]]
                     /\ free' = [free EXCEPT ![Signature[jobFor]] = @ \ {l}] /\ target' = target
                  \/ job = "allocate" /\ l \notin TargetsOf(Signature[jobFor]) /\ free' = free
        BY <1>1, <2>1, <2>2, <2>3, <3>1, TakeOne
      <4> QED
        BY <4>1
    <3>4. PICK l \in Leases :
             /\ held' = [held EXCEPT ![jobFor] = {l}]
             /\ \A k \in Leases : target'[k] = "closed" => target[k] = "closed"
             /\ free' = free \/ free' = [free EXCEPT ![Signature[jobFor]] = @ \ {l}]
      BY <3>3
    <3>5. /\ \A b \in Blocks : held'[b] = IF b = jobFor THEN {l} ELSE held[b]
          /\ \A g \in Signatures : free'[g] \subseteq free[g]
          /\ \A b \in Blocks : Signature[b] \in Signatures
      <4>1. held \in [Blocks -> SUBSET Leases] /\ free \in [Signatures -> SUBSET Leases]
        BY <1>1 DEF TypedTables
      <4>2. \A b \in Blocks : held'[b] = IF b = jobFor THEN {l} ELSE held[b]
        BY <3>4, <4>1
      <4>3. \A g \in Signatures : free'[g] \subseteq free[g]
        BY <3>4, <4>1
      <4> QED
        BY <4>2, <4>3, RuntimeAssumption
    <3>6. TypedThreads'
      BY <1>1, <2>1, <2>3 DEF TypedThreads, Busy
    <3>7. Closing'
      BY <2>2, <3>4 DEF Closing
    <3>8. MainStage'
      <4>1. pc \in Preparing => want \in Blocks /\ want # jobFor
        BY <1>1, <2>2 DEF MainStage
      <4>2. pc \in {"pop", "allocate"} => held'[want] = {}
        BY <1>1, <3>5, <4>1 DEF MainStage, Preparing
      <4>3. pc = "allocate" => free'[Signature[want]] = {}
        BY <1>1, <3>5, <4>1 DEF MainStage, Preparing
      <4>4. pc \in {"fill", "enter"} => held'[want] # {}
        BY <1>1, <3>5, <4>1 DEF MainStage, Preparing
      <4>5. pc \notin Emptied /\ pc # "released"
        BY <2>2 DEF Emptied
      <4> QED
        BY <1>1, <2>1, <4>2, <4>3, <4>4, <4>5 DEF MainStage
    <3>9. WorkerStage'
      BY <1>1, <2>1, <2>3, <3>5 DEF WorkerStage, Busy, Live
    <3> QED
      BY <3>2, <3>6, <3>7, <3>8, <3>9 DEF Control, Typed
  <2>4. CASE TakeFails(job, jobFor) /\ job' = "failed"
    <3>1. /\ UNCHANGED <<leaseVars, tableVars, active>> /\ UNCHANGED <<target, held, free>>
          /\ failures' \in 0 .. MaxFailures
      BY <1>1, <2>1, <2>4, RuntimeAssumption DEF TakeFails, Failing, TypedThreads, leaseVars, tableVars
    <3>2. TypedLeases' /\ TypedTables' /\ Places'
      BY <1>1, <3>1, SamePlaces
    <3>3. TypedThreads'
      BY <1>1, <2>1, <2>4, <3>1 DEF TypedThreads
    <3>4. Closing'
      BY <2>2, <3>1 DEF Closing
    <3>5. MainStage'
      BY <1>1, <2>1, <2>2, <3>1 DEF MainStage, Emptied
    <3>6. WorkerStage'
      BY <1>1, <2>1, <2>4, <3>1 DEF WorkerStage, Busy
    <3> QED
      BY <3>2, <3>3, <3>4, <3>5, <3>6 DEF Control, Typed
  <2> QED
    BY <1>3, <2>3, <2>4 DEF WorkerTakes
<1>4. CASE \E ok \in BOOLEAN : WorkerFills(ok)
  <2>1. PICK ok \in BOOLEAN : WorkerFills(ok)
    BY <1>4
  <2>2. /\ job = "fill" /\ job \in Busy /\ jobFor \in Blocks /\ Live /\ Fill(jobFor, ok, TRUE)
        /\ job' \in {"done", "failed"}
        /\ UNCHANGED <<held, free, pc, want, hooks, active, last, pending, jobFor>>
    BY <1>1, <2>1 DEF WorkerFills, WorkerStage, Busy, tableVars, hookVars
  <2>3. TypedLeases' /\ UNCHANGED <<target, acquired>>
        /\ IF ok THEN UNCHANGED failures ELSE Failing
    <3>1. TypedLeases' /\ UNCHANGED <<target, acquired>>
      BY <1>1, <2>2, FillOne
    <3>2. IF ok THEN UNCHANGED failures ELSE Failing
      BY <2>2 DEF Fill
    <3> QED
      BY <3>1, <3>2
  <2>4. (\A l \in Leases : target[l] # "closed") /\ pc \notin Emptied
    BY <1>1, <2>2 DEF MainStage, Closing
  <2>5. TypedTables' /\ Places'
    <3>1. TypedTables'
      BY <1>1, <2>2 DEF TypedTables
    <3>2. Places'
      BY <1>1, <2>2, <2>3 DEF Places
    <3> QED
      BY <3>1, <3>2
  <2>6. TypedThreads'
    <3>1. failures' \in 0 .. MaxFailures
      BY <1>1, <2>3, RuntimeAssumption DEF TypedThreads, Failing
    <3> QED
      BY <1>1, <2>2, <3>1 DEF TypedThreads
  <2>7. Closing'
    BY <2>3, <2>4 DEF Closing
  <2>8. MainStage'
    BY <1>1, <2>2, <2>4 DEF MainStage, Emptied
  <2>9. WorkerStage'
    BY <1>1, <2>2 DEF WorkerStage, Busy
  <2> QED
    BY <2>3, <2>5, <2>6, <2>7, <2>8, <2>9 DEF Control, Typed
<1> QED
  BY <1>2, <1>3, <1>4

\* The hooks and what they do before they stage a block.
LEMMA HooksControl ==
  ASSUME Control, Acquire \/ (\E b \in Blocks : Hook(b)) \/ HookAgain \/ Evict \/ Await \/ Awaited
  PROVE  Control'
<1>1. TypedLeases /\ TypedTables /\ TypedThreads /\ Places /\ Closing /\ MainStage /\ WorkerStage
  BY DEF Control, Typed
<1>2. CASE Acquire
  <2>1. /\ pc = "released" /\ pc' = "ensure" /\ want' = 0
        /\ UNCHANGED <<leaseVars, tableVars, active>>
        /\ UNCHANGED <<target, held, free, hooks, active, last, pending, job, jobFor, failures>>
    BY <1>2 DEF Acquire, leaseVars, tableVars, jobVars
  <2>2. 0 \in Blocks
    BY RuntimeAssumption DEF Blocks
  <2>3. TypedLeases' /\ TypedTables' /\ Places'
    BY <1>1, <2>1, SamePlaces
  <2>4. TypedThreads'
    BY <1>1, <2>1, <2>2 DEF TypedThreads
  <2>5. \A l \in Leases : target[l] # "closed"
    BY <1>1, <2>1 DEF Closing
  <2>6. Closing'
    BY <2>1, <2>5 DEF Closing
  <2>7. MainStage'
    BY <1>1, <2>1, <2>2 DEF MainStage, Preparing, Emptied
  <2>8. WorkerStage'
    BY <1>1, <2>1 DEF WorkerStage, Live
  <2> QED
    BY <2>3, <2>4, <2>6, <2>7, <2>8 DEF Control, Typed
<1>3. ASSUME NEW b \in Blocks, Hook(b)
      PROVE  Control'
  <2>1. /\ pc = "idle" /\ pc' = (IF active = NoBlock THEN "ensure" ELSE "evict") /\ want' = b
        /\ UNCHANGED <<leaseVars, tableVars, active>>
        /\ UNCHANGED <<target, held, free, hooks, active, last, pending, job, jobFor, failures>>
    BY <1>3 DEF Hook, leaseVars, tableVars, jobVars
  <2>2. TypedLeases' /\ TypedTables' /\ Places'
    BY <1>1, <2>1, SamePlaces
  <2>3. TypedThreads'
    BY <1>1, <2>1 DEF TypedThreads
  <2>4. \A l \in Leases : target[l] # "closed"
    BY <1>1, <2>1 DEF Closing
  <2>5. Closing'
    BY <2>1, <2>4 DEF Closing
  <2>6. MainStage'
    BY <1>1, <2>1 DEF MainStage, Preparing, Emptied
  <2>7. WorkerStage'
    BY <1>1, <2>1 DEF WorkerStage, Live
  <2> QED
    BY <2>2, <2>3, <2>5, <2>6, <2>7 DEF Control, Typed
<1>4. CASE HookAgain
  <2>1. /\ pc = "idle" /\ active \in Blocks /\ last' = active /\ active' = active /\ Submit(active)
        /\ UNCHANGED <<leaseVars, tableVars, active>>
        /\ UNCHANGED <<target, held, free, pc, want, hooks, active, failures>>
    BY <1>1, <1>4 DEF HookAgain, leaseVars, tableVars, TypedThreads
  <2>2. \/ UNCHANGED jobVars
        \/ /\ pending = {}
           /\ \E p \in Blocks : p # active' /\ pending' = {p} /\ job' = "queued" /\ jobFor' = p
    BY <2>1, SubmitOne
  <2>3. TypedLeases' /\ TypedTables' /\ Places'
    BY <1>1, <2>1, SamePlaces
  <2>4. TypedThreads'
    BY <1>1, <2>1, <2>2 DEF TypedThreads, jobVars, Busy, Single
  <2>5. \A l \in Leases : target[l] # "closed"
    BY <1>1, <2>1 DEF Closing
  <2>6. Closing'
    BY <2>1, <2>5 DEF Closing
  <2>7. MainStage'
    BY <1>1, <2>1, <2>2 DEF MainStage, Preparing, Emptied, jobVars
  <2>8. WorkerStage'
    BY <1>1, <2>1, <2>2 DEF WorkerStage, Live, jobVars
  <2> QED
    BY <2>3, <2>4, <2>6, <2>7, <2>8 DEF Control, Typed
<1>5. CASE Evict
  <2>1. /\ pc = "evict" /\ pc' = "ensure" /\ PutBack({active}) /\ active' = NoBlock
        /\ UNCHANGED <<want, hooks, last, pending, job, jobFor, failures>>
    BY <1>5 DEF Evict, jobVars
  <2>2. active \in Blocks /\ want \in Blocks
    BY <1>1, <2>1 DEF MainStage, TypedThreads
  <2>3. /\ TypedLeases' /\ TypedTables'
        /\ \A b \in Blocks : held'[b] = IF b \in {active} THEN {} ELSE held[b]
        /\ target' = target
    BY <1>1, <2>1, <2>2, PutBackTables
  <2>4. Places'
    BY <1>1, <2>1, <2>2, PutBackPlaces
  <2>5. TypedThreads'
    BY <1>1, <2>1 DEF TypedThreads
  <2>6. \A l \in Leases : target[l] # "closed"
    BY <1>1, <2>1 DEF Closing
  <2>7. Closing'
    BY <2>3, <2>6 DEF Closing
  <2>8. NoBlock \notin pending
    BY <1>1 DEF TypedThreads, Blocks, NoBlock
  <2>9. MainStage'
    BY <2>1, <2>2, <2>8 DEF MainStage, Preparing, Emptied
  <2>10. WorkerStage'
    <3>1. job \in Busy => jobFor \in pending
      BY <1>1, <2>1 DEF WorkerStage, Live
    <3>2. jobFor \in pending => jobFor \in Blocks /\ held'[jobFor] = held[jobFor]
      BY <1>1, <2>3 DEF MainStage, TypedThreads
    <3>3. job \in {"pop", "allocate", "fill"} => job \in Busy
      BY DEF Busy
    <3> QED
      BY <1>1, <2>1, <3>1, <3>2, <3>3 DEF WorkerStage, Live
  <2> QED
    BY <2>3, <2>4, <2>5, <2>7, <2>9, <2>10 DEF Control, Typed
<1>6. CASE Await
  <2>1. /\ pc = "ensure" /\ want \in pending /\ pending' = pending \ {want} /\ pc' = "await"
        /\ UNCHANGED <<leaseVars, tableVars, active>>
        /\ UNCHANGED <<target, held, free, want, hooks, active, last, job, jobFor, failures>>
    BY <1>6 DEF Await, leaseVars, tableVars, hookVars
  <2>2. pending' = {} /\ jobFor = want /\ want \in Blocks
    BY <1>1, <2>1 DEF TypedThreads, Single, WorkerStage
  <2>3. TypedLeases' /\ TypedTables' /\ Places'
    BY <1>1, <2>1, SamePlaces
  <2>4. TypedThreads'
    BY <1>1, <2>1, <2>2 DEF TypedThreads, Single
  <2>5. \A l \in Leases : target[l] # "closed"
    BY <1>1, <2>1 DEF Closing
  <2>6. Closing'
    BY <2>1, <2>5 DEF Closing
  <2>7. MainStage'
    BY <1>1, <2>1, <2>2 DEF MainStage, Preparing, Emptied
  <2>8. WorkerStage'
    BY <1>1, <2>1, <2>2 DEF WorkerStage, Live
  <2> QED
    BY <2>3, <2>4, <2>6, <2>7, <2>8 DEF Control, Typed
<1>7. CASE Awaited
  <2>1. /\ pc = "await" /\ job \notin Busy /\ jobFor = want /\ want \in Blocks
        /\ \/ job = "failed" /\ pc' = "idle" /\ want' = NoBlock
           \/ job = "done" /\ pc' = "enter" /\ want' = want
        /\ job' = "none" /\ jobFor' = NoBlock
        /\ UNCHANGED <<leaseVars, tableVars, active>>
        /\ UNCHANGED <<target, held, free, hooks, active, last, pending, failures>>
    BY <1>1, <1>7 DEF Awaited, Settled, leaseVars, tableVars, WorkerStage, MainStage, TypedThreads
  <2>2. pending = {} /\ want \notin pending /\ active = NoBlock
    <3>1. want \notin pending /\ active = NoBlock
      BY <1>1, <2>1 DEF MainStage
    <3> QED
      BY <1>1, <2>1, <3>1 DEF WorkerStage
  <2>3. TypedLeases' /\ TypedTables' /\ Places'
    BY <1>1, <2>1, SamePlaces
  <2>4. TypedThreads'
    BY <1>1, <2>1 DEF TypedThreads
  <2>5. \A l \in Leases : target[l] # "closed"
    BY <1>1, <2>1 DEF Closing
  <2>6. Closing'
    BY <2>1, <2>5 DEF Closing
  <2>7. MainStage'
    <3>1. job = "done" => held[want] # {}
      BY <1>1, <2>1 DEF WorkerStage, Live
    <3> QED
      BY <2>1, <2>2, <3>1 DEF MainStage, Preparing, Emptied
  <2>8. WorkerStage'
    BY <2>1, <2>2 DEF WorkerStage, Live, Busy
  <2> QED
    BY <2>3, <2>4, <2>6, <2>7, <2>8 DEF Control, Typed
<1> QED
  BY <1>2, <1>3, <1>4, <1>5, <1>6, <1>7

\* The main thread stages a block by itself, and the block becomes the active one.
LEMMA StagingControl ==
  ASSUME Control, Looks \/ Takes \/ (\E ok \in BOOLEAN : Fills(ok)) \/ Enter
  PROVE  Control'
<1>1. TypedLeases /\ TypedTables /\ TypedThreads /\ Places /\ Closing /\ MainStage /\ WorkerStage
  BY DEF Control, Typed
<1>2. CASE Looks
  <2>1. /\ pc = "ensure" /\ pc' = Look(want) /\ want \notin pending /\ want \in Blocks
        /\ UNCHANGED <<leaseVars, tableVars, active>>
        /\ UNCHANGED <<target, held, free, want, hooks, active, last, pending, job, jobFor, failures>>
    BY <1>1, <1>2 DEF Looks, leaseVars, tableVars, hookVars, jobVars, MainStage
  <2>2. /\ pc' \in {"pop", "allocate", "fill"} /\ (pc' = "fill" <=> held[want] # {})
        /\ pc' = "allocate" => free[Signature[want]] = {}
    BY <2>1 DEF Look, Pool
  <2>3. TypedLeases' /\ TypedTables' /\ Places'
    BY <1>1, <2>1, SamePlaces
  <2>4. TypedThreads'
    BY <1>1, <2>1, <2>2 DEF TypedThreads
  <2>5. \A l \in Leases : target[l] # "closed"
    BY <1>1, <2>1 DEF Closing
  <2>6. Closing'
    BY <2>1, <2>5 DEF Closing
  <2>7. MainStage'
    BY <1>1, <2>1, <2>2 DEF MainStage, Preparing, Emptied
  <2>8. WorkerStage'
    BY <1>1, <2>1, <2>2 DEF WorkerStage, Live
  <2> QED
    BY <2>3, <2>4, <2>6, <2>7, <2>8 DEF Control, Typed
<1>3. CASE Takes
  <2>1. /\ pc \in {"pop", "allocate"} /\ want \in Blocks /\ want \notin pending
        /\ active = NoBlock /\ held[want] = {} /\ (job \in Busy => jobFor \in pending)
        /\ UNCHANGED <<hooks, active, last, pending, job, jobFor>>
    BY <1>1, <1>3 DEF Takes, Take, TakeFails, MainStage, WorkerStage, Live, Preparing, jobVars
  <2>2. (\A l \in Leases : target[l] # "closed") /\ active # want
    BY <1>1, <2>1 DEF Closing, Blocks, NoBlock
  <2>3. CASE Take(pc, want, FALSE) /\ pc' = "fill" /\ UNCHANGED <<want, failures>>
    <3>1. active \in Blocks \cup {NoBlock} /\ active' = active
      BY <1>1, <2>1 DEF TypedThreads
    <3>2. TypedLeases' /\ TypedTables' /\ Places'
      BY <1>1, <2>1, <2>2, <2>3, <3>1, TakeOne
    <3>3. \E l \in Leases :
             /\ held' = [held EXCEPT ![want] = {l}]
             /\ \A k \in Leases : target[k] = "open" => target'[k] = "open"
             /\ \A k \in Leases : target'[k] = "closed" => target[k] = "closed"
             /\ \/ pc = "pop" /\ l \in free[Signature[want]]
                   /\ free' = [free EXCEPT ![Signature[want]] = @ \ {l}] /\ target' = target
                \/ pc = "allocate" /\ l \notin TargetsOf(Signature[want]) /\ free' = free
      BY <1>1, <2>1, <2>2, <2>3, <3>1, TakeOne
    <3>4. \E l \in Leases :
             /\ held' = [held EXCEPT ![want] = {l}]
             /\ \A k \in Leases : target'[k] = "closed" => target[k] = "closed"
      BY <3>3
    <3>5. PICK l \in Leases :
             /\ held' = [held EXCEPT ![want] = {l}]
             /\ \A k \in Leases : target'[k] = "closed" => target[k] = "closed"
      BY <3>4
    <3>6. \A b \in Blocks : held'[b] = IF b = want THEN {l} ELSE held[b]
      BY <1>1, <3>5 DEF TypedTables
    <3>7. TypedThreads'
      BY <1>1, <2>1, <2>3 DEF TypedThreads
    <3>8. Closing'
      BY <2>2, <3>5 DEF Closing
    <3>9. MainStage'
      <4>1. held'[want] # {} /\ active \notin pending
        BY <1>1, <2>1, <3>6 DEF MainStage
      <4> QED
        BY <2>1, <2>3, <4>1 DEF MainStage, Preparing, Emptied
    <3>10. WorkerStage'
      <4>1. job \in {"pop", "allocate", "fill"} => job \in Busy
        BY DEF Busy
      <4>2. jobFor \in pending => jobFor \in Blocks /\ held'[jobFor] = held[jobFor]
        BY <1>1, <2>1, <3>6 DEF TypedThreads
      <4> QED
        BY <1>1, <2>1, <2>3, <4>1, <4>2 DEF WorkerStage, Live
    <3> QED
      BY <3>2, <3>7, <3>8, <3>9, <3>10 DEF Control, Typed
  <2>4. CASE TakeFails(pc, want) /\ pc' = Raised /\ want' = NoBlock
    <3>1. /\ UNCHANGED <<leaseVars, tableVars, active>> /\ UNCHANGED <<target, held, free>>
          /\ failures' \in 0 .. MaxFailures
      BY <1>1, <2>1, <2>4, RuntimeAssumption DEF TakeFails, Failing, TypedThreads, leaseVars, tableVars
    <3>2. TypedLeases' /\ TypedTables' /\ Places'
      BY <1>1, <3>1, SamePlaces
    <3>3. TypedThreads'
      BY <1>1, <2>1, <2>4, <3>1 DEF TypedThreads, Raised
    <3>4. Closing'
      BY <2>2, <3>1 DEF Closing
    <3>5. MainStage'
      BY <1>1, <2>1, <2>4, <3>1 DEF MainStage, Raised, Preparing, Emptied
    <3>6. WorkerStage'
      BY <1>1, <2>1, <2>4, <3>1 DEF WorkerStage, Live, Raised
    <3> QED
      BY <3>2, <3>3, <3>4, <3>5, <3>6 DEF Control, Typed
  <2> QED
    BY <1>3, <2>3, <2>4 DEF Takes
<1>4. CASE \E ok \in BOOLEAN : Fills(ok)
  <2>1. PICK ok \in BOOLEAN : Fills(ok)
    BY <1>4
  <2>2. /\ pc = "fill" /\ want \in Blocks /\ want \notin pending /\ active = NoBlock
        /\ held[want] # {} /\ Fill(want, ok, FALSE)
        /\ \/ pc' = "enter" /\ want' = want
           \/ pc' = Raised /\ want' = NoBlock
        /\ UNCHANGED <<held, free, hooks, active, last, pending, job, jobFor>>
    BY <1>1, <2>1 DEF Fills, MainStage, Preparing, tableVars, jobVars
  <2>3. TypedLeases' /\ UNCHANGED <<target, acquired>>
        /\ IF ok THEN UNCHANGED failures ELSE Failing
    <3>1. TypedLeases' /\ UNCHANGED <<target, acquired>>
      BY <1>1, <2>2, FillOne
    <3>2. IF ok THEN UNCHANGED failures ELSE Failing
      BY <2>2 DEF Fill
    <3> QED
      BY <3>1, <3>2
  <2>4. \A l \in Leases : target[l] # "closed"
    BY <1>1, <2>2 DEF Closing
  <2>5. TypedTables' /\ Places'
    <3>1. TypedTables'
      BY <1>1, <2>2 DEF TypedTables
    <3>2. Places'
      BY <1>1, <2>2, <2>3 DEF Places
    <3> QED
      BY <3>1, <3>2
  <2>6. TypedThreads'
    <3>1. failures' \in 0 .. MaxFailures
      BY <1>1, <2>3, RuntimeAssumption DEF TypedThreads, Failing
    <3> QED
      BY <1>1, <2>2, <3>1 DEF TypedThreads, Raised
  <2>7. Closing'
    BY <2>3, <2>4 DEF Closing
  <2>8. MainStage'
    BY <1>1, <2>2 DEF MainStage, Raised, Preparing, Emptied
  <2>9. WorkerStage'
    BY <1>1, <2>2 DEF WorkerStage, Live, Raised
  <2> QED
    BY <2>3, <2>5, <2>6, <2>7, <2>8, <2>9 DEF Control, Typed
<1>5. CASE Enter
  <2>1. PICK l \in held[want] :
           /\ staged[l] /\ ~acquired[l]
           /\ staged' = [staged EXCEPT ![l] = FALSE]
           /\ acquired' = [acquired EXCEPT ![l] = TRUE]
    BY <1>5 DEF Enter
  <2>2. /\ pc = "enter" /\ pc' = "idle" /\ active' = want /\ want' = NoBlock /\ hooks' = TRUE
        /\ want \in Blocks /\ want \notin pending /\ active = NoBlock /\ l \in Leases
        /\ \/ last' = want /\ Submit(want)
           \/ UNCHANGED <<last, jobVars>>
        /\ UNCHANGED <<target, ofWorker, content, reading, lost, held, free, failures>>
    BY <1>1, <1>5, <2>1 DEF Enter, MainStage, Preparing, tableVars, TypedTables
  <2>3. \/ UNCHANGED jobVars
        \/ /\ pending = {}
           /\ \E p \in Blocks : p # active' /\ pending' = {p} /\ job' = "queued" /\ jobFor' = p
    BY <2>2, SubmitOne DEF jobVars
  <2>4. TypedLeases'
    BY <1>1, <2>1, <2>2 DEF TypedLeases
  <2>5. TypedTables'
    BY <1>1, <2>2 DEF TypedTables
  <2>6. Places'
    <3>1. \A k \in Leases : ~acquired[k]
      BY <1>1, <2>2 DEF Places
    <3>2. \A k \in Leases : acquired'[k] => k = l
      BY <1>1, <2>1, <3>1 DEF TypedLeases
    <3>3. \A k \in Leases : acquired'[k] => active' # NoBlock /\ k \in held'[active']
      BY <2>1, <2>2, <3>2 DEF Blocks, NoBlock
    <3> QED
      BY <1>1, <2>2, <3>3 DEF Places
  <2>7. TypedThreads'
    <3>1. last' \in Blocks \cup {-1}
      BY <1>1, <2>2 DEF TypedThreads
    <3>2. /\ pending' \subseteq Blocks /\ Single(pending')
          /\ job' \in Busy \cup {"none", "done", "failed"} /\ jobFor' \in Blocks \cup {NoBlock}
      BY <1>1, <2>3 DEF TypedThreads, jobVars, Busy, Single
    <3> QED
      BY <1>1, <2>2, <3>1, <3>2 DEF TypedThreads
  <2>8. \A k \in Leases : target[k] # "closed"
    BY <1>1, <2>2 DEF Closing
  <2>9. Closing'
    BY <2>2, <2>8 DEF Closing
  <2>10. MainStage'
    BY <1>1, <2>2, <2>3 DEF MainStage, Preparing, Emptied, jobVars
  <2>11. WorkerStage'
    BY <1>1, <2>2, <2>3 DEF WorkerStage, Live, jobVars
  <2> QED
    BY <2>4, <2>5, <2>6, <2>7, <2>9, <2>10, <2>11 DEF Control, Typed
<1> QED
  BY <1>2, <1>3, <1>4, <1>5

\* The optimizer step and release, which begin by putting every target back.
LEMMA StepControl ==
  ASSUME Control, BeginStep \/ LoadTrainables \/ Scatter
  PROVE  Control'
<1>1. TypedLeases /\ TypedTables /\ TypedThreads /\ Places /\ Closing /\ MainStage /\ WorkerStage
  BY DEF Control, Typed
<1>2. CASE BeginStep
  <2>1. /\ pc = "idle" /\ Drain /\ pc' \in {"idle", "step"}
        /\ UNCHANGED <<want, hooks, last, failures>>
    BY <1>2 DEF BeginStep
  <2>2. /\ TypedLeases' /\ TypedTables' /\ Places'
        /\ \A b \in Blocks : held'[b] = {}
        /\ UNCHANGED <<target, job, jobFor>>
        /\ pending' = {} /\ active' = NoBlock /\ job \notin Busy
    BY <2>1, Drained
  <2>3. TypedThreads'
    BY <1>1, <2>1, <2>2 DEF TypedThreads, Single
  <2>4. \A l \in Leases : target[l] # "closed"
    BY <1>1, <2>1 DEF Closing
  <2>5. Closing'
    BY <2>2, <2>4 DEF Closing
  <2>6. MainStage'
    BY <2>1, <2>2 DEF MainStage, Preparing, Emptied
  <2>7. WorkerStage'
    BY <2>1, <2>2 DEF WorkerStage, Live, Busy
  <2> QED
    BY <2>2, <2>3, <2>5, <2>6, <2>7 DEF Control, Typed
<1>3. CASE LoadTrainables \/ Scatter
  <2>1. /\ pc \in {"step", "update"} /\ pc' \in {"update", "idle"}
        /\ content' \in [Leases -> Blocks \cup {NoBlock}]
        /\ reading' \subseteq Leases \cup {StepCopies}
        /\ failures' \in 0 .. MaxFailures
        /\ UNCHANGED <<target, staged, acquired, ofWorker, lost, held, free>>
        /\ UNCHANGED <<want, hooks, active, last, pending, job, jobFor>>
    <3>1. CASE LoadTrainables
      BY <1>1, <3>1, RuntimeAssumption
         DEF LoadTrainables, Failing, TypedLeases, TypedThreads, tableVars, hookVars, jobVars
    <3>2. CASE Scatter
      BY <1>1, <3>2, RuntimeAssumption
         DEF Scatter, Failing, TypedLeases, TypedThreads, tableVars, hookVars, jobVars
    <3> QED
      BY <1>3, <3>1, <3>2
  <2>2. TypedLeases'
    BY <1>1, <2>1 DEF TypedLeases
  <2>3. TypedTables'
    BY <1>1, <2>1 DEF TypedTables
  <2>4. Places'
    BY <1>1, <2>1 DEF Places
  <2>5. TypedThreads'
    BY <1>1, <2>1 DEF TypedThreads
  <2>6. \A l \in Leases : target[l] # "closed"
    BY <1>1, <2>1 DEF Closing
  <2>7. Closing'
    BY <2>1, <2>6 DEF Closing
  <2>8. MainStage'
    BY <1>1, <2>1 DEF MainStage, Preparing, Emptied
  <2>9. WorkerStage'
    BY <1>1, <2>1 DEF WorkerStage, Live
  <2> QED
    BY <2>2, <2>3, <2>4, <2>5, <2>7, <2>8, <2>9 DEF Control, Typed
<1> QED
  BY <1>2, <1>3

\* Release closes the targets of the pool and forgets them.
LEMMA ReleaseControl ==
  ASSUME Control, Release \/ ShutDown \/ CloseNext \/ Released
  PROVE  Control'
<1>1. TypedLeases /\ TypedTables /\ TypedThreads /\ Places /\ Closing /\ MainStage /\ WorkerStage
  BY DEF Control, Typed
<1>2. CASE Release
  <2>1. /\ pc \in {"idle", "partial"} /\ pc' = "shutdown" /\ hooks' = FALSE
        /\ UNCHANGED <<leaseVars, tableVars, active>>
        /\ UNCHANGED <<target, held, free, want, active, last, pending, job, jobFor, failures>>
    BY <1>2 DEF Release, leaseVars, tableVars, jobVars
  <2>2. TypedLeases' /\ TypedTables' /\ Places'
    BY <1>1, <2>1, SamePlaces
  <2>3. TypedThreads'
    BY <1>1, <2>1 DEF TypedThreads
  <2>4. Closing'
    BY <1>1, <2>1 DEF Closing
  <2>5. MainStage'
    BY <1>1, <2>1 DEF MainStage, Preparing, Emptied
  <2>6. WorkerStage'
    BY <1>1, <2>1 DEF WorkerStage, Live
  <2> QED
    BY <2>2, <2>3, <2>4, <2>5, <2>6 DEF Control, Typed
<1>3. CASE ShutDown
  <2>1. /\ pc = "shutdown" /\ Drain /\ pc' = "closing"
        /\ UNCHANGED <<want, hooks, last, failures>>
    BY <1>3 DEF ShutDown
  <2>2. /\ TypedLeases' /\ TypedTables' /\ Places'
        /\ \A b \in Blocks : held'[b] = {}
        /\ UNCHANGED <<target, job, jobFor>>
        /\ pending' = {} /\ active' = NoBlock /\ job \notin Busy
    BY <2>1, Drained
  <2>3. TypedThreads'
    BY <1>1, <2>1, <2>2 DEF TypedThreads, Single
  <2>4. Closing'
    BY <2>1, <2>2 DEF Closing
  <2>5. MainStage'
    BY <2>1, <2>2 DEF MainStage, Preparing, Emptied
  <2>6. WorkerStage'
    BY <2>1, <2>2 DEF WorkerStage, Live, Busy
  <2> QED
    BY <2>2, <2>3, <2>4, <2>5, <2>6 DEF Control, Typed
<1>4. CASE CloseNext
  <2>1. PICK l \in Pooled :
           /\ target[l] = "open" /\ target' = [target EXCEPT ![l] = "closed"]
           /\ staged' = [staged EXCEPT ![l] = FALSE]
           /\ \/ reading' = QuietBy(l) /\ UNCHANGED <<pc, lost, failures>>
              \/ Failing /\ pc' = "partial" /\ lost' = TRUE /\ UNCHANGED reading
    BY <1>4 DEF CloseNext
  <2>2. /\ pc = "closing" /\ pc' \in {"closing", "partial"}
        /\ UNCHANGED <<acquired, ofWorker, content, held, free>>
        /\ UNCHANGED <<want, hooks, active, last, pending, job, jobFor>>
    BY <1>4, <2>1 DEF CloseNext, tableVars, hookVars, jobVars
  <2>3. l \in Leases
    BY <1>1, <2>1 DEF Pooled, TypedTables
  <2>4. \A k \in Leases : target'[k] = IF k = l THEN "closed" ELSE target[k]
    BY <1>1, <2>1, <2>3 DEF TypedLeases
  <2>5. active = NoBlock /\ job \notin Busy /\ \A b \in Blocks : held[b] = {}
    BY <1>1, <2>2 DEF MainStage, Emptied
  <2>6. TypedLeases'
    <3>1. reading' \subseteq Leases \cup {StepCopies} /\ lost' \in BOOLEAN
      BY <1>1, <2>1 DEF TypedLeases, QuietBy
    <3> QED
      BY <1>1, <2>1, <2>2, <3>1 DEF TypedLeases
  <2>7. TypedTables'
    BY <1>1, <2>2 DEF TypedTables
  <2>8. Places'
    <3>1. \A g \in Signatures : free[g] \subseteq Leases
      BY <1>1 DEF TypedTables
    <3>2. \A k \in Leases : target'[k] # "none" => target[k] # "none"
      BY <2>1, <2>4
    <3>3. \A g \in Signatures : \A k \in free[g] : target'[k] # "none"
      BY <1>1, <2>4, <3>1 DEF Places
    <3>4. \A k \in Leases : target'[k] # "none" => \E g \in Signatures : k \in free[g]
      BY <1>1, <2>5, <3>2 DEF Places
    <3> QED
      BY <1>1, <2>2, <2>5, <3>3, <3>4 DEF Places
  <2>9. TypedThreads'
    <3>1. failures' \in 0 .. MaxFailures
      BY <1>1, <2>1, RuntimeAssumption DEF TypedThreads, Failing
    <3> QED
      BY <1>1, <2>2, <3>1 DEF TypedThreads
  <2>10. Closing'
    BY <2>2, <2>5 DEF Closing
  <2>11. MainStage'
    BY <1>1, <2>2, <2>5 DEF MainStage, Preparing, Emptied
  <2>12. WorkerStage'
    BY <1>1, <2>2, <2>5 DEF WorkerStage, Live, Busy
  <2> QED
    BY <2>6, <2>7, <2>8, <2>9, <2>10, <2>11, <2>12 DEF Control, Typed
<1>5. CASE Released
  <2>1. /\ pc = "closing" /\ pc' = "released" /\ last' = -1
        /\ target' = [l \in Leases |-> IF l \in Pooled THEN "none" ELSE target[l]]
        /\ ofWorker' = ofWorker \ Pooled
        /\ content' = [l \in Leases |-> IF l \in Pooled THEN NoBlock ELSE content[l]]
        /\ free' = [g \in Signatures |-> {}]
        /\ job' = "none" /\ jobFor' = NoBlock
        /\ UNCHANGED <<staged, acquired, reading, lost, want, hooks, active, held, pending, failures>>
    BY <1>5 DEF Released
  <2>2. active = NoBlock /\ pending = {} /\ \A b \in Blocks : held[b] = {}
    BY <1>1, <2>1 DEF MainStage, Emptied
  <2>3. \A l \in Leases : target'[l] = "none"
    <3>1. \A l \in Leases : target[l] # "none" => l \in Pooled
      BY <1>1, <2>2 DEF Places, Pooled
    <3> QED
      BY <2>1, <3>1
  <2>4. TypedLeases'
    BY <1>1, <2>1 DEF TypedLeases
  <2>5. TypedTables'
    BY <1>1, <2>1 DEF TypedTables
  <2>6. Places'
    BY <1>1, <2>1, <2>2, <2>3 DEF Places
  <2>7. TypedThreads'
    BY <1>1, <2>1 DEF TypedThreads
  <2>8. Closing'
    BY <2>3 DEF Closing
  <2>9. MainStage'
    BY <1>1, <2>1, <2>2 DEF MainStage, Preparing, Emptied, Busy
  <2>10. WorkerStage'
    BY <2>1, <2>2 DEF WorkerStage, Live, Busy
  <2> QED
    BY <2>4, <2>5, <2>6, <2>7, <2>8, <2>9, <2>10 DEF Control, Typed
<1> QED
  BY <1>2, <1>3, <1>4, <1>5

\* Control is an invariant's step.
LEMMA ControlStep ==
  ASSUME Control, [Next]_vars
  PROVE  Control'
<1>1. CASE Next
  <2>1. CASE WorkerLooks \/ WorkerTakes \/ \E ok \in BOOLEAN : WorkerFills(ok)
    BY <2>1, WorkerControl
  <2>2. CASE Acquire \/ (\E b \in Blocks : Hook(b)) \/ HookAgain \/ Evict \/ Await \/ Awaited
    BY <2>2, HooksControl
  <2>3. CASE Looks \/ Takes \/ (\E ok \in BOOLEAN : Fills(ok)) \/ Enter
    BY <2>3, StagingControl
  <2>4. CASE BeginStep \/ LoadTrainables \/ Scatter
    BY <2>4, StepControl
  <2>5. CASE Release \/ ShutDown \/ CloseNext \/ Released
    BY <2>5, ReleaseControl
  <2> QED
    BY <1>1, <2>1, <2>2, <2>3, <2>4, <2>5 DEF Next
<1>2. CASE UNCHANGED vars
  <2>1. UNCHANGED <<target, staged, acquired, ofWorker, content, reading, lost, held, free>>
        /\ UNCHANGED <<pc, want, hooks, active, last, pending, job, jobFor, failures>>
    BY <1>2 DEF vars, leaseVars, tableVars, hookVars, jobVars
  <2>2. Typed'
    BY <2>1 DEF Control, Typed, TypedLeases, TypedTables, TypedThreads
  <2>3. Places'
    BY <2>1 DEF Control, Places
  <2>4. Closing'
    BY <2>1 DEF Control, Closing
  <2>5. MainStage'
    BY <2>1 DEF Control, MainStage
  <2>6. WorkerStage'
    BY <2>1 DEF Control, WorkerStage, Live
  <2> QED
    BY <2>2, <2>3, <2>4, <2>5, <2>6 DEF Control
<1> QED
  BY <1>1, <1>2

-----------------------------------------------------------------------------
(* What the targets hold *)

\* A target of another block holds what it held.
LEMMA OthersReady ==
  ASSUME NEW b \in Blocks, Ready(b), held'[b] = held[b],
         \A k \in held[b] : staged'[k] = staged[k] /\ content'[k] = content[k]
  PROVE  \E l \in held'[b] : staged'[l] /\ content'[l] = b
BY DEF Ready

\* What is staged or in use holds the present bytes of its block, whatever a step does.
LEMMA FreshStep ==
  ASSUME Control, Fresh, Next
  PROVE  Fresh'
<1>1. TypedLeases /\ TypedTables /\ TypedThreads /\ Places /\ MainStage /\ WorkerStage
  BY DEF Control, Typed
<1>2. /\ job \in Busy \cup {"done"} /\ Live => jobFor \in Blocks /\ jobFor # active
      /\ job \in Busy /\ Live /\ pc = "enter" => jobFor # want
      /\ job \in Busy \cup {"done"} /\ Live /\ pc \in Preparing => jobFor # want /\ jobFor \in pending
      /\ active \in Blocks \cup {NoBlock}
  BY <1>1 DEF TypedThreads, MainStage, WorkerStage, Live, Preparing, Blocks, NoBlock
<1>3. \A b, c \in Blocks : \A k \in held[b] : k \in Leases /\ (k \in held[c] => b = c)
  BY <1>1 DEF Places, TypedTables
<1>4. CASE WorkerLooks \/ Acquire \/ (\E b \in Blocks : Hook(b)) \/ HookAgain \/ Await \/ Awaited
           \/ Looks \/ Release
  <2>1. UNCHANGED <<held, staged, content, acquired, active>>
    BY <1>4 DEF WorkerLooks, Acquire, Hook, HookAgain, Await, Awaited, Looks, Release,
                leaseVars, tableVars, hookVars
  <2>2. pc' = "enter" => Ready(want')
    <3>1. CASE Awaited
      BY <1>1, <3>1 DEF Fresh, Awaited, WorkerStage, Live, Settled, TypedThreads
    <3>2. CASE ~Awaited
      <4>1. pc' = "enter" => pc = "enter" /\ want' = want
        BY <1>4, <3>2 DEF WorkerLooks, Acquire, Hook, HookAgain, Await, Looks, Look, Release, hookVars
      <4> QED
        BY <4>1 DEF Fresh
    <3> QED
      BY <3>1, <3>2
  <2>3. job' = "done" /\ Live' => Ready(jobFor')
    <3>1. CASE HookAgain
      <4>1. active \in Blocks /\ Submit(active) /\ pc' = pc
        BY <1>1, <3>1 DEF HookAgain, TypedThreads
      <4>2. UNCHANGED jobVars \/ job' = "queued"
        BY <4>1, SubmitOne
      <4> QED
        BY <4>1, <4>2 DEF Fresh, Live, jobVars
    <3>2. CASE ~HookAgain
      BY <1>1, <1>4, <3>2 DEF Fresh, WorkerLooks, Acquire, Hook, Await, Awaited, Looks, Look,
                        Release, WorkerStage, Live, jobVars
    <3> QED
      BY <3>1, <3>2
  <2> QED
    BY <2>1, <2>2, <2>3 DEF Fresh, Ready, ForwardReadsItsBytes
<1>5. CASE BeginStep \/ LoadTrainables \/ Scatter \/ ShutDown \/ CloseNext \/ Released
  <2>1. pc' \notin {"enter", "await"}
    BY <1>5 DEF BeginStep, LoadTrainables, Scatter, ShutDown, CloseNext, Released
  <2>2. active' = NoBlock /\ pending' = {}
    <3>1. CASE BeginStep \/ ShutDown
      BY <3>1, Drained DEF BeginStep, ShutDown
    <3>2. CASE LoadTrainables \/ Scatter \/ CloseNext \/ Released
      BY <1>1, <3>2 DEF LoadTrainables, Scatter, CloseNext, Released, MainStage, Emptied,
                        hookVars, jobVars
    <3> QED
      BY <1>5, <3>1, <3>2
  <2> QED
    BY <2>1, <2>2 DEF Fresh, Live, ForwardReadsItsBytes
<1>6. CASE WorkerTakes
  <2>1. /\ job \in {"pop", "allocate"} /\ job \in Busy /\ Live /\ job' \in {"fill", "failed"}
        /\ UNCHANGED <<pc, want, active, jobFor>>
    BY <1>1, <1>6 DEF WorkerTakes, Take, TakeFails, Busy, WorkerStage, hookVars
  <2>2. /\ UNCHANGED <<staged, content, acquired>>
        /\ \A b \in Blocks : b # jobFor => held'[b] = held[b]
    BY <1>1, <1>2, <1>6, <2>1 DEF WorkerTakes, Take, Pop, Allocate, TakeFails, leaseVars, tableVars,
                      TypedTables
  <2>3. pc = "enter" => want \in Blocks /\ want # jobFor
    BY <1>1, <1>2, <2>1 DEF MainStage, Preparing
  <2> QED
    BY <1>2, <2>1, <2>2, <2>3 DEF Fresh, Ready, ForwardReadsItsBytes
<1>7. CASE \E ok \in BOOLEAN : WorkerFills(ok)
  <2>1. PICK ok \in BOOLEAN : WorkerFills(ok)
    BY <1>7
  <2>2. /\ job = "fill" /\ job \in Busy /\ jobFor \in Blocks /\ Live /\ Fill(jobFor, ok, TRUE)
        /\ job' = IF ok THEN "done" ELSE "failed"
        /\ UNCHANGED <<held, pc, want, active, jobFor>>
    BY <1>1, <2>1 DEF WorkerFills, WorkerStage, Busy, tableVars, hookVars
  <2>3. /\ held[jobFor] # {} /\ acquired' = acquired
        /\ \A c \in Blocks : \A k \in held[c] : c # jobFor =>
              staged'[k] = staged[k] /\ content'[k] = content[k]
        /\ ok => \A k \in held[jobFor] : staged'[k] /\ content'[k] = jobFor
    <3>1. held[jobFor] # {} /\ acquired' = acquired
      BY <1>1, <2>2, FillOne
    <3>2. OthersKept(jobFor)
      BY <1>1, <2>2, FillOne
    <3>3. ok => \A k \in held[jobFor] : staged'[k] /\ content'[k] = jobFor
      BY <1>1, <2>2, FillOne
    <3> QED
      BY <3>1, <3>2, <3>3 DEF OthersKept
  <2>4. pc = "enter" => want \in Blocks /\ want # jobFor
    BY <1>1, <1>2, <2>2 DEF MainStage, Preparing
  <2>5. (pc = "enter" => Ready(want))'
    BY <2>2, <2>3, <2>4 DEF Fresh, Ready
  <2>6. (job = "done" /\ Live => Ready(jobFor))'
    BY <2>2, <2>3 DEF Ready
  <2>7. ForwardReadsItsBytes'
    BY <1>2, <2>2, <2>3 DEF Fresh, ForwardReadsItsBytes
  <2> QED
    BY <2>5, <2>6, <2>7 DEF Fresh
<1>8. CASE Evict
  <2>1. /\ pc' = "ensure" /\ PutBack({active}) /\ active' = NoBlock /\ active \in Blocks
        /\ UNCHANGED <<pending, job, jobFor>> /\ pc # "await"
    BY <1>1, <1>8 DEF Evict, jobVars, MainStage, TypedThreads
  <2>2. /\ \A b \in Blocks : held'[b] = IF b \in {active} THEN {} ELSE held[b]
        /\ \A l \in Leases : (\A b \in {active} : l \notin held[b]) => content'[l] = content[l]
        /\ staged' = staged
    BY <1>1, <2>1, PutBackTables
  <2>3. job = "done" /\ Live => jobFor \in Blocks /\ jobFor # active /\ Ready(jobFor)
    BY <1>2 DEF Fresh
  <2>4. job = "done" /\ Live => \E l \in held'[jobFor] : staged'[l] /\ content'[l] = jobFor
    BY <1>3, <2>1, <2>2, <2>3, OthersReady
  <2> QED
    BY <2>1, <2>4 DEF Fresh, Live, Ready, ForwardReadsItsBytes
<1>9. CASE Takes
  <2>1. /\ pc \in Preparing /\ pc' \notin {"enter", "await"} /\ active' = NoBlock
        /\ UNCHANGED <<pending, job, jobFor>>
    BY <1>1, <1>9 DEF Takes, Take, TakeFails, MainStage, Preparing, jobVars, Raised
  <2>2. /\ UNCHANGED <<staged, content>>
        /\ \A b \in Blocks : b # want => held'[b] = held[b]
    BY <1>1, <1>9, <2>1 DEF Takes, Take, Pop, Allocate, TakeFails, leaseVars, tableVars,
                      TypedTables, MainStage
  <2>3. (job = "done" /\ Live)' => jobFor \in Blocks /\ jobFor # want /\ Ready(jobFor)
    BY <1>2, <2>1 DEF Fresh, Live
  <2> QED
    BY <2>1, <2>2, <2>3 DEF Fresh, Ready, ForwardReadsItsBytes
<1>10. CASE \E ok \in BOOLEAN : Fills(ok)
  <2>1. PICK ok \in BOOLEAN : Fills(ok)
    BY <1>10
  <2>2. /\ pc = "fill" /\ pc \in Preparing /\ want \in Blocks /\ active' = NoBlock
        /\ Fill(want, ok, FALSE)
        /\ \/ ok /\ pc' = "enter" /\ want' = want
           \/ ~ok /\ pc' = Raised /\ want' = NoBlock
        /\ UNCHANGED <<held, pending, job, jobFor>>
    BY <1>1, <2>1 DEF Fills, MainStage, Preparing, tableVars, jobVars
  <2>3. /\ held[want] # {}
        /\ \A c \in Blocks : \A k \in held[c] : c # want =>
              staged'[k] = staged[k] /\ content'[k] = content[k]
        /\ ok => \A k \in held[want] : staged'[k] /\ content'[k] = want
    <3>1. held[want] # {} /\ acquired' = acquired
      BY <1>1, <2>2, FillOne
    <3>2. OthersKept(want)
      BY <1>1, <2>2, FillOne
    <3>3. ok => \A k \in held[want] : staged'[k] /\ content'[k] = want
      BY <1>1, <2>2, FillOne
    <3> QED
      BY <3>1, <3>2, <3>3 DEF OthersKept
  <2>4. (pc = "enter" => Ready(want))'
    BY <2>2, <2>3 DEF Ready, Raised
  <2>5. (job = "done" /\ Live)' => jobFor \in Blocks /\ jobFor # want /\ Ready(jobFor)
    BY <1>2, <2>2 DEF Fresh, Live, Raised
  <2>6. (job = "done" /\ Live => Ready(jobFor))'
    BY <2>2, <2>3, <2>5 DEF Ready
  <2> QED
    BY <2>2, <2>4, <2>6 DEF Fresh, ForwardReadsItsBytes
<1>11. CASE Enter
  <2>1. PICK l \in held[want] :
           /\ staged[l] /\ ~acquired[l]
           /\ staged' = [staged EXCEPT ![l] = FALSE]
           /\ acquired' = [acquired EXCEPT ![l] = TRUE]
    BY <1>11 DEF Enter
  <2>2. /\ pc = "enter" /\ pc \in Preparing /\ pc' = "idle" /\ active' = want
        /\ want \in Blocks
        /\ UNCHANGED jobVars \/ Submit(want)
        /\ UNCHANGED <<content, held>>
    BY <1>1, <1>11, <2>1 DEF Enter, MainStage, Preparing, tableVars
  <2>3. UNCHANGED jobVars \/ job' = "queued"
    BY <2>2, SubmitOne
  <2>4. \A k \in held[want] : k = l
    BY <1>1, <2>1, <2>2 DEF TypedTables, Single
  <2>5. l \in Leases /\ content[l] = want
    BY <1>1, <2>1, <2>2, <2>4 DEF Fresh, Ready, TypedTables
  <2>6. ForwardReadsItsBytes'
    BY <1>1, <2>1, <2>2, <2>5 DEF ForwardReadsItsBytes, TypedLeases
  <2>7. ASSUME (job = "done" /\ Live)'
        PROVE  Ready(jobFor)'
    <3>1. job = "done" /\ jobFor' = jobFor /\ jobFor \in Blocks /\ jobFor # want /\ Ready(jobFor)
      BY <1>2, <2>2, <2>3, <2>7 DEF Fresh, Live, jobVars
    <3>2. \A k \in held[jobFor] : k \in Leases /\ k # l
      BY <1>3, <2>1, <2>2, <3>1
    <3>3. \A k \in held[jobFor] : staged'[k] = staged[k] /\ content'[k] = content[k]
      BY <1>1, <2>1, <2>2, <3>2 DEF TypedLeases
    <3> QED
      BY <2>2, <3>1, <3>3 DEF Ready
  <2> QED
    BY <2>2, <2>6, <2>7 DEF Fresh
<1> QED
  BY <1>4, <1>5, <1>6, <1>7, <1>8, <1>9, <1>10, <1>11 DEF Next

\* Copies are waited for before their target is gone.
LEMMA QuietStep ==
  ASSUME Control, Quiet, Next
  PROVE  Quiet'
<1>1. TypedLeases /\ TypedTables /\ TypedThreads /\ Places /\ MainStage /\ WorkerStage
  BY DEF Control, Typed
<1>2. CASE \/ WorkerLooks \/ Acquire \/ (\E b \in Blocks : Hook(b)) \/ HookAgain \/ Evict \/ Await
           \/ Awaited \/ Looks \/ Enter \/ BeginStep \/ LoadTrainables \/ Scatter \/ Release \/ ShutDown
  <2>1. UNCHANGED <<target, lost>>
    BY <1>2 DEF WorkerLooks, Acquire, Hook, HookAgain, Evict, Await, Awaited, Looks, Enter, BeginStep,
                LoadTrainables, Scatter, Release, ShutDown, Drain, PutBack, leaseVars
  <2>2. reading' \subseteq reading \cup {StepCopies}
    BY <1>2 DEF WorkerLooks, Acquire, Hook, HookAgain, Evict, Await, Awaited, Looks, Enter, BeginStep,
                LoadTrainables, Scatter, Release, ShutDown, Drain, PutBack, leaseVars
  <2> QED
    BY <2>1, <2>2 DEF Quiet, Open
<1>3. CASE WorkerTakes \/ Takes
  <2>1. UNCHANGED <<reading, lost>>
    BY <1>3 DEF WorkerTakes, Takes, Take, TakeFails, Pop, Allocate, leaseVars
  <2>2. \A l \in Leases : target[l] = "open" => target'[l] = "open"
    <3>1. target' = target \/ \E l \in Leases : target' = [target EXCEPT ![l] = "open"]
      BY <1>3 DEF WorkerTakes, Takes, Take, TakeFails, Pop, Allocate, leaseVars
    <3> QED
      BY <1>1, <3>1 DEF TypedLeases
  <2> QED
    BY <2>1, <2>2 DEF Quiet, Open
<1>4. CASE (\E ok \in BOOLEAN : WorkerFills(ok)) \/ \E ok \in BOOLEAN : Fills(ok)
  <2>1. \E b \in Blocks, ok, w \in BOOLEAN : Fill(b, ok, w)
    <3>1. CASE \E ok \in BOOLEAN : WorkerFills(ok)
      BY <1>1, <3>1 DEF WorkerFills, WorkerStage, Busy
    <3>2. CASE \E ok \in BOOLEAN : Fills(ok)
      BY <1>1, <3>2 DEF Fills, MainStage, Preparing
    <3> QED
      BY <1>4, <3>1, <3>2
  <2>2. PICK b \in Blocks, ok \in BOOLEAN, w \in BOOLEAN : Fill(b, ok, w)
    BY <2>1
  <2>3. reading' \subseteq reading \cup held[b] /\ UNCHANGED <<target, lost>>
    BY <1>1, <2>2, FillOne
  <2>4. held[b] \subseteq Open
    BY <1>1 DEF Places, TypedTables, Open
  <2> QED
    BY <2>3, <2>4 DEF Quiet, Open
<1>5. CASE CloseNext
  <2>1. PICK l \in Pooled :
           /\ target[l] = "open" /\ target' = [target EXCEPT ![l] = "closed"]
           /\ \/ reading' = QuietBy(l) /\ UNCHANGED <<pc, lost, failures>>
              \/ Failing /\ pc' = "partial" /\ lost' = TRUE /\ UNCHANGED reading
    BY <1>5 DEF CloseNext
  <2>2. ~lost' => ~lost /\ reading' \subseteq reading \ {l}
    BY <2>1 DEF QuietBy
  <2>3. \A k \in Leases : k # l => target'[k] = target[k]
    BY <1>1, <2>1 DEF TypedLeases
  <2> QED
    BY <2>2, <2>3 DEF Quiet, Open
<1>6. CASE Released
  <2>1. UNCHANGED <<reading, lost>> /\ pc = "closing" /\ \A l \in Pooled : target[l] = "closed"
    BY <1>6 DEF Released
  <2>2. \A b \in Blocks : held[b] = {}
    BY <1>1, <2>1 DEF MainStage, Emptied
  <2>3. Open = {}
    BY <1>1, <2>1, <2>2 DEF Places, Pooled, Open
  <2> QED
    BY <2>1, <2>3 DEF Quiet
<1> QED
  BY <1>2, <1>3, <1>4, <1>5, <1>6 DEF Next

-----------------------------------------------------------------------------
(* How many targets there are *)

\* A set that grew by one element at most has one more at most.
LEMMA GrownByOne ==
  ASSUME NEW S, NEW T, NEW x, IsFiniteSet(S), T \subseteq S \cup {x}
  PROVE  IsFiniteSet(T) /\ Cardinality(T) <= Cardinality(S) + 1
<1>1. IsFiniteSet(S \cup {x}) /\ Cardinality(S \cup {x}) <= Cardinality(S) + 1
  <2>1. Cardinality(S) \in Nat
    BY FS_CardinalityType
  <2> QED
    BY <2>1, FS_AddElement
<1>2. IsFiniteSet(T) /\ Cardinality(T) <= Cardinality(S \cup {x})
  BY <1>1, FS_Subset
<1> QED
  BY <1>1, <1>2, FS_CardinalityType

\* The blocks are finitely many, and so are those of any kind.
LEMMA BlocksFinite ==
  ASSUME NEW S \in SUBSET Blocks
  PROVE  IsFiniteSet(S) /\ Cardinality(S) \in Nat
<1>1. IsFiniteSet(Blocks)
  BY RuntimeAssumption, FS_Interval DEF Blocks
<1> QED
  BY <1>1, FS_Subset, FS_CardinalityType

\* Failures are only counted up, and only within their bound.
LEMMA FailuresGrow ==
  ASSUME Control, Next
  PROVE  failures \in Nat /\ failures' \in Nat /\ failures' \in {failures, failures + 1}
<1>1. failures \in Nat
  BY DEF Control, Typed, TypedThreads
<1>2. failures' = failures \/ failures' = failures + 1
  <2>1. CASE WorkerLooks \/ WorkerTakes \/ \E ok \in BOOLEAN : WorkerFills(ok)
    BY <2>1 DEF WorkerLooks, WorkerTakes, WorkerFills, TakeFails, Fill, Failing
  <2>2. CASE Acquire \/ (\E b \in Blocks : Hook(b)) \/ HookAgain \/ Evict \/ Await \/ Awaited
    BY <2>2 DEF Acquire, Hook, HookAgain, Evict, Await, Awaited
  <2>3. CASE Looks \/ Takes \/ (\E ok \in BOOLEAN : Fills(ok)) \/ Enter
    BY <2>3 DEF Looks, Takes, Fills, Enter, TakeFails, Fill, Failing
  <2>4. CASE BeginStep \/ LoadTrainables \/ Scatter
    BY <2>4 DEF BeginStep, LoadTrainables, Scatter, Failing
  <2>5. CASE Release \/ ShutDown \/ CloseNext \/ Released
    BY <2>5 DEF Release, ShutDown, CloseNext, Released, Failing
  <2> QED
    BY <2>1, <2>2, <2>3, <2>4, <2>5 DEF Next
<1> QED
  BY <1>1, <1>2

\* A block that keeps a target for nothing was left behind by the failure of its copy.
LEMMA LeftByFailure ==
  ASSUME Control, Next
  PROVE  \/ Left' \subseteq Left
         \/ failures' = failures + 1 /\ \E b \in Blocks : Left' \subseteq Left \cup {b}
<1>1. TypedLeases /\ TypedTables /\ TypedThreads /\ Places /\ MainStage /\ WorkerStage
  BY DEF Control, Typed
<1>2. CASE WorkerLooks \/ Acquire \/ (\E b \in Blocks : Hook(b)) \/ Await \/ Awaited \/ Looks \/ Release
  <2>1. UNCHANGED <<held, active>>
    BY <1>2 DEF WorkerLooks, Acquire, Hook, Await, Awaited, Looks, Release, tableVars, hookVars
  <2>2. ASSUME NEW b \in Blocks, b \in Main
        PROVE  b \in Main'
    BY <1>2, <2>1, <2>2 DEF Main, WorkerLooks, Acquire, Hook, Await, Awaited, Looks, Look, Release,
                            hookVars
  <2>3. ASSUME NEW b \in Blocks, b \in Prefetch
        PROVE  b \in Prefetch' \cup Main'
    <3>1. CASE WorkerLooks
      BY <2>3, <3>1 DEF Prefetch, WorkerLooks, Look, Busy, Live
    <3>2. CASE Awaited
      BY <1>1, <2>3, <3>2 DEF Prefetch, Main, Awaited, Settled, Busy, Live, WorkerStage
    <3>3. CASE Await
      BY <1>1, <2>3, <3>3 DEF Prefetch, Await, Live, WorkerStage
    <3>4. CASE Acquire \/ (\E c \in Blocks : Hook(c)) \/ Looks \/ Release
      BY <2>3, <3>4 DEF Prefetch, Acquire, Hook, Looks, Look, Release, Live, jobVars
    <3> QED
      BY <1>2, <3>1, <3>2, <3>3, <3>4
  <2> QED
    BY <2>1, <2>2, <2>3 DEF Left
<1>3. CASE HookAgain
  <2>1. /\ active \in Blocks /\ Submit(active) /\ active' = active /\ pc = "idle"
        /\ UNCHANGED <<held, pc, want>>
    BY <1>1, <1>3 DEF HookAgain, TypedThreads, tableVars
  <2>2. UNCHANGED jobVars \/ pending = {}
    BY <2>1, SubmitOne
  <2>3. Main' = Main /\ (Prefetch = {} \/ Prefetch' = Prefetch)
    BY <2>1, <2>2 DEF Main, Prefetch, Live, jobVars
  <2> QED
    BY <2>1, <2>3 DEF Left
<1>4. CASE Evict
  <2>1. /\ pc = "evict" /\ pc' = "ensure" /\ PutBack({active}) /\ active \in Blocks
        /\ UNCHANGED <<want, pending, job, jobFor>>
    BY <1>1, <1>4 DEF Evict, MainStage, TypedThreads, jobVars
  <2>2. \A b \in Blocks : held'[b] = IF b \in {active} THEN {} ELSE held[b]
    BY <1>1, <2>1, PutBackTables
  <2> QED
    BY <2>1, <2>2 DEF Left, Main, Prefetch, Live
<1>5. CASE Enter
  <2>1. /\ pc = "enter" /\ pc' = "idle" /\ active' = want /\ want \in Blocks /\ active = NoBlock
        /\ UNCHANGED jobVars \/ Submit(want)
        /\ held' = held
    BY <1>1, <1>5 DEF Enter, MainStage, Preparing, tableVars
  <2>2. UNCHANGED jobVars \/ pending = {}
    BY <2>1, SubmitOne
  <2>3. Prefetch = {} \/ Prefetch' = Prefetch
    BY <2>1, <2>2 DEF Prefetch, Live, jobVars
  <2>4. ASSUME NEW b \in Blocks, b \in Main
        PROVE  b \in Main'
    BY <2>1, <2>4 DEF Main, Blocks, NoBlock
  <2> QED
    BY <2>1, <2>3, <2>4 DEF Left
<1>6. CASE WorkerTakes
  <2>1. /\ job \in {"pop", "allocate"} /\ job \in Busy /\ Live /\ jobFor \in Blocks /\ held[jobFor] = {}
        /\ UNCHANGED <<pc, want, active, pending, jobFor>>
    BY <1>1, <1>6 DEF WorkerTakes, Take, TakeFails, Busy, WorkerStage, hookVars
  <2>2. \A b \in Blocks : b # jobFor => held'[b] = held[b]
    BY <1>1, <1>6, <2>1 DEF WorkerTakes, Take, Pop, Allocate, TakeFails, tableVars, TypedTables
  <2>3. (job' = "fill" \/ held'[jobFor] = {}) /\ job' \in {"fill", "failed"}
    BY <1>6, <2>1 DEF WorkerTakes, TakeFails, tableVars
  <2>4. ASSUME NEW b \in Blocks, b \in Left'
        PROVE  b \in Left
    <3>1. b # jobFor
      BY <2>1, <2>3, <2>4 DEF Left, Prefetch, Busy, Live
    <3> QED
      BY <2>1, <2>2, <2>4, <3>1 DEF Left, Main, Prefetch
  <2> QED
    BY <2>4 DEF Left
<1>7. CASE Takes
  <2>1. /\ pc \in {"pop", "allocate"} /\ want \in Blocks /\ held[want] = {} /\ active' = active
        /\ UNCHANGED <<pending, job, jobFor>> /\ pc' # "await"
    BY <1>1, <1>7 DEF Takes, Take, TakeFails, MainStage, Preparing, jobVars, Raised
  <2>2. \A b \in Blocks : b # want => held'[b] = held[b]
    BY <1>1, <1>7, <2>1 DEF Takes, Take, Pop, Allocate, TakeFails, tableVars, TypedTables
  <2>3. (pc' = "fill" /\ want' = want) \/ held'[want] = {}
    BY <1>7, <2>1 DEF Takes, TakeFails, tableVars
  <2>4. ASSUME NEW b \in Blocks, b \in Left'
        PROVE  b \in Left
    <3>1. b # want
      BY <2>1, <2>3, <2>4 DEF Left, Main
    <3> QED
      BY <2>1, <2>2, <2>4, <3>1 DEF Left, Main, Prefetch, Live
  <2> QED
    BY <2>4 DEF Left
<1>8. CASE \E ok \in BOOLEAN : WorkerFills(ok)
  <2>1. PICK ok \in BOOLEAN : WorkerFills(ok)
    BY <1>8
  <2>2. /\ job = "fill" /\ jobFor \in Blocks /\ job' = IF ok THEN "done" ELSE "failed"
        /\ UNCHANGED <<held, pc, want, active, pending, jobFor>>
        /\ ok \/ failures' = failures + 1
    BY <1>1, <2>1 DEF WorkerFills, WorkerStage, Busy, tableVars, hookVars, Fill, Failing
  <2>3. CASE ok
    BY <2>2, <2>3 DEF Left, Main, Prefetch, Live, Busy
  <2>4. CASE ~ok
    <3>1. Left' \subseteq Left \cup {jobFor}
      BY <2>2 DEF Left, Main, Prefetch
    <3> QED
      BY <2>2, <2>4, <3>1
  <2> QED
    BY <2>3, <2>4
<1>9. CASE \E ok \in BOOLEAN : Fills(ok)
  <2>1. PICK ok \in BOOLEAN : Fills(ok)
    BY <1>9
  <2>2. /\ pc = "fill" /\ want \in Blocks
        /\ \/ ok /\ pc' = "enter" /\ want' = want
           \/ ~ok /\ pc' = Raised /\ failures' = failures + 1
        /\ UNCHANGED <<held, active, pending, job, jobFor>>
    BY <1>1, <2>1 DEF Fills, MainStage, Preparing, tableVars, jobVars, Fill, Failing
  <2>3. CASE ok
    BY <2>2, <2>3 DEF Left, Main, Prefetch, Live
  <2>4. CASE ~ok
    <3>1. Left' \subseteq Left \cup {want}
      BY <2>2, <2>4 DEF Left, Main, Prefetch, Live, Raised
    <3> QED
      BY <2>2, <2>4, <3>1
  <2> QED
    BY <2>3, <2>4
<1>10. CASE BeginStep \/ LoadTrainables \/ Scatter \/ ShutDown \/ CloseNext \/ Released
  <2>1. \A b \in Blocks : held'[b] = {}
    <3>1. CASE BeginStep \/ ShutDown
      BY <3>1, Drained DEF BeginStep, ShutDown
    <3>2. CASE LoadTrainables \/ Scatter \/ CloseNext \/ Released
      BY <1>1, <3>2 DEF LoadTrainables, Scatter, CloseNext, Released, MainStage, Emptied, tableVars
    <3> QED
      BY <1>10, <3>1, <3>2
  <2> QED
    BY <2>1 DEF Left
<1> QED
  BY <1>2, <1>3, <1>4, <1>5, <1>6, <1>7, <1>8, <1>9, <1>10 DEF Next

\* There are never more of them than failures.
LEMMA LeftoversStep ==
  ASSUME Control, Leftovers, Next
  PROVE  Leftovers'
<1>1. failures \in Nat /\ failures' \in {failures, failures + 1}
  BY FailuresGrow
<1>2. IsFiniteSet(Left) /\ Cardinality(Left) \in Nat
  <2>1. Left \in SUBSET Blocks
    BY DEF Left
  <2> QED
    BY <2>1, BlocksFinite
<1>3. Left' \subseteq Blocks
  BY DEF Left
<1>4. Cardinality(Left') \in Nat
  <2> DEFINE L == Left'
  <2>1. L \in SUBSET Blocks
    BY <1>3
  <2> HIDE DEF L
  <2>2. Cardinality(L) \in Nat
    BY <2>1, BlocksFinite
  <2> QED
    BY <2>2 DEF L
<1>5. CASE Left' \subseteq Left
  <2>1. Cardinality(Left') <= Cardinality(Left)
    BY <1>2, <1>5, FS_Subset
  <2> QED
    BY <1>1, <1>2, <1>4, <2>1 DEF Leftovers
<1>6. CASE failures' = failures + 1 /\ \E b \in Blocks : Left' \subseteq Left \cup {b}
  <2>1. PICK b \in Blocks : Left' \subseteq Left \cup {b}
    BY <1>6
  <2>2. Cardinality(Left') <= Cardinality(Left) + 1
    BY <1>2, <2>1, GrownByOne
  <2> QED
    BY <1>1, <1>2, <1>4, <1>6, <2>2 DEF Leftovers
<1> QED
  BY <1>5, <1>6, LeftByFailure

\* A layout whose pool is empty has as many targets as blocks hold one.
LEMMA OnePerBlock ==
  ASSUME TypedTables, NEW g \in Signatures, free[g] = {}, NEW S \in SUBSET Blocks,
         \A b \in Blocks : Signature[b] = g /\ held[b] # {} => b \in S
  PROVE  IsFiniteSet(TargetsOf(g)) /\ Cardinality(TargetsOf(g)) <= Cardinality(S)
<1> DEFINE H == {b \in S : Signature[b] = g /\ held[b] # {}}
           f == [b \in H |-> CHOOSE l : l \in held[b]]
<1>1. H \in SUBSET Blocks /\ H \subseteq S
  OBVIOUS
<1>2. \A b \in H : \A l : l \in held[b] <=> l = f[b]
  <2>1. ASSUME NEW b \in H
        PROVE  f[b] \in held[b]
    BY <2>1
  <2>2. \A b \in H : \A l, k \in held[b] : l = k
    BY DEF TypedTables, Single
  <2> QED
    BY <2>1, <2>2
<1>3. TargetsOf(g) = {f[b] : b \in H}
  <2>1. ASSUME NEW l
        PROVE  l \in TargetsOf(g) <=> \E b \in H : l \in held[b]
    BY DEF TargetsOf
  <2> HIDE DEF f, H
  <2>2. ASSUME NEW l
        PROVE  l \in TargetsOf(g) <=> \E b \in H : l = f[b]
    BY <1>2, <2>1
  <2> QED
    BY <2>2
<1>4. f \in Surjection(H, {f[b] : b \in H})
  BY DEF Surjection
<1>5. IsFiniteSet(H) /\ IsFiniteSet(S)
  BY <1>1, BlocksFinite
<1> HIDE DEF f, H
<1>6. IsFiniteSet(TargetsOf(g)) /\ Cardinality(TargetsOf(g)) <= Cardinality(H)
  BY <1>3, <1>4, <1>5, FS_Surjection
<1>7. Cardinality(H) <= Cardinality(S)
  BY <1>1, <1>5, FS_Subset
<1>8. Cardinality(H) \in Nat /\ Cardinality(S) \in Nat /\ Cardinality(TargetsOf(g)) \in Nat
  BY <1>5, <1>6, FS_CardinalityType
<1> QED
  BY <1>6, <1>7, <1>8

\* A thread asks for a target when it has found none, and only then.
LEMMA AskingLess ==
  ASSUME NEW g,
         pc' = "allocate" => pc = "allocate" /\ want' = want,
         job' = "allocate" => job = "allocate" /\ jobFor' = jobFor
  PROVE  Asking(g)' <= Asking(g)
BY DEF Asking

\* When the worker has found none, the blocks that hold one are those left behind and the
\* main thread's; when the main thread has found none, those left behind and the prefetched.
LEMMA FoundTooFew ==
  ASSUME Control, Leftovers, NEW g \in Signatures, free[g] = {},
         \/ WorkerLooks /\ held[jobFor] = {}
         \/ Looks /\ held[want] = {}
  PROVE  /\ IsFiniteSet(TargetsOf(g)) /\ failures \in Nat
         /\ Cardinality(TargetsOf(g)) + Asking(g)' <= 2 + failures
<1>1. TypedTables /\ TypedThreads /\ MainStage /\ WorkerStage
  BY DEF Control, Typed
<1>2. failures \in Nat
  BY <1>1 DEF TypedThreads
<1>3. Left \in SUBSET Blocks /\ IsFiniteSet(Left) /\ Cardinality(Left) \in Nat
  <2>1. Left \in SUBSET Blocks
    BY DEF Left
  <2> QED
    BY <2>1, BlocksFinite
<1>4. CASE WorkerLooks /\ held[jobFor] = {}
  <2>1. /\ job = "queued" /\ job \in Busy /\ UNCHANGED <<pc, want>> /\ active \in Blocks \cup {NoBlock}
        /\ pc \in Preparing => active = NoBlock
        /\ pc = "allocate" => held[want] = {}
    BY <1>1, <1>4 DEF WorkerLooks, Busy, hookVars, TypedThreads, MainStage
  <2>2. \A b \in Blocks : held[b] # {} => b \in Left \cup Main
    BY <1>4 DEF Left, Prefetch
  <2>3. CASE pc = "allocate"
    <3>1. Main = {}
      BY <2>1, <2>3 DEF Main, Preparing, Blocks, NoBlock
    <3>2. IsFiniteSet(TargetsOf(g)) /\ Cardinality(TargetsOf(g)) <= Cardinality(Left)
      BY <1>1, <1>3, <2>2, <3>1, OnePerBlock
    <3>3. Asking(g)' \in {0, 1, 2}
      BY DEF Asking
    <3>4. Cardinality(TargetsOf(g)) \in Nat
      BY <3>2, FS_CardinalityType
    <3> QED
      BY <1>2, <1>3, <3>2, <3>3, <3>4 DEF Leftovers
  <2>4. CASE pc # "allocate"
    <3>1. Single(Main)
      BY <2>1 DEF Single, Main, Preparing, Blocks, NoBlock
    <3>2. \E b : Main \subseteq {b}
      BY <3>1 DEF Single
    <3>3. PICK b : Main \subseteq {b}
      BY <3>2
    <3>4. Left \cup Main \in SUBSET Blocks /\ Left \cup Main \subseteq Left \cup {b}
      BY <1>3, <3>3 DEF Main
    <3>5. /\ IsFiniteSet(TargetsOf(g))
          /\ Cardinality(TargetsOf(g)) <= Cardinality(Left \cup Main)
      BY <1>1, <2>2, <3>4, OnePerBlock
    <3>6. Cardinality(Left \cup Main) <= Cardinality(Left) + 1
      BY <1>3, <3>4, GrownByOne
    <3>7. Asking(g)' \in {0, 1}
      BY <2>1, <2>4 DEF Asking
    <3>8. Cardinality(TargetsOf(g)) \in Nat /\ Cardinality(Left \cup Main) \in Nat
      BY <3>4, <3>5, BlocksFinite, FS_CardinalityType
    <3> QED
      BY <1>2, <1>3, <3>5, <3>6, <3>7, <3>8 DEF Leftovers
  <2> QED
    BY <2>3, <2>4
<1>5. CASE Looks /\ held[want] = {}
  <2>1. /\ pc = "ensure" /\ active = NoBlock /\ UNCHANGED <<job, jobFor>>
        /\ job = "allocate" => held[jobFor] = {}
    BY <1>1, <1>5 DEF Looks, jobVars, MainStage, WorkerStage
  <2>2. Main = {}
    BY <2>1 DEF Main, Blocks, NoBlock
  <2>3. CASE job = "allocate"
    <3>1. \A b \in Blocks : held[b] # {} => b \in Left
      BY <2>1, <2>2, <2>3 DEF Left, Prefetch
    <3>2. IsFiniteSet(TargetsOf(g)) /\ Cardinality(TargetsOf(g)) <= Cardinality(Left)
      BY <1>1, <1>3, <3>1, OnePerBlock
    <3>3. Asking(g)' \in {0, 1, 2}
      BY DEF Asking
    <3>4. Cardinality(TargetsOf(g)) \in Nat
      BY <3>2, FS_CardinalityType
    <3> QED
      BY <1>2, <1>3, <3>2, <3>3, <3>4 DEF Leftovers
  <2>4. CASE job # "allocate"
    <3>1. Left \cup Prefetch \in SUBSET Blocks /\ Left \cup Prefetch \subseteq Left \cup {jobFor}
      BY <1>3 DEF Prefetch
    <3>2. \A b \in Blocks : held[b] # {} => b \in Left \cup Prefetch
      BY <2>2 DEF Left
    <3>3. /\ IsFiniteSet(TargetsOf(g))
          /\ Cardinality(TargetsOf(g)) <= Cardinality(Left \cup Prefetch)
      BY <1>1, <3>1, <3>2, OnePerBlock
    <3>4. Cardinality(Left \cup Prefetch) <= Cardinality(Left) + 1
      BY <1>3, <3>1, GrownByOne
    <3>5. Asking(g)' \in {0, 1}
      BY <2>1, <2>4 DEF Asking
    <3>6. Cardinality(TargetsOf(g)) \in Nat /\ Cardinality(Left \cup Prefetch) \in Nat
      BY <3>1, <3>3, BlocksFinite, FS_CardinalityType
    <3> QED
      BY <1>2, <1>3, <3>3, <3>4, <3>5, <3>6 DEF Leftovers
  <2> QED
    BY <2>3, <2>4
<1> QED
  BY <1>2, <1>4, <1>5

\* A thread that takes a target asks for none any more.
LEMMA TakenCounts ==
  ASSUME Control, Counted, NEW b \in Blocks, NEW how, NEW w \in BOOLEAN, NEW g \in Signatures,
         held[b] = {}, Take(how, b, w), active' = active, active # b,
         \A l \in Leases : target[l] # "closed",
         Asking(g)' = Asking(g) - (IF how = "allocate" /\ Signature[b] = g THEN 1 ELSE 0)
  PROVE  /\ IsFiniteSet(TargetsOf(g)') /\ failures \in Nat
         /\ Cardinality(TargetsOf(g)') + Asking(g)' <= 2 + failures
<1>1. /\ TypedLeases /\ TypedTables /\ Places /\ active \in Blocks \cup {NoBlock}
      /\ failures \in Nat
  BY DEF Control, Typed, TypedThreads
<1>2. PICK l \in Leases :
         /\ held' = [held EXCEPT ![b] = {l}]
         /\ \A k \in Leases : target[k] = "open" => target'[k] = "open"
         /\ \A k \in Leases : target'[k] = "closed" => target[k] = "closed"
         /\ \/ how = "pop" /\ l \in free[Signature[b]]
               /\ free' = [free EXCEPT ![Signature[b]] = @ \ {l}] /\ target' = target
            \/ how = "allocate" /\ l \notin TargetsOf(Signature[b]) /\ free' = free
  BY <1>1, TakeOne
<1>3. \A c \in Blocks : held'[c] = IF c = b THEN {l} ELSE held[c]
  BY <1>1, <1>2 DEF TypedTables
<1>4. Asking(g) \in Nat /\ IsFiniteSet(TargetsOf(g)) /\ Cardinality(TargetsOf(g)) \in Nat
      /\ Cardinality(TargetsOf(g)) + Asking(g) <= 2 + failures
  BY FS_CardinalityType DEF Asking, Counted
<1>5. CASE how = "pop" \/ Signature[b] # g
  <2>1. TargetsOf(g)' \subseteq TargetsOf(g)
    <3>1. free'[g] \subseteq free[g]
      BY <1>1, <1>2 DEF TypedTables
    <3>2. \A c \in Blocks : Signature[c] = g => held'[c] \subseteq TargetsOf(g)
      <4>1. ASSUME NEW c \in Blocks, Signature[c] = g, c = b
            PROVE  l \in free[g]
        BY <1>2, <1>5, <4>1
      <4> QED
        BY <1>3, <4>1 DEF TargetsOf
    <3> QED
      BY <3>1, <3>2 DEF TargetsOf
  <2>2. IsFiniteSet(TargetsOf(g)') /\ Cardinality(TargetsOf(g)') <= Cardinality(TargetsOf(g))
    BY <1>4, <2>1, FS_Subset
  <2>3. Cardinality(TargetsOf(g)') \in Nat /\ Asking(g)' \in Int /\ Asking(g)' <= Asking(g)
    BY <1>4, <2>2, FS_CardinalityType
  <2> QED
    BY <1>1, <1>4, <2>2, <2>3
<1>6. CASE how # "pop" /\ Signature[b] = g
  <2>1. how = "allocate" /\ free' = free /\ Asking(g)' = Asking(g) - 1
    BY <1>2, <1>6
  <2>2. TargetsOf(g)' \subseteq TargetsOf(g) \cup {l}
    BY <1>3, <2>1 DEF TargetsOf
  <2>3. IsFiniteSet(TargetsOf(g)') /\ Cardinality(TargetsOf(g)') <= Cardinality(TargetsOf(g)) + 1
    BY <1>4, <2>2, GrownByOne
  <2>4. Cardinality(TargetsOf(g)') \in Nat
    BY <2>3, FS_CardinalityType
  <2> QED
    BY <1>1, <1>4, <2>1, <2>3, <2>4
<1> QED
  BY <1>5, <1>6

\* Two targets of a layout and one for every failure is all there will be.
LEMMA CountedStep ==
  ASSUME Control, Leftovers, Counted, Next
  PROVE  Counted'
<1>1. TypedLeases /\ TypedTables /\ TypedThreads /\ Places /\ Closing /\ MainStage /\ WorkerStage
  BY DEF Control, Typed
<1>2. failures \in Nat /\ failures' \in Nat /\ failures <= failures'
  BY FailuresGrow
<1>3. ASSUME NEW g \in Signatures, TargetsOf(g)' = TargetsOf(g), Asking(g)' <= Asking(g)
      PROVE  IsFiniteSet(TargetsOf(g)') /\ Cardinality(TargetsOf(g)') + Asking(g)' <= 2 + failures'
  <2>1. IsFiniteSet(TargetsOf(g)) /\ Cardinality(TargetsOf(g)) + Asking(g) <= 2 + failures
    BY DEF Counted
  <2>2. Cardinality(TargetsOf(g)) \in Nat
    BY <2>1, FS_CardinalityType
  <2>3. Asking(g) \in Nat /\ Asking(g)' \in Nat
    BY DEF Asking
  <2> QED
    BY <1>2, <1>3, <2>1, <2>2, <2>3
<1>4. CASE /\ pc' = "allocate" => pc = "allocate" /\ want' = want
           /\ job' = "allocate" => job = "allocate" /\ jobFor' = jobFor
           /\ \A g \in Signatures : TargetsOf(g)' = TargetsOf(g)
  BY <1>3, <1>4, AskingLess DEF Counted
<1>5. CASE \/ Acquire \/ (\E b \in Blocks : Hook(b)) \/ HookAgain \/ Await \/ Awaited \/ Enter
           \/ LoadTrainables \/ Scatter \/ Release \/ CloseNext
           \/ (\E ok \in BOOLEAN : WorkerFills(ok)) \/ \E ok \in BOOLEAN : Fills(ok)
  <2>1. UNCHANGED <<held, free>>
    BY <1>5 DEF Acquire, Hook, HookAgain, Await, Awaited, Enter, LoadTrainables, Scatter, Release,
                CloseNext, WorkerFills, Fills, tableVars
  <2>2. pc' = "allocate" => pc = "allocate" /\ want' = want
    BY <1>5 DEF Acquire, Hook, HookAgain, Await, Awaited, Enter, LoadTrainables, Scatter, Release,
                CloseNext, WorkerFills, Fills, Raised, hookVars
  <2>3. job' = "allocate" => job = "allocate" /\ jobFor' = jobFor
    <3>1. CASE HookAgain \/ Enter
      <4>1. UNCHANGED jobVars \/ \E b \in Blocks : Submit(b)
        BY <1>1, <3>1 DEF HookAgain, Enter, TypedThreads, MainStage, Preparing, jobVars
      <4>2. UNCHANGED jobVars \/ job' = "queued"
        BY <4>1, SubmitOne
      <4> QED
        BY <4>2 DEF jobVars
    <3>2. CASE ~(HookAgain \/ Enter)
      BY <1>5, <3>2 DEF Acquire, Hook, Await, Awaited, LoadTrainables, Scatter, Release,
                        CloseNext, WorkerFills, Fills, jobVars
    <3> QED
      BY <3>1, <3>2
  <2> QED
    BY <1>4, <2>1, <2>2, <2>3 DEF TargetsOf
<1>6. CASE Evict \/ BeginStep \/ ShutDown
  <2>1. \A g \in Signatures : TargetsOf(g)' = TargetsOf(g)
    <3>1. CASE Evict
      <4>1. PutBack({active}) /\ active \in Blocks
        BY <1>1, <3>1 DEF Evict, MainStage, TypedThreads
      <4> QED
        BY <1>1, <4>1, PutBackPlaces
    <3>2. CASE BeginStep \/ ShutDown
      BY <3>2, Drained DEF BeginStep, ShutDown
    <3> QED
      BY <1>6, <3>1, <3>2
  <2>2. pc' # "allocate" /\ UNCHANGED <<job, jobFor>>
    BY <1>6 DEF Evict, BeginStep, ShutDown, Drain, jobVars
  <2> QED
    BY <1>4, <2>1, <2>2
<1>7. CASE Released
  <2>1. /\ \A b \in Blocks : held'[b] = {}
        /\ \A g \in Signatures : free'[g] = {}
        /\ pc' = "released" /\ job' = "none"
    BY <1>1, <1>7 DEF Released, MainStage, Emptied
  <2>2. ASSUME NEW g \in Signatures
        PROVE  TargetsOf(g)' = {} /\ Asking(g)' = 0
    BY <2>1 DEF TargetsOf, Asking
  <2> QED
    BY <1>2, <2>2, FS_EmptySet DEF Counted
<1>8. CASE WorkerLooks \/ Looks
  <2>1. UNCHANGED <<held, free, want, jobFor, failures>>
    BY <1>8 DEF WorkerLooks, Looks, tableVars, hookVars, jobVars
  <2>2. \A g \in Signatures : TargetsOf(g)' = TargetsOf(g)
    BY <2>1 DEF TargetsOf
  <2>3. SUFFICES ASSUME NEW g \in Signatures
                 PROVE  /\ IsFiniteSet(TargetsOf(g)')
                        /\ Cardinality(TargetsOf(g)') + Asking(g)' <= 2 + failures'
    BY DEF Counted
  <2>4. CASE /\ free[g] = {}
             /\ \/ WorkerLooks /\ held[jobFor] = {}
                \/ Looks /\ held[want] = {}
    BY <2>1, <2>2, <2>4, FoundTooFew
  <2>5. CASE ~(/\ free[g] = {}
               /\ \/ WorkerLooks /\ held[jobFor] = {}
                  \/ Looks /\ held[want] = {})
    <3>1. Asking(g)' <= Asking(g)
      <4>1. CASE WorkerLooks
        BY <2>1, <2>5, <4>1 DEF WorkerLooks, Look, Pool, Asking
      <4>2. CASE Looks
        BY <2>1, <2>5, <4>2 DEF Looks, Look, Pool, Asking, jobVars
      <4> QED
        BY <1>8, <4>1, <4>2
    <3> QED
      BY <1>3, <2>2, <3>1
  <2> QED
    BY <2>4, <2>5
<1>9. CASE WorkerTakes
  <2>1. /\ job \in {"pop", "allocate"} /\ job \in Busy /\ Live /\ jobFor \in Blocks /\ held[jobFor] = {}
        /\ active \in Blocks \cup {NoBlock}
        /\ UNCHANGED <<pc, want, active, pending, jobFor>>
    BY <1>1, <1>9 DEF WorkerTakes, Take, TakeFails, Busy, WorkerStage, hookVars, TypedThreads
  <2>2. active # jobFor /\ \A l \in Leases : target[l] # "closed"
    BY <1>1, <2>1 DEF MainStage, Closing, Live, NoBlock, Blocks
  <2>3. CASE Take(job, jobFor, TRUE) /\ job' = "fill" /\ UNCHANGED failures
    <3>1. ASSUME NEW g \in Signatures
          PROVE  /\ IsFiniteSet(TargetsOf(g)')
                 /\ Cardinality(TargetsOf(g)') + Asking(g)' <= 2 + failures'
      <4>1. Asking(g)' = Asking(g) - (IF job = "allocate" /\ Signature[jobFor] = g THEN 1 ELSE 0)
        BY <2>1, <2>3 DEF Asking
      <4>2. /\ IsFiniteSet(TargetsOf(g)')
            /\ Cardinality(TargetsOf(g)') + Asking(g)' <= 2 + failures
        BY <2>1, <2>2, <2>3, <4>1, TakenCounts
      <4> QED
        BY <2>3, <4>2
    <3> QED
      BY <3>1 DEF Counted
  <2>4. CASE TakeFails(job, jobFor) /\ job' = "failed"
    BY <1>4, <2>1, <2>4 DEF TakeFails, tableVars, TargetsOf
  <2> QED
    BY <1>9, <2>3, <2>4 DEF WorkerTakes
<1>10. CASE Takes
  <2>1. /\ pc \in {"pop", "allocate"} /\ want \in Blocks /\ active = NoBlock /\ held[want] = {}
        /\ UNCHANGED <<active, job, jobFor>>
    BY <1>1, <1>10 DEF Takes, Take, TakeFails, MainStage, Preparing, jobVars
  <2>2. active # want /\ \A l \in Leases : target[l] # "closed"
    BY <1>1, <2>1 DEF Closing, Blocks, NoBlock
  <2>3. CASE Take(pc, want, FALSE) /\ pc' = "fill" /\ UNCHANGED <<want, failures>>
    <3>1. ASSUME NEW g \in Signatures
          PROVE  /\ IsFiniteSet(TargetsOf(g)')
                 /\ Cardinality(TargetsOf(g)') + Asking(g)' <= 2 + failures'
      <4>1. Asking(g)' = Asking(g) - (IF pc = "allocate" /\ Signature[want] = g THEN 1 ELSE 0)
        BY <2>1, <2>3 DEF Asking
      <4>2. /\ IsFiniteSet(TargetsOf(g)')
            /\ Cardinality(TargetsOf(g)') + Asking(g)' <= 2 + failures
        BY <2>1, <2>2, <2>3, <4>1, TakenCounts
      <4> QED
        BY <2>3, <4>2
    <3> QED
      BY <3>1 DEF Counted
  <2>4. CASE TakeFails(pc, want) /\ pc' = Raised
    BY <1>4, <2>1, <2>4 DEF TakeFails, tableVars, TargetsOf, Raised
  <2> QED
    BY <1>10, <2>3, <2>4 DEF Takes
<1> QED
  BY <1>5, <1>6, <1>7, <1>8, <1>9, <1>10 DEF Next

-----------------------------------------------------------------------------
(* The theorems *)

\* Every behaviour keeps the inductive invariant.
THEOREM RuntimeInvariance == Spec => []IInv
<1>1. Init => IInv
  <2> SUFFICES ASSUME Init
               PROVE  IInv
    OBVIOUS
  <2>1. /\ target = [l \in Leases |-> "none"] /\ ofWorker = {}
        /\ staged = [l \in Leases |-> FALSE] /\ acquired = [l \in Leases |-> FALSE]
        /\ content = [l \in Leases |-> NoBlock] /\ reading = {} /\ lost = FALSE
        /\ held = [b \in Blocks |-> {}] /\ free = [g \in Signatures |-> {}]
        /\ pc = "released" /\ want = NoBlock /\ hooks = FALSE /\ active = NoBlock /\ last = -1
        /\ pending = {} /\ job = "none" /\ jobFor = NoBlock /\ failures = 0
    BY DEF Init
  <2>2. Typed
    <3>1. TypedLeases
      BY <2>1 DEF TypedLeases
    <3>2. TypedTables
      BY <2>1 DEF TypedTables, Single
    <3>3. TypedThreads
      <4>1. 0 \in 0 .. MaxFailures
        BY RuntimeAssumption
      <4>2. pending \subseteq Blocks /\ Single(pending)
        BY <2>1 DEF Single
      <4> QED
        BY <2>1, <4>1, <4>2 DEF TypedThreads
    <3> QED
      BY <3>1, <3>2, <3>3 DEF Typed
  <2>3. Places /\ Closing
    BY <2>1 DEF Places, Closing
  <2>4. MainStage /\ WorkerStage
    BY <2>1 DEF MainStage, WorkerStage, Preparing, Emptied, Busy, Live
  <2>5. Fresh /\ Quiet
    BY <2>1 DEF Fresh, Quiet, ForwardReadsItsBytes
  <2>6. Leftovers
    <3>1. Left = {}
      BY <2>1 DEF Left
    <3> QED
      BY <2>1, <3>1, FS_EmptySet DEF Leftovers
  <2>7. Counted
    <3>1. ASSUME NEW g \in Signatures
          PROVE  TargetsOf(g) = {} /\ Asking(g) = 0
      BY <2>1 DEF TargetsOf, Asking
    <3> QED
      BY <2>1, <3>1, FS_EmptySet DEF Counted
  <2> QED
    BY <2>2, <2>3, <2>4, <2>5, <2>6, <2>7 DEF IInv, Control
<1>2. IInv /\ [Next]_vars => IInv'
  <2> SUFFICES ASSUME IInv, [Next]_vars
               PROVE  IInv'
    OBVIOUS
  <2>1. Control'
    BY ControlStep DEF IInv
  <2>2. CASE Next
    BY <2>1, <2>2, FreshStep, QuietStep, LeftoversStep, CountedStep DEF IInv
  <2>3. CASE UNCHANGED vars
    <3>1. UNCHANGED <<target, staged, acquired, content, reading, lost, held, free>>
          /\ UNCHANGED <<pc, want, active, pending, job, jobFor, failures>>
      BY <2>3 DEF vars, leaseVars, tableVars, hookVars, jobVars
    <3>2. Fresh' /\ Quiet'
      BY <3>1 DEF IInv, Fresh, Quiet, Ready, Live, Open, ForwardReadsItsBytes
    <3>3. Left' = Left
      BY <3>1 DEF Left, Main, Prefetch, Live
    <3>4. \A g \in Signatures : TargetsOf(g)' = TargetsOf(g) /\ Asking(g)' = Asking(g)
      BY <3>1 DEF TargetsOf, Asking
    <3> QED
      BY <2>1, <3>1, <3>2, <3>3, <3>4 DEF IInv, Leftovers, Counted
  <2> QED
    BY <2>2, <2>3
<1> QED
  BY <1>1, <1>2, PTL DEF Spec

\* Everything is of its kind: above all a block never has two targets, and there are never
\* two prefetches.
THEOREM RuntimeTypes == Spec => []TypeOK
<1>1. IInv => TypeOK
  <2> SUFFICES ASSUME IInv
               PROVE  TypeOK
    OBVIOUS
  <2>1. TypedLeases /\ TypedTables /\ TypedThreads
    BY DEF IInv, Control, Typed
  <2>2. ASSUME NEW S, Single(S)
        PROVE  Cardinality(S) <= 1
    <3>1. CASE S = {}
      BY <3>1, FS_EmptySet
    <3>2. CASE S # {}
      <4>1. PICK x : S = {x}
        BY <2>2, <3>2 DEF Single
      <4>2. Cardinality({x}) = 1
        BY FS_Singleton
      <4> QED
        BY <4>1, <4>2
    <3> QED
      BY <3>1, <3>2
  <2>3. Cardinality(pending) <= 1 /\ \A b \in Blocks : Cardinality(held[b]) <= 1
    BY <2>1, <2>2 DEF TypedTables, TypedThreads
  <2> QED
    BY <2>1, <2>3 DEF TypeOK, TypedLeases, TypedTables, TypedThreads
<1> QED
  BY <1>1, RuntimeInvariance, PTL

\* The forward of a block computes on the block's bytes of now, whichever thread copied
\* them and whatever was prefetched, failed or was trained before.
THEOREM ForwardsReadTheirBytes == Spec => []ForwardReadsItsBytes
<1>1. IInv => ForwardReadsItsBytes
  BY DEF IInv, Fresh
<1> QED
  BY <1>1, RuntimeInvariance, PTL

\* The two threads never spoil a target for each other, forget one, or ask of one what
\* CudaTargetLease refuses.
THEOREM ThreadsKeepTargets == Spec => []TargetsKept
<1>1. IInv => TargetsKept
  <2> SUFFICES ASSUME IInv
               PROVE  TargetsKept
    OBVIOUS
  <2>1. /\ TypedLeases /\ TypedTables /\ TypedThreads
        /\ Places /\ Closing /\ MainStage /\ WorkerStage /\ Fresh
    BY DEF IInv, Control, Typed
  <2>2. OnePlace
    <3>1. Open \subseteq Pooled \cup Held
      BY <2>1 DEF Open, Pooled, Held, Places
    <3>2. \A b, c \in Blocks : b # c => held[b] \cap held[c] = {}
      BY <2>1 DEF Places
    <3>3. \A b \in Blocks, g \in Signatures : held[b] \cap free[g] = {}
      BY <2>1 DEF Places
    <3>4. \A g, h \in Signatures : g # h => free[g] \cap free[h] = {}
      BY <2>1 DEF Places
    <3>5. \A l \in Leases : acquired[l] => active # NoBlock /\ l \in held[active]
      BY <2>1 DEF Places
    <3> QED
      BY <3>1, <3>2, <3>3, <3>4, <3>5 DEF OnePlace
  <2>3. \A b \in Blocks : \A l \in held[b] : l \in Open /\ (acquired[l] => b = active)
    BY <2>1 DEF Places, Open, TypedTables, TypedThreads
  <2>4. pc \in {"fill", "enter"} => want \in Blocks /\ want # active /\ held[want] # {}
    BY <2>1 DEF MainStage, Preparing, Blocks, NoBlock
  <2>5. job = "fill" => jobFor \in Blocks /\ jobFor # active /\ held[jobFor] # {}
    BY <2>1 DEF MainStage, WorkerStage, Live, Busy, Blocks, NoBlock
  <2>6. pc = "enter" => \E l \in held[want] : staged[l]
    BY <2>1 DEF Fresh, Ready
  <2>7. NeverRefused
    BY <2>3, <2>4, <2>5, <2>6 DEF NeverRefused
  <2> QED
    BY <2>2, <2>7 DEF TargetsKept
<1> QED
  BY <1>1, RuntimeInvariance, PTL

\* A released runtime has no copies under way, unless a closing synchronization failed.
THEOREM ReleaseIsQuiet == Spec => []QuietUnlessLost
<1>1. IInv => QuietUnlessLost
  <2> SUFFICES ASSUME IInv, pc = "released", ~lost
               PROVE  reading \subseteq {StepCopies}
    BY DEF QuietUnlessLost
  <2>1. Places /\ MainStage /\ Quiet
    BY DEF IInv, Control
  <2>2. \A b \in Blocks : held[b] = {}
    BY <2>1 DEF MainStage, Emptied
  <2>3. \A g \in Signatures : free[g] = {}
    BY <2>1 DEF MainStage
  <2>4. Open = {}
    BY <2>1, <2>2, <2>3 DEF Places, Open
  <2> QED
    BY <2>1, <2>4 DEF Quiet
<1> QED
  BY <1>1, RuntimeInvariance, PTL

\* However many blocks there are, two targets of a layout are enough, and one for every
\* failure that left one behind.
THEOREM TwoTargetsSuffice == Spec => []TwoTargets
<1>1. IInv => TwoTargets
  <2> SUFFICES ASSUME IInv, NEW g \in Signatures
               PROVE  Cardinality(TargetsOf(g)) <= 2 + failures
    BY DEF TwoTargets, TargetsOf
  <2>1. IsFiniteSet(TargetsOf(g)) /\ Cardinality(TargetsOf(g)) + Asking(g) <= 2 + failures
    BY DEF IInv, Counted
  <2>2. Cardinality(TargetsOf(g)) \in Nat /\ Asking(g) \in Nat /\ failures \in Nat
    BY <2>1, FS_CardinalityType DEF Asking, IInv, Control, Typed, TypedThreads
  <2> QED
    BY <2>1, <2>2
<1> QED
  BY <1>1, RuntimeInvariance, PTL

-----------------------------------------------------------------------------
(* The inductive invariant *)

Kernel == [block : RollingBlocks, reads : SUBSET Params, after : Nat]
Copy == [block : RollingBlocks \cup {None}, param : Params, after : Nat]

RollingTyped ==
    /\ graph \in Graphs /\ wraparound \in BOOLEAN /\ leased \in BOOLEAN
    /\ recorded \in SUBSET {"compute", "prefetch"} /\ mark \in Nat /\ installed \in 0 .. NumBlocks /\ hooked \in BOOLEAN
    /\ owners \in [Params -> RollingBlocks \cup {None}] /\ ready \in [Params -> Nat] /\ barrier \in Nat
    /\ kernels \in Seq(Kernel) /\ copies \in Seq(Copy)
    /\ mem \in [Params -> RollingBlocks \cup {None}]
    /\ block \in RollingBlocks \cup {None} /\ ran \subseteq Operations(graph)
    /\ calls \in 0 .. MaxCalls /\ faults \in 0 .. MaxFaults

\* What waits, waits for work that is still queued.
Bounded ==
    /\ barrier <= Len(copies) /\ \A p \in Params : ready[p] <= Len(copies)
    /\ \A i \in DOMAIN kernels : kernels[i].after <= Len(copies)
    /\ \A j \in DOMAIN copies : copies[j].after <= Len(kernels)

\* The lease knows of all queued work: a block that has waited for a slot has had its
\* stream recorded, and copies that nobody recorded the stream of are in front of the
\* lease's own event.
Known ==
    /\ kernels # <<>> => "compute" \in recorded
    /\ copies # <<>> => "prefetch" \in recorded \/ Len(copies) <= mark
    /\ block # None => "prefetch" \in recorded /\ \A p \in Params : Wait(p) \in ran => "compute" \in recorded
    /\ installed # 0 => "prefetch" \in recorded

\* Without the target nothing runs, and no block has it.
RollingReleased == ~leased => block = None /\ installed = 0 /\ kernels = <<>> /\ copies = <<>>

\* After the first n copies of q, into memory m, slot p holds block b's parameter.
Holds(q, m, p, b, n) ==
    \/ \E j \in 1 .. n : q[j].param = p /\ q[j].block = b /\ \A l \in j + 1 .. n : q[l].param # p
    \/ m[p] = b /\ \A l \in 1 .. n : q[l].param # p

\* The copies of q into slot p are among the first n.
Among(q, p, n) == \A j \in DOMAIN q : q[j].param = p => j <= n

\* A slot's ready event is behind its last copy, which was its owner's.
Slots ==
    \A p \in Params :
        /\ Among(copies, p, ready[p])
        /\ owners[p] # None /\ <<owners[p], p>> \notin Unloaded => Holds(copies, mem, p, owners[p], ready[p])

\* The kernels of k read their own block's parameters: what they wait for brings
\* them, and every later copy into the slot waits for the kernel.
RollingReading(k, q, m) ==
    \A i \in DOMAIN k : \A p \in k[i].reads :
        /\ Holds(q, m, p, k[i].block, k[i].after)
        /\ \A j \in DOMAIN q : q[j].param = p => j <= k[i].after \/ q[j].after >= i

\* Until a slot's refill is issued the slot is the running block's, and once its wait
\* is, the compute stream waits for it; and a refill comes after all its readers.
Scheduled ==
    block # None =>
        \A p \in Params :
            /\ Refill(p) \notin ran => owners[p] = block /\ (Wait(p) \in ran => ready[p] <= barrier)
            /\ Refill(p) \in ran => \A i \in Readers(graph, p) : Node(i) \in ran

\* An acquisition that has not raised has the hooks registered.
Hooked == leased => hooked

Streams == RollingTyped /\ Bounded /\ Known /\ RollingReleased
Parameters == faults = 0 => Slots /\ RollingReading(kernels, copies, mem) /\ Scheduled /\ Hooked
RollingInv == Streams /\ Parameters


-----------------------------------------------------------------------------
(* The slots a refill copies into, and in which order *)

\* Loads counts the loaded slots off in their order, and UpTo is a slot's place.
LEMMA LoadsCount ==
  ASSUME NEW b, NEW slots \in SUBSET Params, NEW L, L = Loaded(b, slots)
  PROVE  /\ L \subseteq slots /\ Cardinality(L) \in Nat
         /\ \A p \in Params : UpTo(p, L) \in 0 .. Cardinality(L)
         /\ \A p \in L : UpTo(p, L) \in 1 .. Cardinality(L) /\ Loads(b, slots)[UpTo(p, L)] = p
         /\ DOMAIN Loads(b, slots) = 1 .. Cardinality(L)
         /\ \A i \in 1 .. Cardinality(L) : Loads(b, slots)[i] \in L /\ UpTo(Loads(b, slots)[i], L) = i
<1> DEFINE n == Cardinality(L)
           Low(p) == {q \in L : q <= p}
           rank == [p \in L |-> UpTo(p, L)]
<1>1. L \subseteq slots /\ L \in SUBSET Params /\ L \subseteq Nat
  <2>1. Params \subseteq Nat
    BY RollingAssumption DEF Params
  <2> QED
    BY <2>1 DEF Loaded
<1>2. IsFiniteSet(L) /\ n \in Nat
  <2>1. IsFiniteSet(Params)
    BY FS_Interval, RollingAssumption DEF Params
  <2>2. IsFiniteSet(L)
    BY <1>1, <2>1, FS_Subset
  <2> QED
    BY <2>2, FS_CardinalityType
<1>3. ASSUME NEW p \in Params
      PROVE  /\ Low(p) \in SUBSET L /\ IsFiniteSet(Low(p))
             /\ Cardinality(Low(p)) \in 0 .. n
  <2>1. Low(p) \in SUBSET L
    OBVIOUS
  <2>2. IsFiniteSet(Low(p)) /\ Cardinality(Low(p)) <= n
    BY <1>2, <2>1, FS_Subset
  <2>3. Cardinality(Low(p)) \in Nat
    BY <2>2, FS_CardinalityType
  <2> QED
    BY <1>2, <2>1, <2>2, <2>3
<1>4. ASSUME NEW p \in L
      PROVE  Cardinality(Low(p)) # 0
  <2>1. p \in Low(p)
    BY <1>1
  <2>2. IsFiniteSet(Low(p))
    BY <1>1, <1>3
  <2> QED
    BY <2>1, <2>2, FS_EmptySet
<1>5. ASSUME NEW p \in L, NEW q \in L, p < q
      PROVE  Cardinality(Low(p)) # Cardinality(Low(q))
  <2>1. Low(p) \in SUBSET Low(q)
    BY <1>1, <1>5
  <2>2. q \in Low(q) /\ q \notin Low(p)
    BY <1>1, <1>5
  <2>3. IsFiniteSet(Low(q))
    BY <1>1, <1>3
  <2> HIDE DEF Low
  <2> QED
    BY <2>1, <2>2, <2>3, FS_Subset
<1>6. \A p : UpTo(p, L) = Cardinality(Low(p))
  BY DEF UpTo
<1> HIDE DEF Low
<1>7. rank \in Injection(L, 1 .. n)
  <2>1. \A p \in L : rank[p] \in 1 .. n
    BY <1>1, <1>2, <1>3, <1>4, <1>6
  <2>2. ASSUME NEW p \in L, NEW q \in L, rank[p] = rank[q]
        PROVE  p = q
    <3>1. ~(p < q) /\ ~(q < p)
      BY <1>5, <1>6, <2>2
    <3>2. p \in Nat /\ q \in Nat
      BY <1>1
    <3> QED
      BY <3>1, <3>2
  <2> QED
    BY <2>1, <2>2 DEF Injection, IsInjective
<1>8. rank \in Surjection(L, 1 .. n)
  <2>1. IsFiniteSet(1 .. n) /\ Cardinality(1 .. n) = n
    BY <1>2, FS_Interval
  <2> HIDE DEF rank, n
  <2> QED
    BY <1>7, <2>1, FS_Injection DEF n
<1>9. ASSUME NEW i \in 1 .. n
      PROVE  Loads(b, slots)[i] \in L /\ UpTo(Loads(b, slots)[i], L) = i
  <2>1. \E p \in L : UpTo(p, L) = i
    BY <1>8 DEF Surjection
  <2>2. Loads(b, slots)[i] = CHOOSE p \in L : UpTo(p, L) = i
    BY DEF Loads
  <2> QED
    BY <2>1, <2>2
<1>10. ASSUME NEW p \in L
       PROVE  UpTo(p, L) \in 1 .. n /\ Loads(b, slots)[UpTo(p, L)] = p
  <2>1. UpTo(p, L) \in 1 .. n
    BY <1>7 DEF Injection
  <2>2. \A q \in L : UpTo(q, L) = UpTo(p, L) => q = p
    BY <1>7 DEF Injection, IsInjective
  <2> QED
    BY <1>9, <2>1, <2>2
<1>11. DOMAIN Loads(b, slots) = 1 .. n
  BY DEF Loads
<1> QED
  BY <1>1, <1>2, <1>3, <1>6, <1>9, <1>10, <1>11

\* A smaller refill copies into fewer slots.
LEMMA LoadedWithin ==
  ASSUME NEW b, NEW slots \in SUBSET Params, NEW some \in SUBSET slots
  PROVE  /\ Cardinality(Loaded(b, some)) \in Nat /\ Cardinality(Loaded(b, slots)) \in Nat
         /\ Cardinality(Loaded(b, some)) <= Cardinality(Loaded(b, slots))
<1>1. IsFiniteSet(Loaded(b, slots))
  <2>1. IsFiniteSet(Params)
    BY FS_Interval, RollingAssumption DEF Params
  <2>2. Loaded(b, slots) \in SUBSET Params
    BY DEF Loaded
  <2> QED
    BY <2>1, <2>2, FS_Subset
<1>2. Loaded(b, some) \in SUBSET Loaded(b, slots)
  BY DEF Loaded
<1> QED
  BY <1>1, <1>2, FS_Subset, FS_CardinalityType

-----------------------------------------------------------------------------
(* The compiled graph *)

\* A function whose value at an index is made from its values at earlier indices.
Recurs(step, V, n, g) ==
  g \in [1 .. n -> V] /\ \A j \in 1 .. n : g[j] = step[j][[k \in 1 .. j - 1 |-> g[k]]]

\* There is one, when each step stays among the values.
LEMMA RecursExists ==
  ASSUME NEW step, NEW V, NEW n \in Nat,
         \A j \in 1 .. n : \A h \in [1 .. j - 1 -> V] : step[j][h] \in V
  PROVE  \E g : Recurs(step, V, n, g)
<1> DEFINE B == {m \in 0 .. n : ~\E g : Recurs(step, V, m, g)}
<1>1. ASSUME B # {}
      PROVE  FALSE
  <2>1. PICK m \in B : \A l \in B : m <= l
    <3>1. B \in SUBSET (0 .. n)
      OBVIOUS
    <3>2. Min(B) \in B /\ \A l \in B : Min(B) <= l
      <4> HIDE DEF B
      <4> QED
        BY <1>1, <3>1, MinLeast
    <3> QED
      BY <3>2
  <2>2. m # 0
    <3>1. Recurs(step, V, 0, [j \in 1 .. 0 |-> {}])
      BY DEF Recurs
    <3> QED
      BY <3>1
  <2>3. PICK g : Recurs(step, V, m - 1, g)
    <3>1. m - 1 \in 0 .. n /\ ~(m <= m - 1)
      BY <2>2
    <3> QED
      BY <2>1, <3>1
  <2> DEFINE f == [j \in 1 .. m |-> IF j = m THEN step[m][g] ELSE g[j]]
  <2>4. m \in 1 .. n /\ m - 1 \in Nat /\ g \in [1 .. m - 1 -> V]
    BY <2>2, <2>3 DEF Recurs
  <2>5. ASSUME NEW j \in 1 .. m
        PROVE  f[j] \in V /\ f[j] = step[j][[k \in 1 .. j - 1 |-> f[k]]]
    <3>1. CASE j = m
      <4>1. [k \in 1 .. j - 1 |-> f[k]] = g
        BY <2>4, <3>1
      <4> QED
        BY <2>4, <3>1, <4>1
    <3>2. CASE j # m
      <4>1. [k \in 1 .. j - 1 |-> f[k]] = [k \in 1 .. j - 1 |-> g[k]]
        BY <2>4, <3>2
      <4>2. j \in 1 .. m - 1 /\ f[j] = g[j]
        BY <2>4, <3>2
      <4> QED
        BY <2>3, <2>4, <4>1, <4>2 DEF Recurs
    <3> QED
      BY <3>1, <3>2
  <2>6. Recurs(step, V, m, f)
    <3>1. f \in [1 .. m -> V]
      BY <2>5
    <3> HIDE DEF f
    <3> QED
      BY <2>5, <3>1 DEF Recurs
  <2> QED
    BY <2>6
<1>2. n \notin B
  BY <1>1
<1> QED
  BY <1>2

\* A graph's nodes.
LEMMA GraphNodes ==
  ASSUME NEW g \in Graphs
  PROVE  /\ DOMAIN g = 1 .. Len(g) /\ Len(g) \in Nat
         /\ \A i \in 1 .. Len(g) : g[i].params \in SUBSET Params /\ g[i].view \in BOOLEAN /\ g[i].nodes \subseteq 1 .. i - 1
<1>1. g \in Seq([params : SUBSET (1 .. NumParams), nodes : SUBSET Nat, view : BOOLEAN])
  BY RollingAssumption
<1>2. \A i \in DOMAIN g : g[i].nodes \subseteq 1 .. i - 1
  BY RollingAssumption
<1>3. /\ DOMAIN g = 1 .. Len(g) /\ Len(g) \in Nat
      /\ \A i \in 1 .. Len(g) : g[i] \in [params : SUBSET (1 .. NumParams), nodes : SUBSET Nat, view : BOOLEAN]
  <2> DEFINE S == [params : SUBSET (1 .. NumParams), nodes : SUBSET Nat, view : BOOLEAN]
  <2>1. g \in Seq(S)
    BY <1>1
  <2> HIDE DEF S
  <2>2. DOMAIN g = 1 .. Len(g) /\ Len(g) \in Nat /\ \A i \in 1 .. Len(g) : g[i] \in S
    BY <2>1
  <2> QED
    BY <2>2 DEF S
<1> QED
  BY <1>2, <1>3 DEF Params

\* The views of a slot are those that view it, or a view of it.
LEMMA RenamesAre ==
  ASSUME NEW g \in Graphs, NEW p
  PROVE  \A i \in DOMAIN g :
           i \in Renames(g, p) <=> g[i].view /\ (p \in g[i].params \/ \E j \in g[i].nodes : j \in Renames(g, p))
<1> DEFINE Body(h, i) == g[i].view /\ (p \in g[i].params \/ \E j \in g[i].nodes : h[j])
           Is(f) == f = [i \in DOMAIN g |-> Body(f, i)]
           step == [i \in 1 .. Len(g) |-> [h \in [1 .. i - 1 -> BOOLEAN] |-> Body(h, i)]]
<1>1. /\ DOMAIN g = 1 .. Len(g) /\ Len(g) \in Nat
      /\ \A i \in 1 .. Len(g) : g[i].view \in BOOLEAN /\ g[i].nodes \subseteq 1 .. i - 1
  BY GraphNodes
<1>2. \E f : Is(f)
  <2>1. ASSUME NEW i \in 1 .. Len(g), NEW h \in [1 .. i - 1 -> BOOLEAN]
        PROVE  step[i][h] \in BOOLEAN
    BY <1>1
  <2>2. PICK f : Recurs(step, BOOLEAN, Len(g), f)
    <3> HIDE DEF step
    <3> QED
      BY <1>1, <2>1, RecursExists
  <2>3. ASSUME NEW i \in 1 .. Len(g)
        PROVE  f[i] = Body(f, i)
    <3> DEFINE h == [k \in 1 .. i - 1 |-> f[k]]
    <3>1. h \in [1 .. i - 1 -> BOOLEAN]
      BY <1>1, <2>2 DEF Recurs
    <3>2. f[i] = step[i][h]
      BY <2>2 DEF Recurs
    <3>3. step[i][h] = Body(h, i)
      BY <3>1
    <3>4. \A j \in g[i].nodes : h[j] = f[j]
      BY <1>1
    <3>5. Body(h, i) = Body(f, i)
      <4> HIDE DEF h
      <4> QED
        BY <3>4
    <3> QED
      BY <3>2, <3>3, <3>5
  <2>4. f = [i \in DOMAIN g |-> Body(f, i)]
    BY <1>1, <2>2, <2>3 DEF Recurs
  <2> QED
    BY <2>4
<1> DEFINE alias == CHOOSE f : Is(f)
<1>3. Is(alias)
  BY <1>2
<1>4. Renames(g, p) = {i \in DOMAIN g : alias[i]}
  BY DEF Renames
<1> HIDE DEF alias
<1>5. \A i \in DOMAIN g : i \in Renames(g, p) <=> alias[i]
  BY <1>4
<1>6. \A i \in DOMAIN g : alias[i] = Body(alias, i)
  BY <1>3
<1>7. \A i \in DOMAIN g : \A j \in g[i].nodes : j \in DOMAIN g
  BY <1>1
<1> QED
  BY <1>5, <1>6, <1>7

\* What a node's kernel touches: what the node reads itself, and through its views.
LEMMA TouchesAre ==
  ASSUME NEW g \in Graphs
  PROVE  \A i \in DOMAIN g : \A p \in Touches(g, i) :
           p \in g[i].params \/ \E k \in g[i].nodes : g[k].view /\ p \in Touches(g, k)
<1> DEFINE Body(h, i) == g[i].params \cup UNION {IF g[k].view THEN h[k] ELSE {} : k \in g[i].nodes}
           Is(f) == f = [i \in DOMAIN g |-> Body(f, i)]
           step == [i \in 1 .. Len(g) |-> [h \in [1 .. i - 1 -> SUBSET Params] |-> Body(h, i)]]
<1>1. /\ DOMAIN g = 1 .. Len(g) /\ Len(g) \in Nat
      /\ \A i \in 1 .. Len(g) : g[i].params \in SUBSET Params /\ g[i].nodes \subseteq 1 .. i - 1
  BY GraphNodes
<1>2. PICK f : Recurs(step, SUBSET Params, Len(g), f)
  <2>1. ASSUME NEW i \in 1 .. Len(g), NEW h \in [1 .. i - 1 -> SUBSET Params]
        PROVE  step[i][h] \in SUBSET Params
    BY <1>1
  <2> HIDE DEF step
  <2> QED
    BY <1>1, <2>1, RecursExists
<1>3. f \in [1 .. Len(g) -> SUBSET Params] /\ Is(f)
  <2>1. ASSUME NEW i \in 1 .. Len(g)
        PROVE  f[i] = Body(f, i)
    <3> DEFINE h == [k \in 1 .. i - 1 |-> f[k]]
    <3>1. h \in [1 .. i - 1 -> SUBSET Params]
      BY <1>1, <1>2 DEF Recurs
    <3>2. f[i] = step[i][h]
      BY <1>2 DEF Recurs
    <3>3. step[i][h] = Body(h, i)
      BY <3>1
    <3>4. \A j \in g[i].nodes : h[j] = f[j]
      BY <1>1
    <3>5. Body(h, i) = Body(f, i)
      <4> HIDE DEF h
      <4> QED
        BY <3>4
    <3> QED
      BY <3>2, <3>3, <3>5
  <2> QED
    BY <1>1, <1>2, <2>1 DEF Recurs
<1> DEFINE slots == CHOOSE h : Is(h)
<1>4. Is(slots)
  BY <1>3
<1>5. \A i : Touches(g, i) = slots[i]
  BY DEF Touches
<1> HIDE DEF slots
<1>6. ASSUME NEW i \in DOMAIN g, NEW p \in slots[i]
      PROVE  p \in g[i].params \/ \E k \in g[i].nodes : g[k].view /\ p \in slots[k]
  <2>1. slots[i] = Body(slots, i)
    BY <1>4
  <2> QED
    BY <2>1
<1> QED
  BY <1>5, <1>6

\* A kernel only touches slots that the node is a reader of.
LEMMA TouchesRead ==
  ASSUME NEW g \in Graphs, NEW i \in DOMAIN g, ~g[i].view, NEW p \in Touches(g, i)
  PROVE  p \in Params /\ i \in Readers(g, p)
<1> DEFINE Read(k) == p \in Params /\ (p \in g[k].params \/ g[k].nodes \cap Renames(g, p) # {})
           B == {k \in DOMAIN g : p \in Touches(g, k) /\ ~Read(k)}
<1>1. /\ DOMAIN g = 1 .. Len(g) /\ Len(g) \in Nat
      /\ \A k \in 1 .. Len(g) : g[k].params \in SUBSET Params /\ g[k].nodes \subseteq 1 .. k - 1
  BY GraphNodes
<1>2. ASSUME B # {}
      PROVE  FALSE
  <2>1. PICK m \in B : \A l \in B : m <= l
    <3>1. B \in SUBSET (0 .. Len(g))
      BY <1>1
    <3>2. Min(B) \in B /\ \A l \in B : Min(B) <= l
      <4> HIDE DEF B
      <4> QED
        BY <1>1, <1>2, <3>1, MinLeast
    <3> QED
      BY <3>2
  <2>2. p \notin g[m].params
    BY <1>1, <2>1
  <2>3. PICK k \in g[m].nodes : g[k].view /\ p \in Touches(g, k)
    <3>1. \E k \in g[m].nodes : g[k].view /\ p \in Touches(g, k)
      BY <2>1, <2>2, TouchesAre
    <3> QED
      BY <3>1
  <2>4. k \in DOMAIN g /\ ~(m <= k)
    BY <1>1, <2>1
  <2>5. Read(k)
    BY <2>1, <2>3, <2>4
  <2>6. k \in Renames(g, p)
    BY <2>3, <2>4, <2>5, RenamesAre
  <2> QED
    BY <2>1, <2>5, <2>6
<1>3. Read(i)
  BY <1>2
<1> QED
  BY <1>3 DEF Readers

-----------------------------------------------------------------------------
(* The streams' queues *)

\* An event counted from its own place is sooner by one when the front has ended.
LEMMA SoonerNat ==
  \A n \in Nat : Sooner(n) \in Nat /\ (n = 0 => Sooner(n) = 0) /\ (n # 0 => Sooner(n) = n - 1)
BY DEF Sooner

\* What a queued kernel is made of.
LEMMA KernelFields ==
  ASSUME NEW k \in Seq(Kernel)
  PROVE  /\ DOMAIN k = 1 .. Len(k) /\ Len(k) \in Nat
         /\ \A i \in 1 .. Len(k) : k[i] \in Kernel /\ k[i].block \in RollingBlocks /\ k[i].reads \in SUBSET Params /\ k[i].after \in Nat
<1>1. DOMAIN k = 1 .. Len(k) /\ Len(k) \in Nat /\ \A i \in 1 .. Len(k) : k[i] \in Kernel
  OBVIOUS
<1> QED
  BY <1>1 DEF Kernel

\* What a queued copy is made of.
LEMMA CopyFields ==
  ASSUME NEW q \in Seq(Copy)
  PROVE  /\ DOMAIN q = 1 .. Len(q) /\ Len(q) \in Nat
         /\ \A j \in 1 .. Len(q) : q[j] \in Copy /\ q[j].block \in RollingBlocks \cup {None} /\ q[j].param \in Params /\ q[j].after \in Nat
<1>1. DOMAIN q = 1 .. Len(q) /\ Len(q) \in Nat /\ \A j \in 1 .. Len(q) : q[j] \in Copy
  OBVIOUS
<1> QED
  BY <1>1 DEF Copy

\* When a kernel has ended, what the copies wait for is one less, and nothing else.
LEMMA CopiesSooner ==
  ASSUME NEW q \in Seq(Copy), NEW t, t = [j \in DOMAIN q |-> [q[j] EXCEPT !.after = Sooner(@)]]
  PROVE  /\ t \in Seq(Copy) /\ Len(t) = Len(q)
         /\ \A j \in 1 .. Len(q) :
              t[j].block = q[j].block /\ t[j].param = q[j].param /\ t[j].after = Sooner(q[j].after)
<1>1. ASSUME NEW j \in 1 .. Len(q)
      PROVE  /\ t[j] \in Copy
             /\ t[j].block = q[j].block /\ t[j].param = q[j].param /\ t[j].after = Sooner(q[j].after)
  <2>1. q[j] \in Copy /\ q[j].after \in Nat /\ t[j] = [q[j] EXCEPT !.after = Sooner(@)]
    BY CopyFields
  <2> QED
    BY <2>1, SoonerNat DEF Copy
<1>2. t = [j \in 1 .. Len(q) |-> t[j]] /\ Len(q) \in Nat
  BY CopyFields
<1> HIDE DEF Copy
<1>3. t \in Seq(Copy) /\ Len(t) = Len(q)
  BY <1>1, <1>2
<1> QED
  BY <1>1, <1>3

\* When a copy has ended, what the kernels wait for is one less, and nothing else.
LEMMA KernelsSooner ==
  ASSUME NEW k \in Seq(Kernel), NEW t, t = [i \in DOMAIN k |-> [k[i] EXCEPT !.after = Sooner(@)]]
  PROVE  /\ t \in Seq(Kernel) /\ Len(t) = Len(k)
         /\ \A i \in 1 .. Len(k) :
              t[i].block = k[i].block /\ t[i].reads = k[i].reads /\ t[i].after = Sooner(k[i].after)
<1>1. ASSUME NEW i \in 1 .. Len(k)
      PROVE  /\ t[i] \in Kernel
             /\ t[i].block = k[i].block /\ t[i].reads = k[i].reads /\ t[i].after = Sooner(k[i].after)
  <2>1. k[i] \in Kernel /\ k[i].after \in Nat /\ t[i] = [k[i] EXCEPT !.after = Sooner(@)]
    BY KernelFields
  <2> QED
    BY <2>1, SoonerNat DEF Kernel
<1>2. t = [i \in 1 .. Len(k) |-> t[i]] /\ Len(k) \in Nat
  BY KernelFields
<1> HIDE DEF Kernel
<1>3. t \in Seq(Kernel) /\ Len(t) = Len(k)
  BY <1>1, <1>2
<1> QED
  BY <1>1, <1>3

\* The queue t is q and, behind it, copies into the slots of L that wait for a kernels.
Extends(t, q, L, a) ==
    /\ t \in Seq(Copy) /\ Len(t) = Len(q) + Cardinality(L)
    /\ \A j \in 1 .. Len(q) : t[j] = q[j]
    /\ \A j \in Len(q) + 1 .. Len(t) : t[j].param \in L /\ j = Len(q) + UpTo(t[j].param, L) /\ t[j].after = a

\* A refill, also one that raises, puts its copies behind those that are there.
LEMMA RefillExtends ==
  ASSUME NEW q \in Seq(Copy), NEW b, NEW slots \in SUBSET Params, NEW a \in Nat,
         NEW s, s = [i \in DOMAIN Loads(b, slots) |-> s[i]],
         \A i \in DOMAIN Loads(b, slots) : s[i] \in Copy /\ s[i].param = Loads(b, slots)[i] /\ s[i].after = a
  PROVE  /\ Extends(q \o s, q, Loaded(b, slots), a)
         /\ \A j \in Len(q) + 1 .. Len(q \o s) : j - Len(q) \in DOMAIN Loads(b, slots) /\ (q \o s)[j] = s[j - Len(q)]
<1> DEFINE L == Loaded(b, slots)
           n == Cardinality(L)
           t == q \o s
<1>1. /\ n \in Nat /\ DOMAIN Loads(b, slots) = 1 .. n
      /\ \A i \in 1 .. n : Loads(b, slots)[i] \in L /\ UpTo(Loads(b, slots)[i], L) = i
  <2> HIDE DEF L
  <2>1. L = Loaded(b, slots)
    BY DEF L
  <2> QED
    BY <2>1, LoadsCount
<1> HIDE DEF L, n
<1>2. /\ s = [i \in 1 .. n |-> s[i]]
      /\ \A i \in 1 .. n : s[i] \in Copy /\ s[i].param = Loads(b, slots)[i] /\ s[i].after = a
  BY <1>1
<1> HIDE DEF Copy
<1>3. s \in Seq(Copy) /\ Len(s) = n
  BY <1>1, <1>2
<1>4. /\ t \in Seq(Copy) /\ Len(t) = Len(q) + n /\ Len(q) \in Nat
      /\ \A j \in 1 .. Len(q) + n : t[j] = IF j <= Len(q) THEN q[j] ELSE s[j - Len(q)]
  BY <1>3, ConcatProperties
<1> HIDE DEF t
<1>5. ASSUME NEW j \in 1 .. Len(q)
      PROVE  t[j] = q[j]
  <2>1. j \in 1 .. Len(q) + n /\ j <= Len(q)
    BY <1>1, <1>4
  <2>2. t[j] = IF j <= Len(q) THEN q[j] ELSE s[j - Len(q)]
    BY <1>4, <2>1
  <2> QED
    BY <2>1, <2>2
<1>6. ASSUME NEW j \in Len(q) + 1 .. Len(t)
      PROVE  j - Len(q) \in 1 .. n /\ t[j] = s[j - Len(q)]
  <2>1. j \in 1 .. Len(q) + n /\ ~(j <= Len(q)) /\ j - Len(q) \in 1 .. n
    BY <1>1, <1>4
  <2>2. t[j] = IF j <= Len(q) THEN q[j] ELSE s[j - Len(q)]
    BY <1>4, <2>1
  <2> QED
    BY <2>1, <2>2
<1>7. ASSUME NEW j \in Len(q) + 1 .. Len(t)
      PROVE  t[j].param \in L /\ j = Len(q) + UpTo(t[j].param, L) /\ t[j].after = a
  <2>1. j - Len(q) \in 1 .. n /\ t[j].param = Loads(b, slots)[j - Len(q)] /\ t[j].after = a
    BY <1>2, <1>6
  <2>2. t[j].param \in L /\ UpTo(t[j].param, L) = j - Len(q)
    BY <1>1, <2>1
  <2> QED
    BY <1>4, <2>1, <2>2
<1>8. Extends(t, q, L, a)
  BY <1>4, <1>5, <1>7 DEF Extends, n
<1> QED
  BY <1>1, <1>6, <1>8 DEF t, L

-----------------------------------------------------------------------------
(* What a slot will hold *)

\* It only depends on where the first copies go and on whose parameters they bring.
LEMMA HoldsSame ==
  ASSUME NEW q, NEW t, NEW m, NEW p, NEW b, NEW n \in Nat,
         \A j \in 1 .. n : t[j].param = q[j].param /\ t[j].block = q[j].block,
         Holds(q, m, p, b, n)
  PROVE  Holds(t, m, p, b, n)
<1>1. CASE \E j \in 1 .. n : q[j].param = p /\ q[j].block = b /\ \A l \in j + 1 .. n : q[l].param # p
  <2>1. PICK j \in 1 .. n : q[j].param = p /\ q[j].block = b /\ \A l \in j + 1 .. n : q[l].param # p
    BY <1>1
  <2>2. \A l \in j + 1 .. n : l \in 1 .. n
    OBVIOUS
  <2>3. t[j].param = p /\ t[j].block = b /\ \A l \in j + 1 .. n : t[l].param # p
    BY <2>1, <2>2
  <2> QED
    BY <2>3 DEF Holds
<1>2. CASE m[p] = b /\ \A l \in 1 .. n : q[l].param # p
  BY <1>2 DEF Holds
<1> QED
  BY <1>1, <1>2 DEF Holds

\* Later copies do not matter if none of them goes into the slot.
LEMMA HoldsLonger ==
  ASSUME NEW q \in Seq(Copy), NEW m, NEW p, NEW b, NEW n \in Nat, NEW i \in Nat, n <= i, i <= Len(q),
         Among(q, p, n), Holds(q, m, p, b, n)
  PROVE  Holds(q, m, p, b, i) /\ Among(q, p, i)
<1>1. \A l \in 1 .. i : l \in 1 .. Len(q) /\ (q[l].param = p => l <= n)
  BY CopyFields DEF Among
<1>2. Among(q, p, i)
  BY CopyFields DEF Among
<1>3. CASE \E j \in 1 .. n : q[j].param = p /\ q[j].block = b /\ \A l \in j + 1 .. n : q[l].param # p
  <2>1. PICK j \in 1 .. n : q[j].param = p /\ q[j].block = b /\ \A l \in j + 1 .. n : q[l].param # p
    BY <1>3
  <2>2. ASSUME NEW l \in j + 1 .. i
        PROVE  q[l].param # p
    BY <1>1, <2>1
  <2>3. j \in 1 .. i
    OBVIOUS
  <2>4. Holds(q, m, p, b, i)
    BY <2>1, <2>2, <2>3 DEF Holds
  <2> QED
    BY <1>2, <2>4
<1>4. CASE m[p] = b /\ \A l \in 1 .. n : q[l].param # p
  <2>1. ASSUME NEW l \in 1 .. i
        PROVE  q[l].param # p
    BY <1>1, <1>4
  <2> QED
    BY <1>2, <1>4, <2>1 DEF Holds
<1> QED
  BY <1>3, <1>4 DEF Holds

\* Nor does it matter that the first copy has ended, unless it went into a slot that
\* nothing waited for.
LEMMA HoldsSooner ==
  ASSUME NEW q \in Seq(Copy), q # <<>>, NEW m \in [Params -> RollingBlocks \cup {None}], NEW p \in Params, NEW b,
         NEW n \in Nat, n <= Len(q), n = 0 => q[1].param # p, Holds(q, m, p, b, n)
  PROVE  Holds(Tail(q), [m EXCEPT ![q[1].param] = q[1].block], p, b, Sooner(n))
<1> DEFINE t == Tail(q)
           i == Sooner(n)
           d == [m EXCEPT ![q[1].param] = q[1].block]
<1>1. /\ Len(q) \in Nat \ {0}
      /\ \A j \in 1 .. Len(q) - 1 : t[j] = q[j + 1]
  BY HeadTailProperties, EmptySeq
<1>2. /\ i \in Nat /\ (n = 0 => i = 0) /\ (n # 0 => i = n - 1)
      /\ \A j \in 1 .. i : j + 1 \in 1 .. n /\ t[j] = q[j + 1]
  <2>1. /\ i \in Nat /\ (n = 0 => i = 0) /\ (n # 0 => i = n - 1)
    BY SoonerNat
  <2> QED
    BY <1>1, <2>1
<1>3. q[1].param = p => d[p] = q[1].block
  BY CopyFields
<1>4. q[1].param # p => d[p] = m[p]
  BY CopyFields
<1> HIDE DEF t, i, d
<1>5. CASE \E j \in 1 .. n : q[j].param = p /\ q[j].block = b /\ \A l \in j + 1 .. n : q[l].param # p
  <2>1. PICK j \in 1 .. n : q[j].param = p /\ q[j].block = b /\ \A l \in j + 1 .. n : q[l].param # p
    BY <1>5
  <2>2. CASE j = 1
    <3>1. \A l \in 1 .. i : t[l].param # p
      BY <1>2, <2>1, <2>2
    <3> QED
      BY <1>3, <2>1, <2>2, <3>1 DEF Holds, t, i, d
  <2>3. CASE j # 1
    <3>1. j - 1 \in 1 .. i /\ t[j - 1] = q[j]
      BY <1>2, <2>3
    <3>2. \A l \in (j - 1) + 1 .. i : t[l].param # p
      BY <1>2, <2>1, <2>3
    <3> QED
      BY <2>1, <3>1, <3>2 DEF Holds, t, i, d
  <2> QED
    BY <2>2, <2>3
<1>6. CASE m[p] = b /\ \A l \in 1 .. n : q[l].param # p
  <2>1. q[1].param # p
    BY <1>6
  <2>2. \A l \in 1 .. i : t[l].param # p
    BY <1>2, <1>6
  <2> QED
    BY <1>4, <1>6, <2>1, <2>2 DEF Holds, t, i, d
<1> QED
  BY <1>5, <1>6 DEF Holds

-----------------------------------------------------------------------------
(* Refills *)

\* The copies of a refill wait for kernels that are there.
LEMMA RefillBounds ==
  ASSUME NEW k \in Seq(Kernel), NEW q \in Seq(Copy), NEW L, Cardinality(L) \in Nat, NEW t, Extends(t, q, L, Len(k)),
         \A i \in DOMAIN k : k[i].after <= Len(q), \A j \in DOMAIN q : q[j].after <= Len(k)
  PROVE  /\ t \in Seq(Copy) /\ Len(q) <= Len(t)
         /\ \A j \in DOMAIN t : t[j].after <= Len(k)
         /\ \A i \in DOMAIN k : k[i].after <= Len(t)
<1>1. /\ t \in Seq(Copy) /\ Len(t) = Len(q) + Cardinality(L)
      /\ \A j \in 1 .. Len(q) : t[j] = q[j]
      /\ \A j \in Len(q) + 1 .. Len(t) : t[j].after = Len(k)
  BY DEF Extends
<1>2. /\ Len(k) \in Nat /\ Len(q) \in Nat /\ Len(t) \in Nat
      /\ DOMAIN k = 1 .. Len(k) /\ DOMAIN q = 1 .. Len(q) /\ DOMAIN t = 1 .. Len(t)
      /\ \A i \in 1 .. Len(k) : k[i].after \in Nat
  BY <1>1, KernelFields, CopyFields
<1>3. ASSUME NEW j \in DOMAIN t
      PROVE  t[j].after <= Len(k)
  <2>1. CASE j <= Len(q)
    <3>1. j \in DOMAIN q /\ t[j] = q[j]
      BY <1>1, <1>2, <2>1
    <3> QED
      BY <3>1
  <2>2. CASE j > Len(q)
    BY <1>1, <1>2, <2>2
  <2> QED
    BY <1>2, <2>1, <2>2
<1>4. ASSUME NEW i \in DOMAIN k
      PROVE  k[i].after <= Len(t)
  BY <1>1, <1>2
<1> QED
  BY <1>1, <1>2, <1>3, <1>4

\* Behind a slot's new ready event the slot holds the parameter it was refilled with;
\* the other slots hold what they did.
LEMMA RefillSlots ==
  ASSUME NEW q \in Seq(Copy), NEW b, NEW slots \in SUBSET Params, NEW L, L = Loaded(b, slots), NEW t, NEW a,
         Extends(t, q, L, a), \A j \in Len(q) + 1 .. Len(t) : t[j].block = b,
         NEW m, NEW p \in Params, NEW o, NEW n \in Nat, n <= Len(q),
         Among(q, p, n), o # None /\ <<o, p>> \notin Unloaded => Holds(q, m, p, o, n)
  PROVE  /\ p \notin slots => Among(t, p, n) /\ (o # None /\ <<o, p>> \notin Unloaded => Holds(t, m, p, o, n))
         /\ p \in slots => /\ Among(t, p, Len(q) + UpTo(p, L))
                           /\ <<b, p>> \notin Unloaded => Holds(t, m, p, b, Len(q) + UpTo(p, L))
<1>1. /\ t \in Seq(Copy) /\ Len(t) = Len(q) + Cardinality(L)
      /\ \A j \in 1 .. Len(q) : t[j] = q[j]
      /\ \A j \in Len(q) + 1 .. Len(t) : t[j].param \in L /\ j = Len(q) + UpTo(t[j].param, L)
  BY DEF Extends
<1>2. /\ L \subseteq slots /\ Cardinality(L) \in Nat /\ UpTo(p, L) \in 0 .. Cardinality(L)
      /\ p \in L => UpTo(p, L) \in 1 .. Cardinality(L)
      /\ \A i \in 1 .. Cardinality(L) : Loads(b, slots)[i] \in L /\ UpTo(Loads(b, slots)[i], L) = i
      /\ \A r \in L : UpTo(r, L) \in 1 .. Cardinality(L) /\ Loads(b, slots)[UpTo(r, L)] = r
  BY LoadsCount
<1>3. /\ Len(q) \in Nat /\ Len(t) \in Nat /\ DOMAIN q = 1 .. Len(q) /\ DOMAIN t = 1 .. Len(t)
      /\ \A j \in 1 .. Len(q) : q[j].param = p => j <= n
  BY <1>1, CopyFields DEF Among
<1>4. ASSUME p \notin slots
      PROVE  Among(t, p, n) /\ (o # None /\ <<o, p>> \notin Unloaded => Holds(t, m, p, o, n))
  <2>1. ASSUME NEW j \in DOMAIN t, t[j].param = p
        PROVE  j <= n
    <3>1. ~(j \in Len(q) + 1 .. Len(t))
      BY <1>1, <1>2, <1>4, <2>1
    <3>2. j \in 1 .. Len(q)
      BY <1>3, <3>1
    <3> QED
      BY <1>1, <1>3, <2>1, <3>2
  <2>2. \A j \in 1 .. n : t[j].param = q[j].param /\ t[j].block = q[j].block
    BY <1>1, <1>3
  <2>3. Holds(q, m, p, o, n) => Holds(t, m, p, o, n)
    BY <2>2, HoldsSame
  <2> QED
    BY <2>1, <2>3 DEF Among
<1>5. ASSUME p \in slots
      PROVE  /\ Among(t, p, Len(q) + UpTo(p, L))
             /\ <<b, p>> \notin Unloaded => Holds(t, m, p, b, Len(q) + UpTo(p, L))
  <2> DEFINE i == Len(q) + UpTo(p, L)
  <2>1. ASSUME NEW j \in DOMAIN t, t[j].param = p
        PROVE  j <= i
    <3>1. CASE j <= Len(q)
      BY <1>2, <1>3, <3>1
    <3>2. CASE j > Len(q)
      <4>1. j \in Len(q) + 1 .. Len(t)
        BY <1>3, <3>2
      <4> QED
        BY <1>1, <1>2, <1>3, <2>1, <4>1
    <3> QED
      BY <1>3, <3>1, <3>2
  <2>2. ASSUME <<b, p>> \notin Unloaded
        PROVE  Holds(t, m, p, b, i)
    <3>1. p \in L
      BY <1>5, <2>2 DEF Loaded
    <3>2. UpTo(p, L) \in 1 .. Cardinality(L) /\ Loads(b, slots)[UpTo(p, L)] = p
      BY <1>2, <3>1
    <3>3. i \in Len(q) + 1 .. Len(t) /\ i \in Nat /\ i - Len(q) = UpTo(p, L)
      BY <1>1, <1>2, <1>3, <3>2
    <3>4. t[i].param \in L /\ i = Len(q) + UpTo(t[i].param, L) /\ t[i].block = b
      BY <1>1, <3>3
    <3>5. UpTo(t[i].param, L) \in Nat
      BY <1>2, <3>4
    <3>6. UpTo(t[i].param, L) = UpTo(p, L)
      <4> HIDE DEF i
      <4> QED
        BY <1>3, <3>3, <3>4, <3>5
    <3>7. t[i].param = p
      BY <1>2, <3>1, <3>4, <3>6
    <3>8. i \in 1 .. i /\ \A l \in i + 1 .. i : t[l].param # p
      BY <1>3, <3>3
    <3> QED
      BY <3>4, <3>7, <3>8 DEF Holds
  <2> QED
    BY <2>1, <2>2 DEF Among
<1> QED
  BY <1>4, <1>5

\* The kernels that are there read what they did.
LEMMA RefillReading ==
  ASSUME NEW k \in Seq(Kernel), NEW q \in Seq(Copy), NEW L, NEW t, Extends(t, q, L, Len(k)),
         \A i \in DOMAIN k : k[i].after <= Len(q), NEW m, RollingReading(k, q, m)
  PROVE  RollingReading(k, t, m)
<1>1. /\ t \in Seq(Copy)
      /\ \A j \in 1 .. Len(q) : t[j] = q[j]
      /\ \A j \in Len(q) + 1 .. Len(t) : t[j].after = Len(k)
  BY DEF Extends
<1>2. /\ Len(k) \in Nat /\ Len(q) \in Nat /\ Len(t) \in Nat
      /\ DOMAIN k = 1 .. Len(k) /\ DOMAIN q = 1 .. Len(q) /\ DOMAIN t = 1 .. Len(t)
      /\ \A i \in 1 .. Len(k) : k[i].after \in Nat
  BY <1>1, KernelFields, CopyFields
<1>3. ASSUME NEW i \in DOMAIN k, NEW p \in k[i].reads
      PROVE  /\ Holds(t, m, p, k[i].block, k[i].after)
             /\ \A j \in DOMAIN t : t[j].param = p => j <= k[i].after \/ t[j].after >= i
  <2>1. Holds(q, m, p, k[i].block, k[i].after) /\ \A j \in DOMAIN q : q[j].param = p => j <= k[i].after \/ q[j].after >= i
    BY DEF RollingReading
  <2>2. \A j \in 1 .. k[i].after : t[j].param = q[j].param /\ t[j].block = q[j].block
    BY <1>1, <1>2
  <2>3. Holds(t, m, p, k[i].block, k[i].after)
    BY <1>2, <2>1, <2>2, HoldsSame
  <2>4. ASSUME NEW j \in DOMAIN t, t[j].param = p
        PROVE  j <= k[i].after \/ t[j].after >= i
    <3>1. CASE j \in 1 .. Len(q)
      BY <1>1, <1>2, <2>1, <2>4, <3>1
    <3>2. CASE j \in Len(q) + 1 .. Len(t)
      BY <1>1, <1>2, <3>2
    <3> QED
      BY <1>2, <3>1, <3>2
  <2> QED
    BY <2>3, <2>4
<1> QED
  BY <1>3 DEF RollingReading

\* What a refill that does not raise makes of the queue and the slots.
LEMMA RefilledStep ==
  ASSUME NEW b \in RollingBlocks, NEW slots \in SUBSET Params, RollingTyped, Bounded, Refilled(b, slots)
  PROVE  /\ copies' \in Seq(Copy) /\ owners' \in [Params -> RollingBlocks \cup {None}] /\ ready' \in [Params -> Nat]
         /\ Len(copies) <= Len(copies') /\ \A p \in Params : ready'[p] <= Len(copies')
         /\ \A j \in DOMAIN copies' : copies'[j].after <= Len(kernels)
         /\ \A i \in DOMAIN kernels : kernels[i].after <= Len(copies')
         /\ barrier <= Len(copies')
         /\ \A p \in Params : owners'[p] = IF p \in slots THEN b ELSE owners[p]
         /\ \A p \in Params : p \notin slots => ready'[p] = ready[p]
         /\ Slots => \A p \in Params :
              /\ Among(copies', p, ready'[p])
              /\ owners'[p] # None /\ <<owners'[p], p>> \notin Unloaded => Holds(copies', mem, p, owners'[p], ready'[p])
         /\ RollingReading(kernels, copies, mem) => RollingReading(kernels, copies', mem)
<1> DEFINE L == Loaded(b, slots)
           s == [i \in DOMAIN Loads(b, slots) |-> [block |-> b, param |-> Loads(b, slots)[i], after |-> Len(kernels)]]
<1>1. /\ kernels \in Seq(Kernel) /\ copies \in Seq(Copy) /\ Len(kernels) \in Nat /\ Len(copies) \in Nat
      /\ \A i \in DOMAIN kernels : kernels[i].after <= Len(copies)
      /\ \A j \in DOMAIN copies : copies[j].after <= Len(kernels)
      /\ owners \in [Params -> RollingBlocks \cup {None}] /\ ready \in [Params -> Nat]
      /\ \A p \in Params : ready[p] <= Len(copies)
  BY KernelFields, CopyFields DEF RollingTyped, Bounded
<1>2. /\ copies' = copies \o s
      /\ ready' = [p \in Params |-> IF p \in slots THEN Len(copies) + UpTo(p, L) ELSE ready[p]]
      /\ owners' = [p \in Params |-> IF p \in slots THEN b ELSE owners[p]]
  BY DEF Refilled
<1>3. /\ L \subseteq slots /\ Cardinality(L) \in Nat
      /\ \A p \in Params : UpTo(p, L) \in 0 .. Cardinality(L)
      /\ DOMAIN Loads(b, slots) = 1 .. Cardinality(L)
      /\ \A i \in 1 .. Cardinality(L) : Loads(b, slots)[i] \in L
  <2> HIDE DEF L
  <2>1. L = Loaded(b, slots)
    BY DEF L
  <2> QED
    BY <2>1, LoadsCount
<1>4. /\ s = [i \in DOMAIN Loads(b, slots) |-> s[i]]
      /\ \A i \in DOMAIN Loads(b, slots) : s[i] \in Copy /\ s[i].param = Loads(b, slots)[i] /\ s[i].after = Len(kernels)
      /\ \A i \in DOMAIN Loads(b, slots) : s[i].block = b
  BY <1>1, <1>3 DEF Copy
<1> HIDE DEF s
<1>5. /\ Extends(copies', copies, L, Len(kernels))
      /\ \A j \in Len(copies) + 1 .. Len(copies') : copies'[j].block = b
  <2>1. /\ Extends(copies \o s, copies, L, Len(kernels))
        /\ \A j \in Len(copies) + 1 .. Len(copies \o s) :
             j - Len(copies) \in DOMAIN Loads(b, slots) /\ (copies \o s)[j] = s[j - Len(copies)]
    <3>1. copies \in Seq(Copy) /\ Len(kernels) \in Nat
      BY <1>1
    <3> HIDE DEF L
    <3>2. L = Loaded(b, slots)
      BY DEF L
    <3> QED
      BY <1>4, <3>1, <3>2, RefillExtends
  <2> QED
    BY <1>2, <1>4, <2>1
<1>6. /\ copies' \in Seq(Copy) /\ Len(copies) <= Len(copies')
      /\ \A j \in DOMAIN copies' : copies'[j].after <= Len(kernels)
      /\ \A i \in DOMAIN kernels : kernels[i].after <= Len(copies')
  <2> HIDE DEF L
  <2> QED
    BY <1>1, <1>3, <1>5, RefillBounds
<1>7. Len(copies') = Len(copies) + Cardinality(L) /\ barrier <= Len(copies')
  BY <1>1, <1>3, <1>5 DEF Extends, RollingTyped, Bounded
<1> HIDE DEF L
<1>8. owners' \in [Params -> RollingBlocks \cup {None}] /\ \A p \in Params : owners'[p] = IF p \in slots THEN b ELSE owners[p]
  BY <1>1, <1>2
<1>9. ASSUME NEW p \in Params
      PROVE  /\ ready'[p] = IF p \in slots THEN Len(copies) + UpTo(p, L) ELSE ready[p]
             /\ ready'[p] \in Nat /\ ready'[p] <= Len(copies')
  BY <1>1, <1>2, <1>3, <1>7
<1>10. ready' \in [Params -> Nat]
  BY <1>2, <1>9
<1>11. ASSUME Slots, NEW p \in Params
       PROVE  /\ Among(copies', p, ready'[p])
              /\ owners'[p] # None /\ <<owners'[p], p>> \notin Unloaded => Holds(copies', mem, p, owners'[p], ready'[p])
  <2>1. /\ Among(copies, p, ready[p])
        /\ owners[p] # None /\ <<owners[p], p>> \notin Unloaded => Holds(copies, mem, p, owners[p], ready[p])
    BY <1>11 DEF Slots
  <2>2. ready[p] \in Nat /\ ready[p] <= Len(copies) /\ L = Loaded(b, slots)
    BY <1>1 DEF L
  <2> DEFINE o == owners[p]
             n == ready[p]
  <2>3. /\ p \notin slots => Among(copies', p, n) /\ (o # None /\ <<o, p>> \notin Unloaded => Holds(copies', mem, p, o, n))
        /\ p \in slots => /\ Among(copies', p, Len(copies) + UpTo(p, L))
                          /\ <<b, p>> \notin Unloaded => Holds(copies', mem, p, b, Len(copies) + UpTo(p, L))
    <3>1. /\ n \in Nat /\ n <= Len(copies) /\ Among(copies, p, n)
          /\ o # None /\ <<o, p>> \notin Unloaded => Holds(copies, mem, p, o, n)
      BY <2>1, <2>2
    <3> HIDE DEF o, n
    <3> QED
      BY <1>1, <1>5, <2>2, <3>1, RefillSlots
  <2> QED
    BY <1>8, <1>9, <2>3
<1>12. ASSUME RollingReading(kernels, copies, mem)
       PROVE  RollingReading(kernels, copies', mem)
  BY <1>1, <1>5, <1>12, RefillReading
<1> QED
  BY <1>6, <1>7, <1>8, <1>9, <1>10, <1>11, <1>12

\* What a refill that raises makes of them.
LEMMA RefillFailsStep ==
  ASSUME NEW b \in RollingBlocks, NEW slots \in SUBSET Params, RollingTyped, Bounded, RefillFails(b, slots)
  PROVE  /\ copies' \in Seq(Copy) /\ owners' \in [Params -> RollingBlocks \cup {None}] /\ ready' \in [Params -> Nat]
         /\ Len(copies) <= Len(copies') /\ \A p \in Params : ready'[p] <= Len(copies')
         /\ \A j \in DOMAIN copies' : copies'[j].after <= Len(kernels)
         /\ \A i \in DOMAIN kernels : kernels[i].after <= Len(copies')
         /\ barrier <= Len(copies')
         /\ faults' \in 0 .. MaxFaults /\ faults' # 0
<1>1. /\ kernels \in Seq(Kernel) /\ copies \in Seq(Copy) /\ Len(kernels) \in Nat /\ Len(copies) \in Nat
      /\ \A i \in DOMAIN kernels : kernels[i].after <= Len(copies)
      /\ \A j \in DOMAIN copies : copies[j].after <= Len(kernels)
      /\ owners \in [Params -> RollingBlocks \cup {None}] /\ ready \in [Params -> Nat]
      /\ \A p \in Params : ready[p] <= Len(copies)
  BY KernelFields, CopyFields DEF RollingTyped, Bounded
<1>2. faults' \in 0 .. MaxFaults /\ faults' # 0
  BY RollingAssumption DEF RefillFails, RollingTyped
<1> DEFINE Below(p) == {q \in slots : q < p}
           With(p) == Below(p) \cup {p}
           s(p) == [i \in DOMAIN Loads(b, With(p)) |->
                      [block |-> IF Loads(b, With(p))[i] = p THEN None ELSE b, param |-> Loads(b, With(p))[i],
                       after |-> Len(kernels)]]
<1>3. PICK p \in slots :
        /\ copies' = copies \o s(p)
        /\ ready' = [q \in Params |-> IF q \in Below(p) THEN Len(copies) + UpTo(q, Loaded(b, Below(p))) ELSE ready[q]]
        /\ owners' = [q \in Params |-> IF q \in Below(p) THEN b ELSE owners[q]]
  BY DEF RefillFails
<1>4. Below(p) \in SUBSET Params /\ With(p) \in SUBSET Params /\ Below(p) \in SUBSET With(p)
  OBVIOUS
<1> HIDE DEF Below, With
<1> DEFINE L == Loaded(b, With(p))
           F == Loaded(b, Below(p))
<1>5. /\ L \subseteq Params /\ Cardinality(L) \in Nat
      /\ DOMAIN Loads(b, With(p)) = 1 .. Cardinality(L)
      /\ \A i \in 1 .. Cardinality(L) : Loads(b, With(p))[i] \in L
  <2> HIDE DEF L
  <2>1. L = Loaded(b, With(p))
    BY DEF L
  <2> QED
    BY <1>4, <2>1, LoadsCount
<1>6. Cardinality(F) \in Nat /\ \A q \in Params : UpTo(q, F) \in 0 .. Cardinality(F)
  <2> HIDE DEF F
  <2>1. F = Loaded(b, Below(p))
    BY DEF F
  <2> QED
    BY <1>4, <2>1, LoadsCount
<1>7. Cardinality(F) <= Cardinality(L)
  BY <1>4, LoadedWithin
<1>8. /\ s(p) = [i \in DOMAIN Loads(b, With(p)) |-> s(p)[i]]
      /\ \A i \in DOMAIN Loads(b, With(p)) :
           s(p)[i] \in Copy /\ s(p)[i].param = Loads(b, With(p))[i] /\ s(p)[i].after = Len(kernels)
  BY <1>1, <1>5 DEF Copy
<1>9. Extends(copies', copies, L, Len(kernels))
  <2> HIDE DEF s
  <2>1. Extends(copies \o s(p), copies, L, Len(kernels))
    BY <1>1, <1>4, <1>8, RefillExtends
  <2> QED
    BY <1>3, <2>1
<1>10. /\ copies' \in Seq(Copy) /\ Len(copies) <= Len(copies')
       /\ \A j \in DOMAIN copies' : copies'[j].after <= Len(kernels)
       /\ \A i \in DOMAIN kernels : kernels[i].after <= Len(copies')
  <2> HIDE DEF L
  <2> QED
    BY <1>1, <1>5, <1>9, RefillBounds
<1>11. Len(copies') = Len(copies) + Cardinality(L) /\ barrier <= Len(copies')
  BY <1>1, <1>5, <1>9 DEF Extends, RollingTyped, Bounded
<1> HIDE DEF L, s
<1>12. owners' \in [Params -> RollingBlocks \cup {None}]
  BY <1>1, <1>3
<1>13. ready' = [q \in Params |-> IF q \in Below(p) THEN Len(copies) + UpTo(q, F) ELSE ready[q]]
  BY <1>3
<1> HIDE DEF F
<1>14. ASSUME NEW q \in Params
       PROVE  ready'[q] \in Nat /\ ready'[q] <= Len(copies')
  BY <1>1, <1>5, <1>6, <1>7, <1>11, <1>13
<1>15. ready' \in [Params -> Nat]
  BY <1>13, <1>14
<1> QED
  BY <1>2, <1>10, <1>11, <1>12, <1>14, <1>15

-----------------------------------------------------------------------------
(* The schedule *)

\* Operations of different kinds, or on different slots or nodes, are different.
LEMMA OperationsDiffer ==
  \A x, y : /\ Wait(x) # Refill(y) /\ Wait(x) # Node(y) /\ Refill(x) # Node(y)
            /\ (Wait(x) = Wait(y) => x = y) /\ (Refill(x) = Refill(y) => x = y) /\ (Node(x) = Node(y) => x = y)
BY DEF Wait, Refill, Node

\* A slot's readers come after its wait and before its refill.
LEMMA ReadersBetween ==
  ASSUME NEW g, NEW p \in Params, NEW i \in Readers(g, p)
  PROVE  /\ Wait(p) \in Operations(g) /\ Node(i) \in Operations(g)
         /\ Ordered(g, Wait(p), Node(i)) /\ Ordered(g, Node(i), Refill(p))
<1>1. p \in Waited(g) /\ i \in DOMAIN g /\ ~g[i].view
  BY DEF Waited, Readers
<1>2. Wait(p).op = "wait" /\ Wait(p).arg = p /\ Node(i).op = "node" /\ Node(i).arg = i /\ Refill(p).op = "refill" /\ Refill(p).arg = p
  BY DEF Wait, Node, Refill
<1>3. Ordered(g, Wait(p), Node(i)) /\ Ordered(g, Node(i), Refill(p))
  BY <1>2 DEF Ordered
<1> QED
  BY <1>1, <1>3 DEF Operations

\* What a running block's node reads is a slot that the node reads, and has been waited for.
LEMMA WaitedFor ==
  ASSUME RollingTyped, NEW i \in DOMAIN graph, Issue(Node(i)), NEW p \in Touches(graph, i)
  PROVE  p \in Params /\ i \in Readers(graph, p) /\ Wait(p) \in ran
<1>1. /\ Node(i) \in Operations(graph) \ ran
      /\ \A y \in Operations(graph) \ ran : ~Ordered(graph, y, Node(i))
  BY DEF Issue
<1>2. ~graph[i].view
  <2>1. Node(i) \in {Node(k) : k \in {j \in DOMAIN graph : ~graph[j].view}}
    BY <1>1, OperationsDiffer DEF Operations
  <2> QED
    BY <2>1, OperationsDiffer
<1>3. p \in Params /\ i \in Readers(graph, p)
  BY <1>2, TouchesRead DEF RollingTyped
<1>4. Wait(p) \in ran
  BY <1>1, <1>3, ReadersBetween
<1> QED
  BY <1>3, <1>4

\* And it has not yet been refilled.
LEMMA ReadyToRead ==
  ASSUME RollingTyped, Scheduled, NEW i \in DOMAIN graph, Issue(Node(i)), NEW p \in Touches(graph, i)
  PROVE  p \in Params /\ owners[p] = block /\ ready[p] <= barrier
<1>1. block # None /\ Node(i) \notin ran
  BY DEF Issue
<1>2. p \in Params /\ i \in Readers(graph, p) /\ Wait(p) \in ran
  BY WaitedFor
<1>3. Refill(p) \notin ran
  BY <1>1, <1>2 DEF Scheduled
<1> QED
  BY <1>1, <1>2, <1>3 DEF Scheduled

\* The larger of two.
LEMMA MaxOfTwo ==
  ASSUME NEW a \in Nat, NEW b \in Nat
  PROVE  Max({a, b}) \in {a, b} /\ a <= Max({a, b}) /\ b <= Max({a, b})
<1>1. \E x \in {a, b} : \A y \in {a, b} : x >= y
  OBVIOUS
<1>2. Max({a, b}) \in {a, b} /\ \A y \in {a, b} : Max({a, b}) >= y
  BY <1>1 DEF Max
<1> QED
  BY <1>2

-----------------------------------------------------------------------------
(* Every step keeps the invariant *)

\* Nothing is queued at first, and no slot has an owner.
LEMMA InitHolds == RollingInit => RollingInv
<1> SUFFICES ASSUME RollingInit PROVE RollingInv
  OBVIOUS
<1>1. /\ graph \in Graphs /\ wraparound \in BOOLEAN /\ leased = FALSE /\ block = None /\ ran = {}
      /\ recorded = {} /\ mark = 0 /\ installed = 0 /\ hooked = FALSE
      /\ owners = [p \in Params |-> None] /\ ready = [p \in Params |-> 0] /\ barrier = 0
      /\ kernels = <<>> /\ copies = <<>> /\ mem = [p \in Params |-> None] /\ calls = 0 /\ faults = 0
  BY DEF RollingInit, Idle
<1>2. Len(<<>>) = 0 /\ DOMAIN <<>> = {} /\ <<>> \in Seq(Kernel) /\ <<>> \in Seq(Copy)
  OBVIOUS
<1>3. RollingTyped
  <2> HIDE DEF Kernel, Copy
  <2>1. 0 \in Nat /\ 0 \in 0 .. MaxCalls /\ 0 \in 0 .. MaxFaults /\ 0 \in 0 .. NumBlocks
    BY RollingAssumption
  <2> QED
    BY <1>1, <1>2, <2>1 DEF RollingTyped
<1>4. Bounded
  BY <1>1, <1>2 DEF Bounded
<1>5. Known /\ RollingReleased
  BY <1>1 DEF Known, RollingReleased
<1>6. Slots
  BY <1>1, <1>2 DEF Slots, Among
<1>7. RollingReading(kernels, copies, mem) /\ Scheduled /\ Hooked
  BY <1>1, <1>2 DEF RollingReading, Scheduled, Hooked
<1> QED
  BY <1>3, <1>4, <1>5, <1>6, <1>7 DEF RollingInv, Streams, Parameters

\* What staging puts on the prefetch stream: a copy into every slot of L, in their order.
LEMMA StagesCopies ==
  ASSUME NEW slots \in SUBSET Params, NEW spoilt, NEW L, L = Loaded(0, slots)
  PROVE  /\ Stages(slots, spoilt) \in Seq(Copy) /\ Len(Stages(slots, spoilt)) = Cardinality(L) /\ Cardinality(L) \in Nat
         /\ \A j \in 1 .. Cardinality(L) :
              /\ Stages(slots, spoilt)[j].after = 0 /\ Stages(slots, spoilt)[j].param \in L
              /\ UpTo(Stages(slots, spoilt)[j].param, L) = j
              /\ Stages(slots, spoilt)[j].param # spoilt => Stages(slots, spoilt)[j].block = 0
         /\ \A p \in L : UpTo(p, L) \in 1 .. Cardinality(L) /\ Stages(slots, spoilt)[UpTo(p, L)].param = p
<1> DEFINE n == Cardinality(L)
           loads == Loads(0, slots)
           s == Stages(slots, spoilt)
<1>1. /\ L \subseteq slots /\ n \in Nat /\ DOMAIN loads = 1 .. n
      /\ \A i \in 1 .. n : loads[i] \in L /\ UpTo(loads[i], L) = i
      /\ \A p \in L : UpTo(p, L) \in 1 .. n /\ loads[UpTo(p, L)] = p
  BY LoadsCount
<1>2. s = [i \in 1 .. n |-> [block |-> IF loads[i] = spoilt THEN None ELSE 0, param |-> loads[i], after |-> 0]]
  BY <1>1 DEF Stages
<1> HIDE DEF loads, n, s
<1>3. 0 \in RollingBlocks
  BY RollingAssumption DEF RollingBlocks
<1>4. ASSUME NEW j \in 1 .. n
      PROVE  /\ s[j] \in Copy /\ s[j].after = 0 /\ s[j].param = loads[j]
             /\ s[j].param # spoilt => s[j].block = 0
  BY <1>1, <1>2, <1>3 DEF Copy
<1>5. s \in Seq(Copy) /\ Len(s) = n
  <2> HIDE DEF Copy
  <2>1. s = [i \in 1 .. n |-> s[i]]
    BY <1>2
  <2> QED
    BY <1>1, <1>4, <2>1
<1> QED
  BY <1>1, <1>4, <1>5 DEF s, n

\* Block 0 is staged into every slot, and all events are behind its copies.
LEMMA AcquirePreserves == RollingInv /\ RollingAcquire => RollingInv'
<1> SUFFICES ASSUME RollingInv, RollingAcquire PROVE RollingInv'
  OBVIOUS
<1>1. RollingTyped /\ Bounded /\ RollingReleased
  BY DEF RollingInv, Streams
<1>2. kernels = <<>> /\ block = None
  BY <1>1 DEF RollingReleased, RollingAcquire
<1> DEFINE L == Loaded(0, Params)
           n == Cardinality(L)
<1>3. /\ copies' \in Seq(Copy) /\ Len(copies') = n /\ n \in Nat /\ DOMAIN copies' = 1 .. n
      /\ \A j \in 1 .. n : copies'[j].after = 0 /\ copies'[j].param \in L /\ UpTo(copies'[j].param, L) = j
      /\ \A j \in 1 .. n : copies'[j].param # None => copies'[j].block = 0
      /\ \A p \in L : UpTo(p, L) \in 1 .. n /\ copies'[UpTo(p, L)].param = p
  <2>1. copies' = Stages(Params, None) /\ Params \in SUBSET Params
    BY DEF RollingAcquire
  <2> HIDE DEF L, Copy
  <2>2. L = Loaded(0, Params)
    BY DEF L
  <2>3. /\ copies' \in Seq(Copy) /\ Len(copies') = n /\ n \in Nat
        /\ \A j \in 1 .. n : copies'[j].after = 0 /\ copies'[j].param \in L /\ UpTo(copies'[j].param, L) = j
        /\ \A j \in 1 .. n : copies'[j].param # None => copies'[j].block = 0
        /\ \A p \in L : UpTo(p, L) \in 1 .. n /\ copies'[UpTo(p, L)].param = p
    BY <2>1, <2>2, StagesCopies
  <2> QED
    BY <2>3
<1> HIDE DEF n
<1>4. 0 \in RollingBlocks /\ 0 # None /\ None \notin Params
  BY RollingAssumption DEF RollingBlocks, None, Params
<1>5. \A j \in 1 .. n : copies'[j].block = 0
  <2>1. L \subseteq Params
    BY DEF Loaded
  <2> QED
    BY <1>3, <1>4, <2>1
<1>6. /\ owners' = [p \in Params |-> 0] /\ ready' = [p \in Params |-> n] /\ mark' = n
      /\ barrier' \in {0, n} /\ recorded' \in SUBSET {"compute", "prefetch"} /\ "prefetch" \in recorded'
      /\ mem' = [p \in Params |-> None] /\ leased' = TRUE
      /\ UNCHANGED <<graph, wraparound, kernels, block, ran, calls>>
  BY <1>3 DEF RollingAcquire
<1>7. /\ installed' \in 0 .. NumBlocks /\ hooked' \in BOOLEAN /\ faults' \in 0 .. MaxFaults
      /\ faults' = 0 => hooked'
  <2>1. NumBlocks \in Nat \ {0} /\ MaxFaults \in Nat /\ faults \in 0 .. MaxFaults
    BY <1>1, RollingAssumption DEF RollingTyped
  <2>2. CASE installed' = NumBlocks /\ hooked' = TRUE /\ faults' = faults
    BY <2>1, <2>2
  <2>3. CASE faults < MaxFaults /\ faults' = faults + 1 /\ installed' \in 0 .. NumBlocks - 1 /\ hooked' = FALSE
    <3>1. installed' \in 0 .. NumBlocks /\ faults' \in 0 .. MaxFaults /\ faults' # 0
      BY <2>1, <2>3
    <3>2. hooked' \in BOOLEAN
      BY <2>3
    <3> QED
      BY Zenon, <3>1, <3>2
  <2>4. \/ installed' = NumBlocks /\ hooked' = TRUE /\ faults' = faults
        \/ faults < MaxFaults /\ faults' = faults + 1 /\ installed' \in 0 .. NumBlocks - 1 /\ hooked' = FALSE
    BY Zenon DEF RollingAcquire
  <2> QED
    BY <2>2, <2>3, <2>4
<1>8. RollingTyped'
  BY <1>1, <1>3, <1>4, <1>6, <1>7 DEF RollingTyped
<1>9. Bounded' /\ Known' /\ RollingReleased'
  <2>1. Len(<<>>) = 0 /\ DOMAIN <<>> = {} /\ kernels' = <<>> /\ block' = None
    BY <1>2, <1>6
  <2>2. Bounded'
    BY <1>3, <1>6, <2>1 DEF Bounded
  <2> QED
    BY <1>6, <2>1, <2>2 DEF Known, RollingReleased
<1>10. ASSUME NEW p \in Params
       PROVE  /\ Among(copies', p, n)
              /\ <<0, p>> \notin Unloaded => Holds(copies', mem', p, 0, n)
  <2>1. Among(copies', p, n)
    BY <1>3 DEF Among
  <2>2. ASSUME <<0, p>> \notin Unloaded
        PROVE  Holds(copies', mem', p, 0, n)
    <3>1. p \in L
      BY <2>2 DEF Loaded
    <3> DEFINE j == UpTo(p, L)
    <3>2. j \in 1 .. n /\ copies'[j].param = p /\ copies'[j].block = 0
      BY <1>3, <1>5, <3>1
    <3>3. \A l \in j + 1 .. n : copies'[l].param # p
      <4>1. ASSUME NEW l \in j + 1 .. n, copies'[l].param = p
            PROVE  FALSE
        <5>1. l \in 1 .. n /\ l # j
          BY <1>3, <3>2
        <5>2. UpTo(p, L) = l
          BY <1>3, <4>1, <5>1
        <5> QED
          BY <5>1, <5>2
      <4> QED
        BY <4>1
    <3> HIDE DEF j
    <3> QED
      BY <3>2, <3>3 DEF Holds
  <2> QED
    BY <2>1, <2>2
<1> HIDE DEF L
<1>11. Slots'
  <2>1. \A p \in Params : owners'[p] = 0 /\ ready'[p] = n
    BY <1>6
  <2> QED
    BY <1>10, <2>1 DEF Slots
<1>12. RollingReading(kernels, copies, mem)'
  <2>1. kernels' = <<>> /\ DOMAIN <<>> = {}
    BY <1>2, <1>6
  <2> QED
    BY <2>1 DEF RollingReading
<1>13. Scheduled'
  BY <1>2, <1>6 DEF Scheduled
<1> QED
  BY <1>7, <1>8, <1>9, <1>11, <1>12, <1>13 DEF RollingInv, Streams, Parameters, Hooked

\* A staging that raises leaves copies of which the lease has nothing but its own event.
LEMMA AcquireFailsPreserves == RollingInv /\ RollingAcquireFails => RollingInv'
<1> SUFFICES ASSUME RollingInv, RollingAcquireFails PROVE RollingInv'
  OBVIOUS
<1>1. RollingTyped /\ Bounded /\ RollingReleased
  BY DEF RollingInv, Streams
<1>2. kernels = <<>> /\ copies = <<>> /\ block = None /\ installed = 0
  BY <1>1 DEF RollingReleased, RollingAcquireFails
<1>3. /\ copies' \in Seq(Copy) /\ Len(copies') \in Nat /\ DOMAIN copies' = 1 .. Len(copies')
      /\ \A j \in 1 .. Len(copies') : copies'[j].after = 0
  <2>1. PICK p \in Params : copies' = Stages({q \in Params : q <= p}, p)
    BY DEF RollingAcquireFails
  <2> DEFINE slots == {q \in Params : q <= p}
             L == Loaded(0, slots)
  <2>2. slots \in SUBSET Params /\ copies' = Stages(slots, p)
    BY <2>1
  <2> HIDE DEF slots, Copy
  <2>3. L = Loaded(0, slots)
    OBVIOUS
  <2> HIDE DEF L
  <2>4. /\ copies' \in Seq(Copy) /\ Len(copies') = Cardinality(L) /\ Cardinality(L) \in Nat
        /\ \A j \in 1 .. Cardinality(L) : copies'[j].after = 0
    BY <2>2, <2>3, StagesCopies
  <2> QED
    BY <2>4
<1>4. /\ leased' = TRUE /\ mark' = Len(copies') /\ owners' = [p \in Params |-> 0] /\ mem' = [p \in Params |-> None]
      /\ faults' \in 0 .. MaxFaults /\ faults' # 0
      /\ UNCHANGED <<graph, wraparound, recorded, installed, hooked, ready, barrier, kernels, block, ran, calls>>
  BY <1>1, RollingAssumption DEF RollingAcquireFails, RollingTyped
<1>5. RollingTyped'
  <2>1. 0 \in RollingBlocks
    BY RollingAssumption DEF RollingBlocks
  <2> QED
    BY <1>1, <1>3, <1>4, <2>1 DEF RollingTyped
<1>6. Bounded'
  <2>1. Len(<<>>) = 0 /\ DOMAIN <<>> = {}
    OBVIOUS
  <2>2. barrier \in Nat /\ barrier <= 0 /\ \A p \in Params : ready[p] \in Nat /\ ready[p] <= 0
    BY <1>1, <1>2, <2>1 DEF RollingTyped, Bounded
  <2> QED
    BY <1>2, <1>3, <1>4, <2>1, <2>2 DEF Bounded
<1>7. Known' /\ RollingReleased'
  <2>1. Len(copies') <= mark'
    BY <1>3, <1>4
  <2> QED
    BY <1>2, <1>4, <2>1 DEF Known, RollingReleased
<1> QED
  BY <1>4, <1>5, <1>6, <1>7 DEF RollingInv, Streams, Parameters

\* The lease is closed when all it knows of has ended, which is all that was queued.
LEMMA ReleasePreserves == RollingInv /\ RollingRelease => RollingInv'
<1> SUFFICES ASSUME RollingInv, RollingRelease PROVE RollingInv'
  OBVIOUS
<1>1. RollingTyped /\ Known
  BY DEF RollingInv, Streams
<1>2. /\ block' = None /\ leased' = FALSE /\ barrier' = 0
      /\ recorded' = {} /\ mark' = 0 /\ installed' = 0 /\ hooked' = FALSE
      /\ owners' = [p \in Params |-> None] /\ ready' = [p \in Params |-> 0]
      /\ UNCHANGED <<graph, wraparound, kernels, copies, mem, ran, calls, faults>>
  BY DEF RollingRelease
<1>3. Len(<<>>) = 0 /\ DOMAIN <<>> = {}
  OBVIOUS
<1>4. kernels = <<>> /\ copies = <<>>
  <2>1. kernels = <<>>
    BY <1>1 DEF Known, RollingRelease, Closes
  <2>2. ~(Len(copies) <= mark) \/ copies = <<>>
    <3>1. copies \in Seq(Copy) /\ mark = 0
      BY <1>1 DEF RollingTyped, RollingRelease, Closes
    <3>2. Len(copies) \in Nat /\ (Len(copies) = 0 => copies = <<>>)
      <4> HIDE DEF Copy
      <4> QED
        BY <3>1, EmptySeq
    <3> QED
      BY <3>1, <3>2
  <2> QED
    BY <1>1, <2>1, <2>2 DEF Known, RollingRelease, Closes
<1>5. RollingTyped'
  <2>1. 0 \in 0 .. NumBlocks
    BY RollingAssumption
  <2> QED
    BY <1>1, <1>2, <2>1 DEF RollingTyped
<1>6. Bounded' /\ Known' /\ RollingReleased'
  BY <1>2, <1>3, <1>4 DEF Bounded, Known, RollingReleased
<1>7. Slots'
  BY <1>2, <1>3, <1>4 DEF Slots, Among
<1>8. RollingReading(kernels, copies, mem)' /\ Scheduled' /\ Hooked'
  BY <1>2, <1>3, <1>4 DEF RollingReading, Scheduled, Hooked
<1> QED
  BY <1>5, <1>6, <1>7, <1>8 DEF RollingInv, Streams, Parameters

\* Every slot that is another block's is refilled before the block starts.
LEMMA BeforeBlockPreserves == RollingInv /\ BeforeBlock => RollingInv'
<1> SUFFICES ASSUME RollingInv, BeforeBlock PROVE RollingInv'
  OBVIOUS
<1>1. RollingTyped /\ Bounded /\ Known /\ RollingReleased
  BY DEF RollingInv, Streams
<1>2. PICK b \in 0 .. installed - 1 :
        \/ Refilled(b, {p \in Params : hooked /\ owners[p] # b}) /\ block' = b /\ UNCHANGED faults
        \/ RefillFails(b, {p \in Params : hooked /\ owners[p] # b}) /\ block' = None
  BY DEF BeforeBlock
<1> DEFINE missing == {p \in Params : hooked /\ owners[p] # b}
<1>3. /\ leased /\ ran' = {} /\ calls' = calls + 1 /\ calls < MaxCalls
      /\ UNCHANGED <<graph, wraparound, leased, recorded, mark, installed, hooked, barrier, kernels, mem>>
  BY DEF BeforeBlock, heldVars
<1>0. b \in RollingBlocks /\ installed # 0
  BY <1>1, <1>2, RollingAssumption DEF RollingTyped, RollingBlocks
<1>4. missing \in SUBSET Params
  OBVIOUS
<1>5. calls' \in 0 .. MaxCalls
  BY <1>1, <1>3, RollingAssumption DEF RollingTyped
<1>6. RollingReleased' /\ Known'
  BY <1>1, <1>3, <1>0 DEF RollingReleased, Known
<1>7. CASE Refilled(b, missing) /\ block' = b /\ UNCHANGED faults
  <2> HIDE DEF missing
  <2>1. /\ copies' \in Seq(Copy) /\ owners' \in [Params -> RollingBlocks \cup {None}] /\ ready' \in [Params -> Nat]
        /\ Len(copies) <= Len(copies') /\ \A p \in Params : ready'[p] <= Len(copies')
        /\ \A j \in DOMAIN copies' : copies'[j].after <= Len(kernels)
        /\ \A i \in DOMAIN kernels : kernels[i].after <= Len(copies')
        /\ barrier <= Len(copies')
        /\ \A p \in Params : owners'[p] = IF p \in missing THEN b ELSE owners[p]
        /\ Slots => \A p \in Params :
             /\ Among(copies', p, ready'[p])
             /\ owners'[p] # None /\ <<owners'[p], p>> \notin Unloaded => Holds(copies', mem, p, owners'[p], ready'[p])
        /\ RollingReading(kernels, copies, mem) => RollingReading(kernels, copies', mem)
    BY <1>1, <1>4, <1>7, <1>0, RefilledStep
  <2>2. RollingTyped'
    BY <1>1, <1>3, <1>5, <1>7, <1>0, <2>1 DEF RollingTyped
  <2>3. Bounded'
    BY <1>3, <2>1 DEF Bounded
  <2>4. ASSUME faults' = 0
        PROVE  Slots' /\ RollingReading(kernels, copies, mem)' /\ Scheduled' /\ Hooked'
    <3>1. Slots /\ RollingReading(kernels, copies, mem) /\ Hooked
      BY <1>7, <2>4 DEF RollingInv, Parameters
    <3>2. mem' = mem /\ kernels' = kernels
      BY <1>3
    <3>3. Slots'
      BY <2>1, <3>1, <3>2 DEF Slots
    <3>4. RollingReading(kernels, copies, mem)'
      BY <2>1, <3>1, <3>2 DEF RollingReading
    <3>5. \A p \in Params : owners'[p] = b
      BY <1>3, <2>1, <3>1 DEF missing, Hooked
    <3>6. Scheduled' /\ Hooked'
      BY <1>3, <1>7, <3>1, <3>5 DEF Scheduled, Hooked
    <3> QED
      BY <3>3, <3>4, <3>6
  <2> QED
    BY <1>6, <2>2, <2>3, <2>4 DEF RollingInv, Streams, Parameters
<1>8. CASE RefillFails(b, missing) /\ block' = None
  <2> HIDE DEF missing
  <2>1. /\ copies' \in Seq(Copy) /\ owners' \in [Params -> RollingBlocks \cup {None}] /\ ready' \in [Params -> Nat]
        /\ Len(copies) <= Len(copies') /\ \A p \in Params : ready'[p] <= Len(copies')
        /\ \A j \in DOMAIN copies' : copies'[j].after <= Len(kernels)
        /\ \A i \in DOMAIN kernels : kernels[i].after <= Len(copies')
        /\ barrier <= Len(copies')
        /\ faults' \in 0 .. MaxFaults /\ faults' # 0
    BY <1>1, <1>4, <1>8, <1>0, RefillFailsStep
  <2>2. RollingTyped'
    BY <1>1, <1>3, <1>5, <1>8, <2>1 DEF RollingTyped
  <2>3. Bounded'
    BY <1>3, <2>1 DEF Bounded
  <2> QED
    BY <1>6, <2>1, <2>2, <2>3 DEF RollingInv, Streams, Parameters
<1> QED
  BY <1>2, <1>7, <1>8

\* A wait puts the compute stream behind the slot's ready event.
LEMMA WaitParamPreserves == RollingInv /\ WaitParam => RollingInv'
<1> SUFFICES ASSUME RollingInv, WaitParam PROVE RollingInv'
  OBVIOUS
<1>1. RollingTyped /\ Bounded /\ Known /\ RollingReleased
  BY DEF RollingInv, Streams
<1>2. PICK p \in Params :
        /\ Issue(Wait(p))
        /\ recorded' = recorded \cup {"compute"} /\ barrier' = Max({barrier, ready[p]})
        /\ UNCHANGED <<owners, ready, kernels, copies, block, faults>>
  BY DEF WaitParam
<1>3. /\ Wait(p) \in Operations(graph) /\ ran' = ran \cup {Wait(p)}
      /\ UNCHANGED <<graph, wraparound, leased, mark, installed, hooked, mem, calls>>
  BY <1>2 DEF Issue
<1>4. /\ barrier \in Nat /\ ready[p] \in Nat /\ barrier' \in {barrier, ready[p]}
      /\ barrier <= barrier' /\ ready[p] <= barrier'
  BY <1>1, <1>2, MaxOfTwo DEF RollingTyped
<1>5. RollingTyped'
  BY <1>1, <1>2, <1>3, <1>4 DEF RollingTyped
<1>6. Bounded' /\ Known' /\ RollingReleased'
  <2>1. Bounded'
    BY <1>1, <1>2, <1>4 DEF Bounded
  <2>2. "compute" \in recorded' /\ ("prefetch" \in recorded => "prefetch" \in recorded')
    BY <1>2
  <2> QED
    BY <1>1, <1>2, <1>3, <2>1, <2>2 DEF Known, RollingReleased
<1>7. ASSUME faults' = 0
      PROVE  Slots' /\ RollingReading(kernels, copies, mem)' /\ Scheduled' /\ Hooked'
  <2>1. Slots /\ RollingReading(kernels, copies, mem) /\ Scheduled /\ Hooked
    BY <1>2, <1>7 DEF RollingInv, Parameters
  <2>2. Slots' /\ RollingReading(kernels, copies, mem)'
    BY <1>2, <1>3, <2>1 DEF Slots, RollingReading
  <2>3. ASSUME block' # None, NEW q \in Params
        PROVE  /\ Refill(q) \notin ran' => owners'[q] = block' /\ (Wait(q) \in ran' => ready'[q] <= barrier')
               /\ Refill(q) \in ran' => \A i \in Readers(graph', q) : Node(i) \in ran'
    <3>1. /\ Refill(q) \notin ran => owners[q] = block /\ (Wait(q) \in ran => ready[q] <= barrier)
          /\ Refill(q) \in ran => \A i \in Readers(graph, q) : Node(i) \in ran
      BY <1>2, <2>1, <2>3 DEF Scheduled
    <3>2. (Refill(q) \in ran' <=> Refill(q) \in ran) /\ (Wait(q) \in ran' => Wait(q) \in ran \/ q = p)
      BY <1>3, OperationsDiffer
    <3>3. ready[q] \in Nat
      BY <1>1 DEF RollingTyped
    <3>4. ready[q] <= barrier \/ q = p => ready[q] <= barrier'
      BY <1>4, <3>3
    <3> QED
      BY <1>2, <1>3, <3>1, <3>2, <3>4
  <2> QED
    BY <1>3, <2>1, <2>2, <2>3 DEF Scheduled, Hooked
<1> QED
  BY <1>5, <1>6, <1>7 DEF RollingInv, Streams, Parameters

\* A node's kernel waits for all that the waits before it have named.
LEMMA RunNodePreserves == RollingInv /\ RunNode => RollingInv'
<1> SUFFICES ASSUME RollingInv, RunNode PROVE RollingInv'
  OBVIOUS
<1>1. RollingTyped /\ Bounded /\ Known /\ RollingReleased
  BY DEF RollingInv, Streams
<1> DEFINE Reads(i) == {p \in Touches(graph, i) : <<block, p>> \notin Unloaded}
           New(i) == [block |-> block, reads |-> Reads(i), after |-> barrier]
<1>2. PICK i \in DOMAIN graph :
        /\ Issue(Node(i))
        /\ kernels' = IF Reads(i) = {} THEN kernels ELSE Append(kernels, New(i))
        /\ UNCHANGED <<recorded, owners, ready, barrier, copies, block, faults>>
  BY DEF RunNode
<1>3. /\ block # None /\ Node(i) \in Operations(graph) \ ran /\ ran' = ran \cup {Node(i)}
      /\ UNCHANGED <<graph, wraparound, leased, mark, installed, hooked, mem, calls>>
  BY <1>2 DEF Issue
<1>4. leased
  BY <1>1, <1>3 DEF RollingReleased
<1>5. ASSUME NEW p \in Touches(graph, i)
      PROVE  p \in Params /\ Wait(p) \in ran
  BY <1>1, <1>2, WaitedFor
<1>6. New(i) \in Kernel /\ New(i).block = block /\ New(i).reads = Reads(i) /\ New(i).after = barrier
  BY <1>1, <1>3, <1>5 DEF RollingTyped, Kernel
<1> HIDE DEF New
<1>7. /\ kernels \in Seq(Kernel) /\ Len(kernels) \in Nat /\ Len(copies) \in Nat /\ barrier \in Nat
      /\ DOMAIN kernels = 1 .. Len(kernels) /\ DOMAIN copies = 1 .. Len(copies) /\ copies \in Seq(Copy)
  BY <1>1, KernelFields, CopyFields DEF RollingTyped
<1>8. /\ kernels' \in Seq(Kernel) /\ Len(kernels') \in Nat /\ DOMAIN kernels' = 1 .. Len(kernels')
      /\ Len(kernels) <= Len(kernels') /\ Len(kernels') <= Len(kernels) + 1
      /\ \A j \in 1 .. Len(kernels) : kernels'[j] = kernels[j]
      /\ Len(kernels') = Len(kernels) + 1 => kernels'[Len(kernels) + 1] = New(i)
  <2> HIDE DEF Kernel, Reads
  <2>1. CASE kernels' = kernels
    <3>1. Len(kernels') = Len(kernels) /\ DOMAIN kernels' = DOMAIN kernels
      BY <2>1
    <3>2. \A n \in Nat : n <= n /\ n <= n + 1 /\ n # n + 1
      OBVIOUS
    <3>3. Len(kernels) \in Nat /\ kernels \in Seq(Kernel) /\ DOMAIN kernels = 1 .. Len(kernels)
      BY <1>7
    <3> QED
      BY <2>1, <3>1, <3>2, <3>3
  <2>2. CASE kernels' = Append(kernels, New(i))
    BY <1>6, <1>7, <2>2, AppendProperties
  <2> QED
    BY <1>2, <2>1, <2>2
<1>9. ASSUME NEW k \in DOMAIN kernels'
      PROVE  k \in 1 .. Len(kernels) \/ (k = Len(kernels) + 1 /\ kernels'[k] = New(i))
  <2>1. /\ k \in 1 .. Len(kernels') /\ Len(kernels) \in Nat /\ Len(kernels') \in Nat
        /\ Len(kernels) <= Len(kernels') /\ Len(kernels') <= Len(kernels) + 1
    BY <1>7, <1>8
  <2>2. k \in 1 .. Len(kernels) \/ (k = Len(kernels) + 1 /\ Len(kernels') = Len(kernels) + 1)
    BY <2>1
  <2> QED
    BY <1>8, <2>2
<1>10. RollingTyped'
  BY <1>1, <1>2, <1>3, <1>8 DEF RollingTyped
<1>11. Bounded'
  <2>1. \A k \in DOMAIN kernels' : kernels'[k].after <= Len(copies)
    BY <1>1, <1>6, <1>7, <1>8, <1>9 DEF Bounded
  <2>2. ASSUME NEW j \in DOMAIN copies
        PROVE  copies[j].after <= Len(kernels')
    <3>1. copies[j].after \in Nat /\ copies[j].after <= Len(kernels)
      BY <1>1, <1>7, CopyFields DEF Bounded
    <3>2. Len(kernels) \in Nat /\ Len(kernels') \in Nat /\ Len(kernels) <= Len(kernels')
      BY <1>7, <1>8
    <3> QED
      BY <3>1, <3>2
  <2> QED
    BY <1>1, <1>2, <2>1, <2>2 DEF Bounded
<1>12. Known'
  <2>1. "compute" \in recorded \/ kernels' = kernels
    <3>1. CASE Reads(i) = {}
      BY <1>2, <3>1
    <3>2. CASE Reads(i) # {}
      BY <1>1, <1>3, <1>5, <3>2 DEF Known
    <3> QED
      BY <3>1, <3>2
  <2>2. \A p \in Params : Wait(p) \in ran' => Wait(p) \in ran
    BY <1>3, OperationsDiffer
  <2> HIDE DEF Reads
  <2> QED
    BY <1>1, <1>2, <1>3, <2>1, <2>2 DEF Known
<1>13. RollingReleased'
  BY <1>3, <1>4 DEF RollingReleased
<1>14. ASSUME faults' = 0
       PROVE  Slots' /\ RollingReading(kernels, copies, mem)' /\ Scheduled' /\ Hooked'
  <2>1. Slots /\ RollingReading(kernels, copies, mem) /\ Scheduled /\ Hooked
    BY <1>2, <1>14 DEF RollingInv, Parameters
  <2>2. Slots'
    BY <1>2, <1>3, <2>1 DEF Slots
  <2>3. ASSUME NEW p \in Reads(i)
        PROVE  /\ Holds(copies, mem, p, block, barrier)
               /\ Among(copies, p, barrier)
    <3>1. p \in Params /\ owners[p] = block /\ ready[p] <= barrier /\ <<block, p>> \notin Unloaded
      BY <1>1, <1>2, <2>1, ReadyToRead
    <3>2. Among(copies, p, ready[p]) /\ Holds(copies, mem, p, block, ready[p])
      BY <1>3, <2>1, <3>1 DEF Slots
    <3>3. ready[p] \in Nat /\ barrier \in Nat /\ barrier <= Len(copies)
      BY <1>1, <3>1 DEF RollingTyped, Bounded
    <3> QED
      BY <1>7, <3>1, <3>2, <3>3, HoldsLonger
  <2> HIDE DEF Reads
  <2>4. ASSUME NEW k \in DOMAIN kernels', NEW p \in kernels'[k].reads
        PROVE  /\ Holds(copies, mem, p, kernels'[k].block, kernels'[k].after)
               /\ \A j \in DOMAIN copies : copies[j].param = p => j <= kernels'[k].after \/ copies[j].after >= k
    <3>1. CASE k \in 1 .. Len(kernels)
      BY <1>7, <1>8, <2>1, <3>1 DEF RollingReading
    <3>2. CASE kernels'[k] = New(i)
      <4>1. p \in Reads(i) /\ kernels'[k].block = block /\ kernels'[k].after = barrier
        BY <1>6, <3>2
      <4> QED
        BY <2>3, <4>1 DEF Among
    <3> QED
      BY <1>9, <3>1, <3>2
  <2>5. RollingReading(kernels, copies, mem)'
    BY <1>2, <1>3, <2>4 DEF RollingReading
  <2>6. ASSUME NEW q \in Params
        PROVE  (Refill(q) \in ran' <=> Refill(q) \in ran) /\ (Wait(q) \in ran' <=> Wait(q) \in ran)
    BY <1>3, OperationsDiffer
  <2>7. Scheduled' /\ Hooked'
    BY <1>2, <1>3, <2>1, <2>6 DEF Scheduled, Hooked
  <2> QED
    BY <2>2, <2>5, <2>7
<1> QED
  BY <1>10, <1>11, <1>12, <1>13, <1>14 DEF RollingInv, Streams, Parameters

\* A refill comes after the slot's readers, so it may give the slot another owner.
LEMMA RolloverPreserves == RollingInv /\ Rollover => RollingInv'
<1> SUFFICES ASSUME RollingInv, Rollover PROVE RollingInv'
  OBVIOUS
<1>1. RollingTyped /\ Bounded /\ Known /\ RollingReleased
  BY DEF RollingInv, Streams
<1>2. PICK p \in Params :
        /\ Issue(Refill(p))
        /\ IF (owners[p] + 1) % NumBlocks = 0 /\ ~wraparound
           THEN UNCHANGED <<owners, ready, copies, block, faults>>
           ELSE \/ Refilled((owners[p] + 1) % NumBlocks, {p}) /\ UNCHANGED <<block, faults>>
                \/ RefillFails((owners[p] + 1) % NumBlocks, {p}) /\ block' = None
        /\ UNCHANGED <<recorded, barrier, kernels>>
  BY DEF Rollover
<1> DEFINE next == (owners[p] + 1) % NumBlocks
<1>3. /\ block # None /\ Refill(p) \in Operations(graph) \ ran /\ ran' = ran \cup {Refill(p)}
      /\ UNCHANGED <<graph, wraparound, leased, mark, installed, hooked, mem, calls>>
      /\ \A y \in Operations(graph) \ ran : ~Ordered(graph, y, Refill(p))
  BY <1>2 DEF Issue
<1>4. leased
  BY <1>1, <1>3 DEF RollingReleased
<1>5. next \in RollingBlocks /\ {p} \in SUBSET Params
  <2>1. owners[p] + 1 \in Int
    <3>1. owners[p] \in RollingBlocks \cup {None}
      BY <1>1 DEF RollingTyped
    <3> QED
      BY <3>1 DEF RollingBlocks, None
  <2>2. NumBlocks \in Nat \ {0}
    BY RollingAssumption
  <2> QED
    BY <2>1, <2>2 DEF RollingBlocks
<1> HIDE DEF next
<1>6. RollingReleased' /\ Known' /\ ran' \subseteq Operations(graph')
  <2>1. \A q \in Params : Wait(q) \in ran' => Wait(q) \in ran
    BY <1>3, OperationsDiffer
  <2> QED
    BY <1>1, <1>2, <1>3, <1>4, <2>1 DEF RollingReleased, Known, RollingTyped
<1>7. ASSUME Scheduled, NEW q \in Params
      PROVE  /\ Refill(q) \notin ran' => q # p /\ owners[q] = block /\ (Wait(q) \in ran' => ready[q] <= barrier)
             /\ Refill(q) \in ran' => \A i \in Readers(graph, q) : Node(i) \in ran'
  <2>1. /\ Refill(q) \notin ran => owners[q] = block /\ (Wait(q) \in ran => ready[q] <= barrier)
        /\ Refill(q) \in ran => \A i \in Readers(graph, q) : Node(i) \in ran
    BY <1>3, <1>7 DEF Scheduled
  <2>2. \A i \in Readers(graph, p) : Node(i) \in ran
    BY <1>3, ReadersBetween
  <2>3. (Refill(q) \in ran' => Refill(q) \in ran \/ q = p) /\ (Wait(q) \in ran' => Wait(q) \in ran)
    BY <1>3, OperationsDiffer
  <2> QED
    BY <1>3, <2>1, <2>2, <2>3
<1>8. CASE UNCHANGED <<owners, ready, copies, block, faults>>
  <2>1. RollingTyped'
    BY <1>1, <1>2, <1>3, <1>6, <1>8 DEF RollingTyped
  <2>2. Bounded'
    BY <1>1, <1>2, <1>8 DEF Bounded
  <2>3. ASSUME faults' = 0
        PROVE  Slots' /\ RollingReading(kernels, copies, mem)' /\ Scheduled' /\ Hooked'
    <3>1. Slots /\ RollingReading(kernels, copies, mem) /\ Scheduled /\ Hooked
      BY <1>8, <2>3 DEF RollingInv, Parameters
    <3>2. Slots' /\ RollingReading(kernels, copies, mem)'
      BY <1>2, <1>3, <1>8, <3>1 DEF Slots, RollingReading
    <3>3. Scheduled' /\ Hooked'
      BY <1>2, <1>3, <1>7, <1>8, <3>1 DEF Scheduled, Hooked
    <3> QED
      BY <3>2, <3>3
  <2> QED
    BY <1>6, <2>1, <2>2, <2>3 DEF RollingInv, Streams, Parameters
<1>9. CASE Refilled(next, {p}) /\ UNCHANGED <<block, faults>>
  <2>1. /\ copies' \in Seq(Copy) /\ owners' \in [Params -> RollingBlocks \cup {None}] /\ ready' \in [Params -> Nat]
        /\ \A q \in Params : ready'[q] <= Len(copies')
        /\ \A j \in DOMAIN copies' : copies'[j].after <= Len(kernels)
        /\ \A i \in DOMAIN kernels : kernels[i].after <= Len(copies')
        /\ barrier <= Len(copies')
        /\ \A q \in Params : owners'[q] = IF q \in {p} THEN next ELSE owners[q]
        /\ \A q \in Params : q \notin {p} => ready'[q] = ready[q]
        /\ Slots => \A q \in Params :
             /\ Among(copies', q, ready'[q])
             /\ owners'[q] # None /\ <<owners'[q], q>> \notin Unloaded => Holds(copies', mem, q, owners'[q], ready'[q])
        /\ RollingReading(kernels, copies, mem) => RollingReading(kernels, copies', mem)
    BY <1>1, <1>5, <1>9, RefilledStep
  <2>2. RollingTyped'
    BY <1>1, <1>2, <1>3, <1>6, <1>9, <2>1 DEF RollingTyped
  <2>3. Bounded'
    BY <1>2, <2>1 DEF Bounded
  <2>4. ASSUME faults' = 0
        PROVE  Slots' /\ RollingReading(kernels, copies, mem)' /\ Scheduled' /\ Hooked'
    <3>1. Slots /\ RollingReading(kernels, copies, mem) /\ Scheduled /\ Hooked
      BY <1>9, <2>4 DEF RollingInv, Parameters
    <3>2. mem' = mem /\ kernels' = kernels
      BY <1>2, <1>3
    <3>3. Slots'
      BY <2>1, <3>1, <3>2 DEF Slots
    <3>4. RollingReading(kernels, copies, mem)'
      BY <2>1, <3>1, <3>2 DEF RollingReading
    <3>5. \A q \in Params : q # p => owners'[q] = owners[q] /\ ready'[q] = ready[q]
      BY <2>1
    <3>6. Scheduled' /\ Hooked'
      BY <1>2, <1>3, <1>7, <1>9, <3>1, <3>5 DEF Scheduled, Hooked
    <3> QED
      BY <3>3, <3>4, <3>6
  <2> QED
    BY <1>6, <2>2, <2>3, <2>4 DEF RollingInv, Streams, Parameters
<1>10. CASE RefillFails(next, {p}) /\ block' = None
  <2>1. /\ copies' \in Seq(Copy) /\ owners' \in [Params -> RollingBlocks \cup {None}] /\ ready' \in [Params -> Nat]
        /\ \A q \in Params : ready'[q] <= Len(copies')
        /\ \A j \in DOMAIN copies' : copies'[j].after <= Len(kernels)
        /\ \A i \in DOMAIN kernels : kernels[i].after <= Len(copies')
        /\ barrier <= Len(copies')
        /\ faults' \in 0 .. MaxFaults /\ faults' # 0
    BY <1>1, <1>5, <1>10, RefillFailsStep
  <2>2. RollingTyped'
    BY <1>1, <1>2, <1>3, <1>6, <1>10, <2>1 DEF RollingTyped
  <2>3. Bounded'
    BY <1>2, <2>1 DEF Bounded
  <2> QED
    BY <1>6, <2>1, <2>2, <2>3 DEF RollingInv, Streams, Parameters
<1> QED
  BY <1>2, <1>8, <1>9, <1>10 DEF next

\* The streams go on when a forward ends, also when it ends early.
LEMMA EndBlockPreserves == RollingInv /\ EndBlock => RollingInv'
<1> SUFFICES ASSUME RollingInv, EndBlock PROVE RollingInv'
  OBVIOUS
<1>1. RollingTyped /\ Bounded /\ Known /\ RollingReleased
  BY DEF RollingInv, Streams
<1>2. /\ block' = None /\ ran' = {}
      /\ UNCHANGED <<graph, wraparound, leased, recorded, mark, installed, hooked, owners, ready, barrier, kernels, copies, mem, calls, faults>>
  BY DEF EndBlock, heldVars
<1>3. RollingTyped' /\ Bounded'
  BY <1>1, <1>2 DEF RollingTyped, Bounded
<1>4. Known' /\ RollingReleased'
  BY <1>1, <1>2 DEF Known, RollingReleased
<1>5. ASSUME faults' = 0
      PROVE  Slots' /\ RollingReading(kernels, copies, mem)' /\ Scheduled' /\ Hooked'
  BY <1>2, <1>5 DEF RollingInv, Parameters, Slots, RollingReading, Scheduled, Hooked
<1> QED
  BY <1>3, <1>4, <1>5 DEF RollingInv, Streams, Parameters

\* A kernel ends: every event behind kernels is sooner by one, and so is its place.
LEMMA KernelEndsPreserves == RollingInv /\ KernelEnds => RollingInv'
<1> SUFFICES ASSUME RollingInv, KernelEnds PROVE RollingInv'
  OBVIOUS
<1>1. RollingTyped /\ Bounded /\ Known /\ RollingReleased
  BY DEF RollingInv, Streams
<1>2. /\ kernels # <<>> /\ kernels' = Tail(kernels)
      /\ copies' = [j \in DOMAIN copies |-> [copies[j] EXCEPT !.after = Sooner(@)]]
      /\ UNCHANGED <<graph, wraparound, leased, recorded, mark, installed, hooked, owners, ready, barrier, mem, block, ran,
                     calls, faults>>
  BY DEF KernelEnds, KernelRuns, heldVars
<1>3. kernels \in Seq(Kernel) /\ copies \in Seq(Copy)
  BY <1>1 DEF RollingTyped
<1>4. /\ kernels' \in Seq(Kernel) /\ Len(kernels) \in Nat \ {0} /\ Len(kernels') = Len(kernels) - 1
      /\ \A i \in 1 .. Len(kernels) - 1 : kernels'[i] = kernels[i + 1] /\ i + 1 \in 1 .. Len(kernels)
  <2> HIDE DEF Kernel
  <2>1. Len(kernels) \in Nat \ {0}
    BY <1>2, <1>3, EmptySeq
  <2> QED
    BY <1>2, <1>3, <2>1, HeadTailProperties
<1>5. /\ copies' \in Seq(Copy) /\ Len(copies') = Len(copies)
      /\ \A j \in 1 .. Len(copies) :
           copies'[j].block = copies[j].block /\ copies'[j].param = copies[j].param /\ copies'[j].after = Sooner(copies[j].after)
  BY <1>2, <1>3, CopiesSooner
<1>6. /\ DOMAIN kernels = 1 .. Len(kernels) /\ DOMAIN kernels' = 1 .. Len(kernels) - 1
      /\ DOMAIN copies = 1 .. Len(copies) /\ DOMAIN copies' = 1 .. Len(copies) /\ Len(copies) \in Nat
      /\ \A i \in 1 .. Len(kernels) : kernels[i].after \in Nat
      /\ \A j \in 1 .. Len(copies) : copies[j].after \in Nat
  BY <1>3, <1>4, <1>5, KernelFields, CopyFields
<1>7. RollingTyped'
  BY <1>1, <1>2, <1>4, <1>5 DEF RollingTyped
<1>8. Bounded'
  <2>1. \A i \in DOMAIN kernels' : kernels'[i].after <= Len(copies')
    BY <1>1, <1>4, <1>5, <1>6 DEF Bounded
  <2>2. ASSUME NEW j \in DOMAIN copies'
        PROVE  copies'[j].after <= Len(kernels')
    <3>1. copies[j].after \in Nat /\ copies[j].after <= Len(kernels) /\ copies'[j].after = Sooner(copies[j].after)
      BY <1>1, <1>5, <1>6 DEF Bounded
    <3> QED
      BY <1>4, <3>1, SoonerNat
  <2> QED
    BY <1>1, <1>2, <1>5, <2>1, <2>2 DEF Bounded
<1>9. Known' /\ RollingReleased'
  <2>1. leased /\ "compute" \in recorded
    BY <1>1, <1>2 DEF Known, RollingReleased
  <2>2. copies' # <<>> => copies # <<>>
    BY <1>2
  <2> QED
    BY <1>1, <1>2, <1>5, <2>1, <2>2 DEF Known, RollingReleased
<1>10. ASSUME faults' = 0
       PROVE  Slots' /\ RollingReading(kernels, copies, mem)' /\ Scheduled' /\ Hooked'
  <2>1. Slots /\ RollingReading(kernels, copies, mem) /\ Scheduled /\ Hooked
    BY <1>2, <1>10 DEF RollingInv, Parameters
  <2>2. ASSUME NEW p, NEW b, NEW n \in Nat, n <= Len(copies), Holds(copies, mem, p, b, n)
        PROVE  Holds(copies', mem, p, b, n)
    <3>1. \A j \in 1 .. n : copies'[j].param = copies[j].param /\ copies'[j].block = copies[j].block
      BY <1>5, <1>6, <2>2
    <3> QED
      BY <2>2, <3>1, HoldsSame
  <2>3. Slots'
    <3>1. ASSUME NEW p \in Params
          PROVE  /\ Among(copies', p, ready[p])
                 /\ owners[p] # None /\ <<owners[p], p>> \notin Unloaded => Holds(copies', mem, p, owners[p], ready[p])
      <4>1. /\ Among(copies, p, ready[p])
            /\ owners[p] # None /\ <<owners[p], p>> \notin Unloaded => Holds(copies, mem, p, owners[p], ready[p])
        BY <2>1 DEF Slots
      <4>2. ready[p] \in Nat /\ ready[p] <= Len(copies)
        BY <1>1 DEF RollingTyped, Bounded
      <4>3. Among(copies', p, ready[p])
        BY <1>5, <1>6, <4>1 DEF Among
      <4> QED
        BY <2>2, <4>1, <4>2, <4>3
    <3> QED
      BY <1>2, <3>1 DEF Slots
  <2>4. RollingReading(kernels, copies, mem)'
    <3>1. ASSUME NEW i \in DOMAIN kernels', NEW p \in kernels'[i].reads
          PROVE  /\ Holds(copies', mem, p, kernels'[i].block, kernels'[i].after)
                 /\ \A j \in DOMAIN copies' : copies'[j].param = p => j <= kernels'[i].after \/ copies'[j].after >= i
      <4>1. i + 1 \in DOMAIN kernels /\ kernels'[i] = kernels[i + 1] /\ i \in Nat \ {0}
        BY <1>4, <1>6
      <4>2. /\ Holds(copies, mem, p, kernels'[i].block, kernels'[i].after)
            /\ \A j \in DOMAIN copies : copies[j].param = p => j <= kernels'[i].after \/ copies[j].after >= i + 1
        BY <2>1, <3>1, <4>1 DEF RollingReading
      <4>3. kernels'[i].after \in Nat /\ kernels'[i].after <= Len(copies)
        BY <1>1, <1>6, <4>1 DEF Bounded
      <4>4. Holds(copies', mem, p, kernels'[i].block, kernels'[i].after)
        BY <2>2, <4>2, <4>3
      <4>5. ASSUME NEW j \in DOMAIN copies', copies'[j].param = p
            PROVE  j <= kernels'[i].after \/ copies'[j].after >= i
        <5>1. /\ j \in DOMAIN copies /\ copies[j].param = p /\ copies[j].after \in Nat
              /\ copies'[j].after = Sooner(copies[j].after)
          BY <1>5, <1>6, <4>5
        <5>2. copies[j].after >= i + 1 => Sooner(copies[j].after) >= i
          BY <4>1, <5>1, SoonerNat
        <5> QED
          BY <4>2, <5>1, <5>2
      <4> QED
        BY <4>4, <4>5
    <3>2. mem' = mem
      BY <1>2
    <3> QED
      BY <3>1, <3>2 DEF RollingReading
  <2>5. Scheduled' /\ Hooked'
    BY <1>2, <2>1 DEF Scheduled, Hooked
  <2> QED
    BY <2>3, <2>4, <2>5
<1> QED
  BY <1>7, <1>8, <1>9, <1>10 DEF RollingInv, Streams, Parameters

\* A copy ends: its slot holds what it brought, and every event behind copies is sooner by one.
LEMMA CopyEndsPreserves == RollingInv /\ CopyEnds => RollingInv'
<1> SUFFICES ASSUME RollingInv, CopyEnds PROVE RollingInv'
  OBVIOUS
<1>1. RollingTyped /\ Bounded /\ Known /\ RollingReleased
  BY DEF RollingInv, Streams
<1>2. /\ copies # <<>> /\ copies[1].after = 0 /\ copies' = Tail(copies)
      /\ kernels' = [i \in DOMAIN kernels |-> [kernels[i] EXCEPT !.after = Sooner(@)]]
      /\ mark' = Sooner(mark) /\ ready' = [p \in Params |-> Sooner(ready[p])] /\ barrier' = Sooner(barrier)
      /\ mem' = [mem EXCEPT ![copies[1].param] = copies[1].block]
      /\ UNCHANGED <<graph, wraparound, leased, recorded, installed, hooked, owners, block, ran, calls, faults>>
  BY DEF CopyEnds, CopyRuns
<1>3. /\ kernels \in Seq(Kernel) /\ copies \in Seq(Copy)
      /\ barrier \in Nat /\ mark \in Nat /\ \A p \in Params : ready[p] \in Nat
  BY <1>1 DEF RollingTyped
<1>4. /\ copies' \in Seq(Copy) /\ Len(copies) \in Nat \ {0} /\ Len(copies') = Len(copies) - 1
      /\ \A j \in 1 .. Len(copies) - 1 : copies'[j] = copies[j + 1] /\ j + 1 \in 1 .. Len(copies)
  <2> HIDE DEF Copy
  <2>1. Len(copies) \in Nat \ {0}
    BY <1>2, <1>3, EmptySeq
  <2> QED
    BY <1>2, <1>3, <2>1, HeadTailProperties
<1>5. /\ kernels' \in Seq(Kernel) /\ Len(kernels') = Len(kernels)
      /\ \A i \in 1 .. Len(kernels) :
           kernels'[i].block = kernels[i].block /\ kernels'[i].reads = kernels[i].reads
           /\ kernels'[i].after = Sooner(kernels[i].after)
  BY <1>2, <1>3, KernelsSooner
<1>6. /\ DOMAIN copies = 1 .. Len(copies) /\ DOMAIN copies' = 1 .. Len(copies) - 1
      /\ DOMAIN kernels = 1 .. Len(kernels) /\ DOMAIN kernels' = 1 .. Len(kernels) /\ Len(kernels) \in Nat
      /\ \A i \in 1 .. Len(kernels) : kernels[i].after \in Nat /\ kernels[i].reads \in SUBSET Params
      /\ \A j \in 1 .. Len(copies) : copies[j].after \in Nat /\ copies[j].param \in Params /\ copies[j].block \in RollingBlocks \cup {None}
  BY <1>3, <1>4, <1>5, KernelFields, CopyFields
<1>7. RollingTyped'
  <2>1. ready' \in [Params -> Nat] /\ barrier' \in Nat /\ mark' \in Nat
    BY <1>2, <1>3, SoonerNat
  <2>2. mem' \in [Params -> RollingBlocks \cup {None}]
    BY <1>1, <1>2, <1>4, <1>6 DEF RollingTyped
  <2> QED
    BY <1>1, <1>2, <1>4, <1>5, <2>1, <2>2 DEF RollingTyped
<1>8. Bounded'
  <2>1. ASSUME NEW n \in Nat, n <= Len(copies)
        PROVE  Sooner(n) <= Len(copies')
    BY <1>4, <2>1, SoonerNat
  <2>2. barrier' <= Len(copies') /\ \A p \in Params : ready'[p] <= Len(copies')
    BY <1>1, <1>2, <1>3, <2>1 DEF Bounded
  <2>3. \A i \in DOMAIN kernels' : kernels'[i].after <= Len(copies')
    BY <1>1, <1>5, <1>6, <2>1 DEF Bounded
  <2>4. \A j \in DOMAIN copies' : copies'[j].after <= Len(kernels')
    BY <1>1, <1>4, <1>5, <1>6 DEF Bounded
  <2> QED
    BY <2>2, <2>3, <2>4 DEF Bounded
<1>9. Known' /\ RollingReleased'
  <2>1. leased
    BY <1>1, <1>2 DEF RollingReleased
  <2>2. kernels' # <<>> => kernels # <<>>
    BY <1>2
  <2>3. Len(copies) <= mark => Len(copies') <= mark'
    BY <1>2, <1>3, <1>4, SoonerNat
  <2> QED
    BY <1>1, <1>2, <2>1, <2>2, <2>3 DEF Known, RollingReleased
<1>10. ASSUME faults' = 0
       PROVE  Slots' /\ RollingReading(kernels, copies, mem)' /\ Scheduled' /\ Hooked'
  <2>1. Slots /\ RollingReading(kernels, copies, mem) /\ Scheduled /\ Hooked
    BY <1>2, <1>10 DEF RollingInv, Parameters
  <2>2. ASSUME NEW p \in Params, NEW b, NEW n \in Nat, n <= Len(copies), n = 0 => copies[1].param # p,
               Holds(copies, mem, p, b, n)
        PROVE  Holds(copies', mem', p, b, Sooner(n))
    <3>1. mem \in [Params -> RollingBlocks \cup {None}]
      BY <1>1 DEF RollingTyped
    <3> QED
      BY <1>2, <1>3, <2>2, <3>1, HoldsSooner
  <2>3. Slots'
    <3>1. ASSUME NEW p \in Params
          PROVE  /\ Among(copies', p, Sooner(ready[p]))
                 /\ owners[p] # None /\ <<owners[p], p>> \notin Unloaded => Holds(copies', mem', p, owners[p], Sooner(ready[p]))
      <4>1. /\ Among(copies, p, ready[p])
            /\ owners[p] # None /\ <<owners[p], p>> \notin Unloaded => Holds(copies, mem, p, owners[p], ready[p])
        BY <2>1 DEF Slots
      <4>2. ready[p] \in Nat /\ ready[p] <= Len(copies)
        BY <1>1, <1>3 DEF Bounded
      <4>3. ready[p] = 0 => copies[1].param # p
        BY <1>4, <1>6, <4>1 DEF Among
      <4>4. ASSUME NEW j \in DOMAIN copies', copies'[j].param = p
            PROVE  j <= Sooner(ready[p])
        <5>1. j + 1 \in DOMAIN copies /\ copies[j + 1].param = p /\ j \in Nat \ {0}
          BY <1>4, <1>6, <4>4
        <5>2. j + 1 <= ready[p]
          BY <4>1, <5>1 DEF Among
        <5> QED
          BY <4>2, <5>1, <5>2, SoonerNat
      <4>5. Among(copies', p, Sooner(ready[p]))
        BY <4>4 DEF Among
      <4> QED
        BY <2>2, <4>1, <4>2, <4>3, <4>5
    <3>2. \A p \in Params : ready'[p] = Sooner(ready[p]) /\ owners'[p] = owners[p]
      BY <1>2
    <3> QED
      BY <3>1, <3>2 DEF Slots
  <2>4. RollingReading(kernels, copies, mem)'
    <3>1. ASSUME NEW i \in DOMAIN kernels', NEW p \in kernels'[i].reads
          PROVE  /\ Holds(copies', mem', p, kernels'[i].block, kernels'[i].after)
                 /\ \A j \in DOMAIN copies' : copies'[j].param = p => j <= kernels'[i].after \/ copies'[j].after >= i
      <4>1. /\ i \in DOMAIN kernels /\ p \in kernels[i].reads /\ p \in Params /\ i \in Nat \ {0}
            /\ kernels'[i].block = kernels[i].block /\ kernels'[i].after = Sooner(kernels[i].after)
        BY <1>5, <1>6, <3>1
      <4>2. /\ Holds(copies, mem, p, kernels[i].block, kernels[i].after)
            /\ \A j \in DOMAIN copies : copies[j].param = p => j <= kernels[i].after \/ copies[j].after >= i
        BY <2>1, <4>1 DEF RollingReading
      <4>3. kernels[i].after \in Nat /\ kernels[i].after <= Len(copies)
        BY <1>1, <1>6, <4>1 DEF Bounded
      <4>4. kernels[i].after = 0 => copies[1].param # p
        <5>1. 1 \in DOMAIN copies
          BY <1>4, <1>6
        <5> QED
          BY <1>2, <4>1, <4>2, <5>1
      <4>5. Holds(copies', mem', p, kernels[i].block, Sooner(kernels[i].after))
        BY <2>2, <4>1, <4>2, <4>3, <4>4
      <4>6. ASSUME NEW j \in DOMAIN copies', copies'[j].param = p
            PROVE  j <= kernels'[i].after \/ copies'[j].after >= i
        <5>1. j + 1 \in DOMAIN copies /\ copies'[j] = copies[j + 1] /\ j \in Nat \ {0}
          BY <1>4, <1>6
        <5>2. j + 1 <= kernels[i].after \/ copies'[j].after >= i
          BY <4>2, <4>6, <5>1
        <5>3. j + 1 <= kernels[i].after => j <= Sooner(kernels[i].after)
          BY <4>3, <5>1, SoonerNat
        <5> QED
          BY <4>1, <5>2, <5>3
      <4> QED
        BY <4>1, <4>5, <4>6
    <3> QED
      BY <3>1 DEF RollingReading
  <2>5. Scheduled' /\ Hooked'
    <3>1. ASSUME NEW p \in Params, ready[p] <= barrier
          PROVE  ready'[p] <= barrier'
      <4>1. ready[p] \in Nat /\ barrier \in Nat /\ ready'[p] = Sooner(ready[p]) /\ barrier' = Sooner(barrier)
        BY <1>2, <1>3
      <4> QED
        BY <3>1, <4>1, SoonerNat
    <3> QED
      BY <1>2, <2>1, <3>1 DEF Scheduled, Hooked
  <2> QED
    BY <2>3, <2>4, <2>5
<1> QED
  BY <1>7, <1>8, <1>9, <1>10 DEF RollingInv, Streams, Parameters

\* What leaves the variables alone leaves the invariant alone.
LEMMA StutterPreserves == RollingInv /\ UNCHANGED rollingVars => RollingInv'
<1> SUFFICES ASSUME RollingInv, UNCHANGED rollingVars PROVE RollingInv'
  OBVIOUS
<1>1. RollingTyped' /\ Bounded'
  BY DEF RollingInv, Streams, RollingTyped, Bounded, rollingVars, heldVars
<1>2. Known' /\ RollingReleased'
  BY DEF RollingInv, Streams, Known, RollingReleased, rollingVars, heldVars
<1>3. Parameters'
  BY DEF RollingInv, Parameters, Slots, RollingReading, Scheduled, Hooked, rollingVars, heldVars
<1> QED
  BY <1>1, <1>2, <1>3 DEF RollingInv, Streams

-----------------------------------------------------------------------------
(* The theorems *)

\* The invariant above: the queues are typed and bounded, the lease knows of all that
\* is queued, and until an acquisition or a refill raises every kernel that is queued
\* waits for its own parameters and is waited for by what overwrites them.
THEOREM RollingInvariance == RollingSpec => []RollingInv
<1>1. RollingInv /\ [RollingNext]_rollingVars => RollingInv'
  BY AcquirePreserves, AcquireFailsPreserves, ReleasePreserves, BeforeBlockPreserves, WaitParamPreserves, RunNodePreserves,
     RolloverPreserves, EndBlockPreserves, KernelEndsPreserves, CopyEndsPreserves, StutterPreserves DEF RollingNext
<1> QED
  BY InitHolds, <1>1, PTL DEF RollingSpec

\* As long as no acquisition or refill has raised, every slot a running kernel reads holds its own
\* block's parameter and no copy is writing it (wait_param, rollover_param,
\* before_block and the two compiler passes).
THEOREM KernelsReadTheirBlock == RollingSpec => []ReadsItsBlock
<1>1. RollingInv => ReadsItsBlock
  <2> SUFFICES ASSUME RollingInv, faults = 0, KernelRuns, NEW p \in kernels[1].reads
               PROVE  mem[p] = kernels[1].block /\ ~(CopyRuns /\ copies[1].param = p)
    BY DEF ReadsItsBlock
  <2>1. RollingTyped /\ RollingReading(kernels, copies, mem)
    BY DEF RollingInv, Streams, Parameters
  <2>2. kernels \in Seq(Kernel) /\ copies \in Seq(Copy)
    BY <2>1 DEF RollingTyped
  <2>3. 1 \in DOMAIN kernels /\ kernels[1].after = 0
    <3>1. Len(kernels) \in Nat \ {0} /\ DOMAIN kernels = 1 .. Len(kernels)
      <4> HIDE DEF Kernel
      <4> QED
        BY <2>2, EmptySeq DEF KernelRuns
    <3> QED
      BY <3>1 DEF KernelRuns
  <2>4. /\ Holds(copies, mem, p, kernels[1].block, 0)
        /\ \A j \in DOMAIN copies : copies[j].param = p => j <= 0 \/ copies[j].after >= 1
    BY <2>1, <2>3 DEF RollingReading
  <2>5. mem[p] = kernels[1].block
    BY <2>4 DEF Holds
  <2>6. ASSUME CopyRuns
        PROVE  copies[1].param # p
    <3>1. Len(copies) \in Nat \ {0} /\ DOMAIN copies = 1 .. Len(copies) /\ copies[1].after = 0
      <4> HIDE DEF Copy
      <4> QED
        BY <2>2, <2>6, EmptySeq DEF CopyRuns
    <3> QED
      BY <2>4, <3>1
  <2> QED
    BY <2>5, <2>6
<1> QED
  BY <1>1, RollingInvariance, PTL

\* Once the target is released neither stream has work left that touches it, also
\* after acquisitions and refills that raised and on whichever stream the blocks ran
\* (acquire, stage, wait_param, release, CudaTargetLease.close).
THEOREM RollingReleaseIsQuiet == RollingSpec => []ReleasedIsQuiet
<1>1. RollingInv => ReleasedIsQuiet
  BY DEF RollingInv, Streams, RollingReleased, ReleasedIsQuiet
<1> QED
  BY <1>1, RollingInvariance, PTL

=============================================================================
