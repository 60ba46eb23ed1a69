-------------------------- MODULE CollectiveBuffers --------------------------
(***************************************************************************)
(* The tensors a collective reads and writes, and the copies that carry    *)
(* it out.  _sequential_collectives.py and _triton_sequential.py have both *)
(* ranks in one address space; the relay of communication.py has one rank, *)
(* whose bytes pass through chunks of a host buffer.  Tensors may be views *)
(* of one storage: which aliases are refused decides whether the copies    *)
(* may run in the order they do.                                           *)
(***************************************************************************)
EXTENDS UpdateStaging

CONSTANTS
    CollectiveInputs,
    SumBlock                    \* elements a program of _sum_kernel takes (1024)
ASSUME SumBlockAssumption == SumBlock \in Nat \ {0}

(***************************************************************************)
(* An input of format "local" has kind, root, both ranks' calls [inputs,   *)
(* outputs] and the device.  One of format "relay" has kind, root, the     *)
(* rank, the size of the group, inputs and outputs (of a GPU), the         *)
(* transport, how many regions its buffer has (depth), the bytes of a      *)
(* chunk (capacity) and which of its steps the copy on the caller's stream *)
(* runs beside (late).  A tensor is contiguous: [start, size].  space is   *)
(* the memory they are in.                                                 *)
(***************************************************************************)
Collective == input.format \in {"local", "relay"}
_overlap(t, u) == t.size > 0 /\ u.size > 0 /\ t.start < u.start + u.size /\ u.start < t.start + t.size
CopyOf(output, source) ==
    {Store(Cell("mem", output.start + k), {Cell("mem", source.start + k)}) : k \in Below(output.size)}
-----------------------------------------------------------------------------
(***************************************************************************)
(* Two ranks of one process.                                               *)
(***************************************************************************)
Calls == input.calls
RootCall == Calls[input.root + 1]
\* _copies: [output, source] in the order they run
Copy(output, source) == [output |-> output, source |-> source]
_copies ==
    CASE input.kind = "broadcast" -> [r \in 1 .. 2 |-> Copy(Calls[r].outputs[1], RootCall.outputs[1])]
      [] input.kind = "scatter" -> [r \in 1 .. 2 |-> Copy(Calls[r].outputs[1], RootCall.inputs[r])]
      [] OTHER ->
           [k \in 1 .. 4 * Len(Calls[1].inputs) |->
              LET index == (k - 1) \div 4 rank == (k - 1) % 2 IN
              Copy(Calls[((k - 1) % 4) \div 2 + 1].outputs[2 * index + rank + 1], Calls[rank + 1].inputs[index + 1])]

OutputsApart(copies) ==
    \A i, j \in DOMAIN copies :
      i < j /\ _overlap(copies[i].output, copies[j].output) =>
        copies[i].output = copies[j].output /\ copies[i].source = copies[j].source
(* MUTANT: an exact alias of another's source is taken for a safe one. *)
_validate_copy_aliasesExact(copies) ==
    /\ OutputsApart(copies)
    /\ \A i, j \in DOMAIN copies : _overlap(copies[i].output, copies[j].source) => copies[i].output = copies[j].source

_validate_copy_aliases(copies) ==
    /\ OutputsApart(copies)
    /\ \A i, j \in DOMAIN copies :
         _overlap(copies[i].output, copies[j].source) =>
           copies[i].output = copies[i].source /\ copies[i].source = copies[j].source

Pairs == [i \in DOMAIN Calls[1].outputs |-> <<Calls[1].outputs[i], Calls[2].outputs[i]>>]
\* _match on pairs of tensors: shape and dtype stand in its size.
_match(t, u) == t.size = u.size
LocalAccepts ==
    IF input.kind = "sum"
    THEN /\ Len(Calls[1].outputs) = Len(Calls[2].outputs)
         /\ \A i \in DOMAIN Pairs :
              /\ _match(Pairs[i][1], Pairs[i][2])
              /\ _overlap(Pairs[i][1], Pairs[i][2]) => Pairs[i][1] = Pairs[i][2]
              /\ \A j \in DOMAIN Pairs \ {i}, a, b \in 1 .. 2 : ~_overlap(Pairs[i][a], Pairs[j][b])
    ELSE /\ \A i \in DOMAIN Calls[1].inputs \cap DOMAIN Calls[2].inputs : _match(Calls[1].inputs[i], Calls[2].inputs[i])
         /\ \A i \in DOMAIN _copies : _match(_copies[i].output, _copies[i].source)
         /\ _validate_copy_aliases(_copies)

\* _sum_kernel: a program takes a block of both tensors; on the CPU the sum
\* is made in the first and copied to the second.
_sum_kernel(a, b, pid) ==
    {Store(Cell("mem", t.start + k), {Cell("mem", a.start + k), Cell("mem", b.start + k)}) :
       t \in {a, b}, k \in {k \in pid * SumBlock .. (pid + 1) * SumBlock - 1 : k < a.size}}
SumPair(a, b) ==
    IF input.device = "cuda" THEN <<[pid \in 1 .. CDiv(a.size, SumBlock) |-> _sum_kernel(a, b, pid - 1)]>>
    ELSE <<<<{Store(Cell("mem", a.start + k), {Cell("mem", a.start + k), Cell("mem", b.start + k)}) :
                k \in Below(a.size)}>>,
           <<CopyOf(b, a)>>>>
\* execute: what runs after another, and in each the programs that run at once
LocalSteps ==
    IF input.kind = "sum" THEN Flattened([i \in DOMAIN Pairs |-> SumPair(Pairs[i][1], Pairs[i][2])])
    ELSE LET moved == SelectSeq(_copies, LAMBDA c : c.output # c.source) IN
         [i \in DOMAIN moved |-> <<CopyOf(moved[i].output, moved[i].source)>>]
-----------------------------------------------------------------------------
(***************************************************************************)
(* One rank of the relay.  A batch of collectives is validated as a whole  *)
(* and runs one after the other; each has sources and outputs.             *)
(***************************************************************************)
View(t, r) == [start |-> t.start + r * (t.size \div input.size), size |-> t.size \div input.size]
Views(t) == [r \in 1 .. input.size |-> View(t, r - 1)]
Operation(sources, outputs) == [sources |-> sources, outputs |-> outputs]
Operations ==
    CASE input.kind = "allreduce" -> [b \in DOMAIN input.outputs |-> Operation(<<input.outputs[b]>>, <<input.outputs[b]>>)]
      [] input.kind = "allgather_single" -> [b \in DOMAIN input.outputs |-> Operation(<<input.inputs[b]>>, Views(input.outputs[b]))]
      [] OTHER -> <<Operation(input.inputs, input.outputs)>>

\* Sorted by address, neighbours are compared; empty tensors are left out.
_validate_disjoint(tensors) ==
    LET order == SetToSortSeq({i \in DOMAIN tensors : tensors[i].size > 0},
                              LAMBDA i, j : tensors[i].start < tensors[j].start
                                              \/ (tensors[i].start = tensors[j].start /\ i < j))
    IN \A k \in 1 .. Len(order) - 1 : ~_overlap(tensors[order[k]], tensors[order[k + 1]])
\* Only this rank's own slice may be the source, exactly.
OwnSlice(t, u, mine) == mine /\ t.start = u.start
_validate_gather_aliases(o) ==
    \A r \in DOMAIN o.outputs :
      _overlap(o.outputs[r], o.sources[1]) => OwnSlice(o.outputs[r], o.sources[1], r - 1 = input.rank)
Gathered == \A i \in DOMAIN Operations : _validate_gather_aliases(Operations[i])
RelayAccepts ==
    CASE input.kind = "allreduce" -> _validate_disjoint(input.outputs)
      [] input.kind = "allgather" ->
           /\ _validate_disjoint(input.outputs)
           /\ \A r \in DOMAIN input.outputs : _match(input.outputs[r], input.inputs[1])
           /\ Gathered
      [] input.kind = "allgather_single" ->
           /\ _validate_disjoint(input.outputs)
           /\ \A i, j \in DOMAIN input.outputs : i # j => ~_overlap(input.outputs[i], input.inputs[j])
           /\ \A i \in DOMAIN input.outputs : input.outputs[i].size = input.size * input.inputs[i].size
           /\ Gathered
      [] input.kind = "scatter" ->
           \A s \in DOMAIN input.inputs :
             /\ _match(input.outputs[1], input.inputs[s])
             /\ _overlap(input.outputs[1], input.inputs[s]) =>
                  OwnSlice(input.outputs[1], input.inputs[s], s - 1 = input.root)
      [] OTHER -> TRUE

\* What arrives for byte x of an output: from this rank's buffer or a peer.
Named(o, r) == o * (input.size + 1) + r
Host(o, s, x) == <<"host", Named(o, s), x>>
Peer(o, r, x) == <<"peer", Named(o, r + 1), x>>
Arrives(o, r, x) ==
    CASE input.kind = "allreduce" ->
           {IF input.transport = "gloo" THEN Host(o, 1, x) ELSE Cell("mem", Operations[o].outputs[1].start + x)}
             \cup {Peer(o, p, x) : p \in Below(input.size) \ {input.rank}}
      [] input.kind \in {"broadcast", "scatter"} ->
           IF input.rank = input.root THEN {Host(o, IF input.kind = "scatter" THEN input.root + 1 ELSE 1, x)}
           ELSE {Peer(o, input.root, x)}
      [] OTHER -> IF r - 1 = input.rank THEN {Host(o, 1, x)} ELSE {Peer(o, r - 1, x)}

\* The chunks of a round, which downloads some sources and uploads some outputs.
Span(i, size) == {x \in i * input.capacity .. (i + 1) * input.capacity - 1 : x < size}
Down(o, round, i) ==
    UNION {LET t == Operations[o].sources[s] IN
           {Store(Host(o, s, x), {Cell("mem", t.start + x)}) : x \in Span(i, t.size)} : s \in round.reads}
Up(o, round, i) ==
    UNION {LET t == Operations[o].outputs[r] IN
           {Store(Cell("mem", t.start + x), Arrives(o, r, x)) : x \in Span(i, t.size)} : r \in round.writes}
\* With one region a chunk is over before the next begins.  With two, its
\* upload runs beside the download of the next chunk, and the region it leaves
\* takes the one after.
RoundSteps(o, round) ==
    LET last == CDiv(Operations[o].outputs[1].size, input.capacity) - 1 IN
    IF last < 0 THEN <<>>
    ELSE IF input.transport = "gloo" /\ input.depth = 1
    THEN Flattened([k \in 1 .. last + 1 |-> <<<<Down(o, round, k - 1)>>, <<Up(o, round, k - 1)>>>>])
    ELSE <<<<Down(o, round, 0)>>>>
           \o [k \in 1 .. last + 1 |-> <<Up(o, round, k - 1)>> \o IF k > last THEN <<>> ELSE <<Down(o, round, k)>>]

\* SharedRelay._rounds: the own contribution is copied on the caller's stream,
\* and peers come one after the other; _copy_chunks has them all in one round.
Round(reads, writes) == [reads |-> reads, writes |-> writes]
LocalCopy(op) ==
    LET own(output, source) == IF output.start = source.start THEN {} ELSE CopyOf(output, source) IN
    CASE input.transport = "gloo" -> {}
      [] input.kind \in {"allgather", "allgather_single"} -> own(op.outputs[input.rank + 1], op.sources[1])
      [] input.kind = "scatter" /\ input.rank = input.root -> own(op.outputs[1], op.sources[input.root + 1])
      [] OTHER -> {}
Rounds(op) ==
    CASE input.transport = "gloo" -> <<Round(DOMAIN op.sources, DOMAIN op.outputs)>>
      [] input.kind = "allreduce" -> <<Round({1}, {1})>>
      [] input.kind \in {"allgather", "allgather_single"} ->
           [k \in 1 .. input.size - 1 |-> Round({1}, {((input.rank - k) % input.size) + 1})]
      [] input.rank = input.root ->
           LET peers == SetToSortSeq(Below(input.size) \ {input.root}, <) IN
           [k \in DOMAIN peers |-> Round({IF input.kind = "scatter" THEN peers[k] + 1 ELSE 1}, {})]
      [] OTHER -> <<Round({}, {1})>>
\* The caller's stream is only waited for at the end: its copy runs beside any step.
Beside(steps, copy) ==
    CASE copy = {} -> steps
      [] steps = <<>> -> <<<<copy>>>>
      [] OTHER -> LET at == Smaller(input.late + 1, Len(steps)) IN [steps EXCEPT ![at] = Append(@, copy)]
RelaySteps ==
    Flattened([o \in DOMAIN Operations |->
       LET rounds == Rounds(Operations[o]) IN
       Beside(Flattened([k \in DOMAIN rounds |-> RoundSteps(o, rounds[k])]), LocalCopy(Operations[o]))])
-----------------------------------------------------------------------------
CollectiveAccepted == IF input.format = "local" THEN LocalAccepts ELSE RelayAccepts
CollectiveSteps == IF input.format = "local" THEN LocalSteps ELSE RelaySteps
CollectiveLaunches ==
    IF ~CollectiveAccepted THEN <<>>
    ELSE [k \in DOMAIN CollectiveSteps |-> [Launch("collective", Len(CollectiveSteps[k])) EXCEPT !.level = k]]
CollectiveProgram(launch, pid) == CollectiveSteps[launch.level][pid + 1]
CollectiveCells ==
    {Cell("mem", i) : i \in Below(input.space)}
      \cup IF input.format = "local" THEN {}
           ELSE UNION {{Peer(o, r, x), Host(o, r + 1, x)} :
                         o \in DOMAIN Operations, r \in Below(input.size), x \in Below(input.space)}
-----------------------------------------------------------------------------
(***************************************************************************)
(* What the collectives mean: every output has the bytes its kind gives it *)
(* as they were before the call.                                           *)
(***************************************************************************)
Given(t, k) == {Cell("mem", t.start + k)}
\* [output, of]: what of[k] is to be in the k-th element of output.
Meant(output, of) == [output |-> output, of |-> of]
LocalMeaning ==
    LET both == {1, 2} IN
    CASE input.kind = "sum" ->
           {Meant(Calls[r].outputs[i], [k \in Below(Calls[r].outputs[i].size) |->
                                          UNION {Given(Calls[q].outputs[i], k) : q \in both}]) :
              r \in both, i \in DOMAIN Calls[1].outputs}
      [] input.kind = "allgather" ->
           UNION {{Meant(Calls[r].outputs[2 * i - 2 + q], [k \in Below(Calls[q].inputs[i].size) |-> Given(Calls[q].inputs[i], k)]) :
                     q \in both} : r \in both, i \in DOMAIN Calls[1].inputs}
      [] OTHER ->
           {LET from == IF input.kind = "scatter" THEN RootCall.inputs[r] ELSE RootCall.outputs[1] IN
            Meant(Calls[r].outputs[1], [k \in Below(from.size) |-> Given(from, k)]) : r \in both}
RelayMeaning ==
    UNION {LET op == Operations[o] IN
           {Meant(op.outputs[r], [k \in Below(op.outputs[r].size) |->
              UNION {IF c[1] # "host" THEN {c} ELSE Given(op.sources[c[2] - Named(o, 0)], k) : c \in Arrives(o, r, k)}]) :
              r \in DOMAIN op.outputs} : o \in DOMAIN Operations}
Meaning == IF input.format = "local" THEN LocalMeaning ELSE RelayMeaning
=============================================================================
