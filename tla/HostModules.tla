----------------------------- MODULE HostModules -----------------------------
(***************************************************************************)
(* Which bytes each parameter of an offloaded model shows: the file it is  *)
(* loaded from, the adapters merged into it for good, the capture of its   *)
(* storage by components, and sessions that load it on a device under      *)
(* other adapters, train it and give it back.                              *)
(*                                                                         *)
(* checkpoint.py, merge.py, composite_component.py (from_module),          *)
(* block_component.py (the store and its names), host_module.py,           *)
(* host_param.py and the adapter part of model_offloader.py.  A model's    *)
(* names point at Parameter objects, those at storage, and storage holds   *)
(* bytes: ties are shared objects or shared storage.  The copies, their    *)
(* streams and their leases are the business of the other modules.         *)
(***************************************************************************)
EXTENDS AdapterUpdates, Checkpoint

CONSTANTS
    Local,      \* each name's own name inside its block
    At,         \* the position of its block in the block list, or NoBlock
    NoBlock,
    Models,     \* what models may look like, below
    Capable,    \* what is supported, to the representations that support it
    Files,      \* headers of files
    Requests, Merges,   \* adapter requests of sessions and of permanent merges
    Trials,     \* requests that are only validated
    MaxSteps

\* Names and blocks are finitely many, and a block has one tensor of a name.
ASSUME PlacesAssumption ==
    /\ IsFiniteSet(Names) /\ NoBlock \notin Nat
    /\ At \in [Names -> Nat \cup {NoBlock}]
    /\ \A n, m \in Names : At[n] # NoBlock /\ At[n] = At[m] /\ Local[n] = Local[m] => n = m

\* A request lists loaded adapters with their strengths.
ASSUME RequestsAssumption ==
    Requests \cup Merges \subseteq Seq([spec : Specs, strength : Int])

(***************************************************************************)
(* A model has tie (a representative of the names sharing its storage, or  *)
(* its object when it has no storage), wrap (of the names that are the     *)
(* same Parameter object), grad, meta and mapped (sets of names), kind     *)
(* (representations), linear (the names whose module is an nn.Linear),     *)
(* transient (the names under each transient path) and                     *)
(* include_block_trainables.  An object has one storage, whatever is so of *)
(* a storage is so under all its names, and the parts that are offloaded   *)
(* separately own disjoint state (docs/streaming.md:58-61, 205).           *)
(***************************************************************************)
Streams(m, n) == At[n] # NoBlock /\ (m.include_block_trainables \/ n \notin m.grad)
WellFormed(m) ==
    /\ m.tie \in [Names -> Names] /\ m.wrap \in [Names -> Names]
    /\ m.grad \subseteq Names /\ m.meta \subseteq Names /\ m.mapped \subseteq Names
    /\ m.transient \in Seq(SUBSET Names)
    /\ \A n \in Names :
          /\ m.wrap[m.wrap[n]] = m.wrap[n] /\ m.tie[m.tie[n]] = m.tie[n]
          /\ m.wrap[n] \in m.grad <=> n \in m.grad
    /\ \A n, o \in Names : m.wrap[n] = m.wrap[o] => m.tie[n] = m.tie[o]
    /\ \A n, o \in Names : m.tie[n] = m.tie[o] =>
          /\ n \in m.meta <=> o \in m.meta
          /\ n \in m.meta => m.wrap[n] = m.wrap[o]
          /\ n \in m.mapped <=> o \in m.mapped
          /\ Streams(m, n) <=> Streams(m, o)
          /\ Streams(m, n) => At[n] = At[o]
          /\ \A k \in DOMAIN m.transient : n \in m.transient[k] <=> o \in m.transient[k]
ASSUME ModelsAssumption == \A m \in Models : WellFormed(m)

VARIABLES
    phase,      \* "unopened", "loaded", "merging", "idle", "active" or "dead"
    file,       \* the header being read
    model,
    registry,   \* names to Parameter objects
    data,       \* the storage of the model's own Parameter objects and copies
    bytes,      \* what each storage holds
    host,       \* each managed name's HostParam, by one of its names
    backing,    \* the storage of a HostParam, or None for a meta one
    ops,        \* permanent merges still to apply
    acquired,   \* components whose targets are installed
    activation,    \* the request, the mode and the device of this session
    routedUps,      \* the routed contributions installed on each module
    merged,     \* what was merged for good (history)
    steps       \* optimizer steps taken (history)
modulesVars == <<phase, file, model, registry, data, bytes, host, backing, ops, acquired, activation, routedUps, merged, steps>>

None == <<"none", "none">>
Writables == {"own", "copy"} \X Names
Storages == {"base", "host", "copy", "gpu"} \X Names
Sessions == [request : Requests, mode : {"merge", "routed"}, device : {"cuda", "cpu"}]
NoSession == [request |-> <<>>, mode |-> "merge", device |-> "cpu"]
AllKinds == UNION {Capable[c] : c \in DOMAIN Capable}

Pristine(from) == [from |-> from, scale |-> 1, ups |-> NoDeltas, steps |-> 0]
KindOf(content) == IF content.from[1] = "value" THEN Source[content.from[2]].kind ELSE model.kind[content.from[2]]
ValueOf(s) == Pristine(<<"value", s>>)

\* The storage of an object; a meta one has none.
Data(o) ==
    CASE o[1] = "cpu" -> backing[o[2]]
      [] o[1] = "gpu" -> o
      [] OTHER        -> data[o]
IsMeta(n) == Data(registry[n]) = None
Shown(n) == bytes[Data(registry[n])]
Trains(n) == n \in model.grad

\* param_tensor_id, merge_target_id
Identity(n) == IF IsMeta(n) THEN registry[n] ELSE Data(registry[n])
Tied(n) == {m \in Names : Identity(m) = Identity(n)}

(***************************************************************************)
(* The parts of the model: block stores, transient paths, and the rest.    *)
(***************************************************************************)
InBlocks == {n \in Names : At[n] # NoBlock}
\* Empty positions are skipped; the rest keep their true index.
BlockIndices ==
    LET positions == {At[n] : n \in InBlocks} count == Cardinality(positions)
    IN CHOOSE f \in [1 .. count -> positions] : \A i, j \in 1 .. count : i < j => f[i] < f[j]
Selected(n) == model.include_block_trainables \/ ~Trains(n)
BlockParamNames(i) == {Local[n] : n \in {m \in InBlocks : At[m] = i /\ Selected(m)}}
BlockName(i, local) == CHOOSE n \in InBlocks : At[n] = i /\ Local[n] = local

\* _block_param_names_for_blocks, _check_block_requires_grad_consistent
BlocksAgree ==
    /\ \A i, j \in ToSet(BlockIndices) : BlockParamNames(i) = BlockParamNames(j)
    /\ \A n, m \in InBlocks :
          Local[n] = Local[m] /\ Selected(n) /\ Selected(m) => (Trains(n) <=> Trains(m))

BlockParams == {n \in InBlocks : Selected(n)}
Earlier(k) == UNION {model.transient[j] : j \in 1 .. k - 1}
Components ==
    {<<"block", k>> : k \in DOMAIN BlockIndices}
      \cup {<<"path", k>> : k \in DOMAIN model.transient} \cup {<<"resident", 0>>}
(* MUTANT: a transient path forgets the paths before it. *)
ParamNamesNested(c) ==
    CASE c[1] = "block" -> {n \in BlockParams : At[n] = BlockIndices[c[2]]}
      [] c[1] = "path" -> model.transient[c[2]] \ BlockParams
      [] OTHER -> (Names \ BlockParams) \ Earlier(Len(model.transient) + 1)
ParamNames(c) ==
    CASE c[1] = "block" -> {n \in BlockParams : At[n] = BlockIndices[c[2]]}
      [] c[1] = "path" -> (model.transient[c[2]] \ BlockParams) \ Earlier(c[2])
      [] OTHER -> (Names \ BlockParams) \ Earlier(Len(model.transient) + 1)
HostComponents == {c \in Components : c[1] # "block"}

(***************************************************************************)
(* Planning and validating updates, before anything changes.               *)
(***************************************************************************)
\* validate_merge_target_aliases
AliasesDistinct(request) ==
    \A n, m \in Updated(request) : Identity(n) = Identity(m) => n = m
\* should_skip_merge
Skipped(c, n) == IsMeta(n) /\ c.values = <<>> /\ ~c.requires_base
Planned(request) == {n \in Updated(request) : ~Skipped(Contributions(request, n), n)}
PlanOf(request, n) == Plan(Contributions(request, n))

\* ParameterUpdatePlan.validate_parameter
Validates(plan, n) ==
    /\ plan.value # NoSpec => IsMeta(n) /\ ~Trains(n) /\ Source[plan.value].fits
    /\ HasUpdate(plan) =>
          /\ plan.value # NoSpec \/ ~IsMeta(n)
          /\ (IF plan.value # NoSpec THEN Source[plan.value].kind ELSE KindOf(Shown(n)))
                \in Capable[Arithmetic(plan)]
          /\ \A s \in plan.from : Source[s].fits

\* _build_merge_parameter_overrides
MergeAccepts(request) ==
    /\ AliasesDistinct(request)
    /\ \A n \in Planned(request) : Validates(PlanOf(request, n), n)
\* _register_routed_lora_hooks
RoutedAccepts(request) ==
    \A n \in Updated(request) :
        LET c == Contributions(request, n) IN c.values = <<>> /\ ~c.dense /\ n \in model.linear
\* _MergeOp.validate
Permanent(plan, n) ==
    HasUpdate(plan) =>
        (IF plan.value # NoSpec THEN Source[plan.value].kind ELSE KindOf(Shown(n))) \in Capable["permanent"]

(***************************************************************************)
(* The load plan of a session: resolve_load_plan for each component.       *)
(***************************************************************************)
Overrides(s) ==
    IF s.mode = "merge" /\ Updated(s.request) # {}
    THEN [n \in Planned(s.request) |-> PlanOf(s.request, n)] ELSE <<>>

\* _build_param_name_index: blocks are addressed by their true index, and
\* held by their position among the blocks kept.
Position(n) == CHOOSE k \in DOMAIN BlockIndices : BlockIndices[k] = At[n]
Addressed(n) == IF n \in BlockParams THEN BlockName(BlockIndices[Position(n)], Local[n]) ELSE n

OverridesOf(h, overrides) == {overrides[n] : n \in {m \in DOMAIN overrides : host[Addressed(m)] = h}}
Override(h, overrides) == IF OverridesOf(h, overrides) = {} THEN NoPlan ELSE CHOOSE p \in OverridesOf(h, overrides) : TRUE

\* resolve_load_plan, _resolve_parameter_load
Resolves(overrides) ==
    \A n \in Names :
        LET h == host[n] IN
        OverridesOf(h, overrides) # {} =>
            /\ \A p, q \in OverridesOf(h, overrides) : p = q
            /\ Override(h, overrides).value # NoSpec => ~Trains(h) /\ Source[Override(h, overrides).value].fits
            /\ Override(h, overrides).value = NoSpec => backing[h] # None
Loads(h, overrides) == backing[h] # None \/ OverridesOf(h, overrides) # {}

\* _load_param_target: one copy, then the update
Loaded(h, overrides) ==
    LET plan == Override(h, overrides) IN
    Apply(plan, IF plan.value # NoSpec THEN ValueOf(plan.value) ELSE bytes[backing[h]])

Accepts(s) ==
    /\ \A a \in ToSet(s.request) : Builds(a.spec)
    /\ Groups(s.request)
    /\ Updated(s.request) # {} =>
          IF s.mode = "routed" THEN RoutedAccepts(s.request)
          ELSE s.device = "cuda" /\ MergeAccepts(s.request)
    /\ s.device = "cuda" => Resolves(Overrides(s))
-----------------------------------------------------------------------------
ModulesInit ==
    /\ phase = "unopened" /\ file \in Files
    /\ model = None /\ registry = <<>> /\ data = <<>> /\ bytes = <<>> /\ host = <<>> /\ backing = <<>>
    /\ ops = {} /\ acquired = {} /\ activation = NoSession /\ routedUps = <<>>
    /\ merged = <<>> /\ steps = 0

\* A file is read; a model is made of its tensors and of others.
Open(m) ==
    /\ phase = "unopened" /\ Readable(file)
    /\ file' = <<>> /\ phase' = "loaded" /\ model' = m
    /\ registry' = [n \in Names |-> <<"own", m.wrap[n]>>]
    /\ data' = [o \in Writables |->
                  IF o[1] = "copy" THEN o ELSE IF o[2] \in m.meta THEN None ELSE <<"base", m.tie[o[2]]>>]
    /\ bytes' = [s \in Storages |-> Pristine(IF s[1] = "base" THEN <<"model", s[2]>> ELSE None)]
    /\ routedUps' = [n \in Names |-> NoDeltas]
    /\ UNCHANGED <<host, backing, ops, acquired, activation, merged, steps>>

(***************************************************************************)
(* merge_adapter: every operation is planned and validated, then each is   *)
(* applied, in an order that does not matter.                              *)
(***************************************************************************)
MergesInto(request) ==
    /\ Groups(request) /\ MergeAccepts(request)
    /\ \A n \in Planned(request) : Permanent(PlanOf(request, n), n)
Merge(request) ==
    /\ phase = "loaded" /\ merged = <<>>
    /\ \A a \in ToSet(request) : Builds(a.spec)
    /\ MergesInto(request)
    /\ ops' = {[param |-> registry[n], name |-> n, aliases |-> Tied(n), plan |-> PlanOf(request, n)] :
                 n \in Planned(request)}
    /\ phase' = "merging" /\ merged' = request
    /\ UNCHANGED <<file, model, registry, data, bytes, host, backing, acquired, activation, routedUps, steps>>

(* MUTANT: what the caller's tensors view is not looked at. *)
OwnedAlways(storage) == TRUE

\* host_state_is_owned: a view into a file mapping may not be written.
Owned(storage) == ~(storage[1] = "base" /\ storage[2] \in model.mapped)

\* _MergeOp.apply, _owned_copy
ApplyOp(op) ==
    /\ phase = "merging" /\ op \in ops
    /\ LET replaced == op.plan.value # NoSpec \/ ~Owned(Data(op.param))
           target == IF replaced THEN <<"copy", op.name>> ELSE Data(op.param)
       IN /\ bytes' = [bytes EXCEPT ![target] =
                         Apply(op.plan, IF op.plan.value # NoSpec THEN ValueOf(op.plan.value) ELSE bytes[Data(op.param)])]
          /\ registry' = [n \in Names |-> IF replaced /\ n \in op.aliases THEN target ELSE registry[n]]
    /\ ops' = ops \ {op}
    /\ UNCHANGED <<phase, file, model, data, host, backing, acquired, activation, routedUps, merged, steps>>

Merged ==
    /\ phase = "merging" /\ ops = {}
    /\ phase' = "loaded"
    /\ UNCHANGED <<file, model, registry, data, bytes, host, backing, ops, acquired, activation, routedUps, merged, steps>>

(***************************************************************************)
(* from_module: each component captures the storage of its names, one      *)
(* HostParam for all that share it, and installs it.                       *)
(***************************************************************************)
ComponentOf(n) == CHOOSE c \in Components : n \in ParamNames(c)
Group(n) == Tied(n) \cap ParamNames(ComponentOf(n))

\* HostParam.__init__, _validate_param_storage_group_requires_grad,
\* _validate_param_storage_group_tieable, _validate_trainable_param_data_swaps
Captures(n) ==
    /\ \A m \in Group(n) : Trains(m) <=> Trains(n)
    /\ Trains(n) => ~IsMeta(n) /\ KindOf(Shown(n)) \in Capable["swap"]
    /\ ~IsMeta(n) /\ KindOf(Shown(n)) \in Capable["rearm"] => Group(n) = {n}

Capture ==
    /\ phase = "loaded"
    /\ IF ~BlocksAgree \/ \E n \in Names : ~Captures(n)
       THEN /\ phase' = "dead"
            /\ UNCHANGED <<registry, data, bytes, host, backing>>
       ELSE /\ phase' = "idle"
            /\ host' = [n \in Names |-> CHOOSE m \in Group(n) : TRUE]
            /\ backing' = [n \in Names |->
                             IF IsMeta(n) THEN None
                             ELSE IF Trains(n) /\ ~Owned(Data(registry[n])) THEN <<"host", host'[n]>>
                             ELSE Data(registry[n])]
            /\ bytes' = [s \in Storages |->
                           IF \E n \in Names : backing'[n] = s THEN Shown(CHOOSE n \in Names : backing'[n] = s) ELSE bytes[s]]
            /\ registry' = [n \in Names |-> IF Trains(n) THEN registry[n] ELSE <<"cpu", host'[n]>>]
            /\ data' = [o \in Writables |->
                          IF \E n \in Names : Trains(n) /\ registry[n] = o
                          THEN backing'[CHOOSE n \in Names : Trains(n) /\ registry[n] = o] ELSE data[o]]
    /\ UNCHANGED <<file, model, ops, acquired, activation, routedUps, merged, steps>>

(***************************************************************************)
(* A session.                                                              *)
(***************************************************************************)
(* MUTANT: the target is installed under the name its HostParam has. *)
InstallOneName(names, overrides) ==
    LET loads == {n \in names : Loads(host[n], overrides) /\ (n = host[n] \/ Trains(n))}
        trains == {n \in loads : Trains(n)}
    IN /\ bytes' = [s \in Storages |->
                      IF s \in {<<"gpu", host[n]>> : n \in loads} THEN Loaded(s[2], overrides) ELSE bytes[s]]
       /\ registry' = [n \in Names |-> IF n \in loads \ trains THEN <<"gpu", host[n]>> ELSE registry[n]]
       /\ data' = [o \in Writables |->
                     IF o \in {registry[n] : n \in trains}
                     THEN <<"gpu", host[CHOOSE n \in trains : registry[n] = o]>> ELSE data[o]]

\* allocate_target, copy_to_target and install_target; _set_params keeps a
\* trainable parameter's object and swaps its data.
InstallTargets(names, overrides) ==
    LET loads == {n \in names : Loads(host[n], overrides)}
        trains == {n \in loads : Trains(n)}
    IN /\ bytes' = [s \in Storages |->
                      IF s \in {<<"gpu", host[n]>> : n \in loads} THEN Loaded(s[2], overrides) ELSE bytes[s]]
       /\ registry' = [n \in Names |-> IF n \in loads \ trains THEN <<"gpu", host[n]>> ELSE registry[n]]
       /\ data' = [o \in Writables |->
                     IF o \in {registry[n] : n \in trains}
                     THEN <<"gpu", host[CHOOSE n \in trains : registry[n] = o]>> ELSE data[o]]

(* MUTANT: trainable parameters are replaced as frozen ones are. *)
InstallHostObjects(names) ==
    /\ registry' = [n \in Names |-> IF n \in names THEN <<"cpu", host[n]>> ELSE registry[n]]
    /\ data' = data

\* install_host
InstallHost(names) ==
    LET trains == {n \in names : Trains(n)}
    IN /\ registry' = [n \in Names |-> IF n \in names \ trains THEN <<"cpu", host[n]>> ELSE registry[n]]
       /\ data' = [o \in Writables |->
                     IF o \in {registry[n] : n \in trains}
                     THEN backing[CHOOSE n \in trains : registry[n] = o] ELSE data[o]]

\* The target's storage returns to its pool, with no particular contents.
Freed(names) == [s \in Storages |-> IF s \in {<<"gpu", host[n]>> : n \in names} THEN Pristine(None) ELSE bytes[s]]

NamesOf(components) == UNION {ParamNames(c) : c \in components}

\* Activation and, on a refusal, the deactivation that leaves all as it was.
BeginActivation(s) ==
    /\ phase = "idle" /\ Accepts(s)
    /\ phase' = "active" /\ activation' = s
    /\ routedUps' = IF s.mode = "merge" THEN routedUps
                ELSE [n \in Names |-> Contributions(s.request, n).ups]
    /\ IF s.device = "cpu" THEN UNCHANGED <<registry, data, bytes, acquired>>
       ELSE /\ InstallTargets(NamesOf(HostComponents), Overrides(s))
            /\ acquired' = HostComponents
    /\ UNCHANGED <<file, model, host, backing, ops, merged, steps>>

\* A block is loaded, or a transient component acquired again.
Acquire(c) ==
    /\ phase = "active" /\ activation.device = "cuda" /\ c \notin acquired
    /\ InstallTargets(ParamNames(c), Overrides(activation))
    /\ acquired' = acquired \cup {c}
    /\ UNCHANGED <<phase, file, model, host, backing, ops, activation, routedUps, merged, steps>>

\* A block is evicted, or a transient component released after its forward.
Release(c) ==
    /\ phase = "active" /\ c \in acquired /\ c[1] # "resident"
    /\ InstallHost(ParamNames(c)) /\ bytes' = Freed(ParamNames(c))
    /\ acquired' = acquired \ {c}
    /\ UNCHANGED <<phase, file, model, host, backing, ops, activation, routedUps, merged, steps>>

Trained(content) == [content EXCEPT !.steps = @ + 1]

\* optimizer_step of a host component: its targets are trained and copied
\* back.  Blocks are evicted first, and theirs gathered from the host,
\* without the session's updates, and scattered.
OptimizerStep ==
    /\ phase = "active" /\ activation.device = "cuda" /\ HostComponents \subseteq acquired
    /\ steps < MaxSteps /\ steps' = steps + 1
    /\ LET held == {host[n] : n \in {m \in NamesOf(HostComponents) : Trains(m)}}
           gathered == {host[n] : n \in {m \in BlockParams : Trains(m)}}
       IN bytes' = [s \in Storages |->
                      CASE \E h \in held : s \in {<<"gpu", h>>, backing[h]} ->
                             Trained(bytes[<<"gpu", CHOOSE h \in held : s \in {<<"gpu", h>>, backing[h]}>>])
                        [] \E h \in gathered : s = backing[h] -> Trained(bytes[s])
                        [] OTHER -> Freed(BlockParams)[s]]
    /\ InstallHost(BlockParams)
    /\ acquired' = HostComponents
    /\ UNCHANGED <<phase, file, model, host, backing, ops, activation, routedUps, merged>>

\* On the CPU, or between sessions, an optimizer writes the host's bytes.
StepOnHost ==
    /\ phase = "idle" \/ (phase = "active" /\ activation.device = "cpu")
    /\ steps < MaxSteps /\ steps' = steps + 1
    /\ bytes' = [s \in Storages |->
                   IF \E n \in Names : Trains(n) /\ Data(registry[n]) = s THEN Trained(bytes[s]) ELSE bytes[s]]
    /\ UNCHANGED <<phase, file, model, registry, data, host, backing, ops, acquired, activation, routedUps, merged>>

EndActivation ==
    /\ phase = "active"
    /\ InstallHost(NamesOf(acquired)) /\ bytes' = Freed(NamesOf(acquired))
    /\ phase' = "idle" /\ acquired' = {} /\ activation' = NoSession
    /\ routedUps' = [n \in Names |-> NoDeltas]
    /\ UNCHANGED <<file, model, host, backing, ops, merged, steps>>

ModulesNext ==
    \/ \E m \in Models : Open(m)
    \/ \E request \in Merges : Merge(request)
    \/ \E op \in ops : ApplyOp(op)
    \/ Merged
    \/ Capture
    \/ \E s \in Sessions : BeginActivation(s)
    \/ phase = "active" /\ \E c \in Components : Acquire(c) \/ Release(c)
    \/ OptimizerStep
    \/ StepOnHost
    \/ EndActivation

ModulesSpec == ModulesInit /\ [][ModulesNext]_modulesVars
-----------------------------------------------------------------------------
(***************************************************************************)
(* What the documents promise, from the requests accepted so far.          *)
(***************************************************************************)
Aliases(n) == {m \in Names : model.tie[m] = model.tie[n]}
Asks(request, names) == {i \in DOMAIN request : request[i].strength # 0 /\ Targets(request[i].spec) \cap names # {}}
Gives(request, names) == {i \in Asks(request, names) : Part(request[i].spec, "value") \cap names # {}}
Strength(request, names, s) ==
    MapThenSumSet(LAMBDA i : request[i].strength,
                  {i \in Asks(request, names) \ Gives(request, names) : request[i].spec = s})

\* active parameter = value_scale * supplied_value + sum of strength * delta
After(content, request, names) ==
    LET given == Gives(request, names)
        a == request[CHOOSE i \in given : TRUE]
        scale == IF given # {} /\ Source[a.spec].scales THEN a.strength ELSE 1
        base == IF given # {} THEN ValueOf(a.spec) ELSE content
    IN [base EXCEPT !.scale = @ * scale, !.ups = [s \in Specs |-> @[s] * scale + Strength(request, names, s)]]

Permanently(n) == After(Pristine(<<"model", model.tie[n]>>), merged, Aliases(n))
Provided(n) == n \notin model.meta \/ Gives(merged, Aliases(n)) # {}
Expected(n) == After(Permanently(n), activation.request, IF activation.mode = "merge" THEN Aliases(n) ELSE {n})
Available(n) == Provided(n) \/ Gives(activation.request, Aliases(n)) # {}

\* What a forward computes with: the bytes shown and the routed residuals.
Effective(n) == [Shown(n) EXCEPT !.ups = [s \in Specs |-> @[s] + routedUps[n][s]]]

\* docs/adapters.md, one request: names, one value, one name for a tie, a
\* base for every strict delta, and representations that support it.
Permits(request, more) ==
    LET active == {a \in ToSet(request) : a.strength # 0}
        on == [n \in Names |-> {a \in active : n \in Targets(a.spec)}]
        values == [n \in Names |-> {i \in DOMAIN request : request[i] \in on[n] /\ n \in Part(request[i].spec, "value")}]
    IN /\ \A a \in ToSet(request) : Builds(a.spec)
       /\ \A a \in active : Source[a.spec].partial \/ Targets(a.spec) \subseteq Names
       /\ \A n \in Names : on[n] # {} =>
             LET deltas == {a \in on[n] : n \in DeltaTargets(a.spec)}
                 a == request[CHOOSE i \in values[n] : TRUE]
                 kind == IF values[n] # {} THEN Source[a.spec].kind ELSE KindOf(Permanently(n))
                 way == IF \A d \in deltas : n \in Part(d.spec, "A") /\ n \notin Part(d.spec, "delta") THEN "lora" ELSE "dense"
                 arithmetic == deltas # {} \/ (values[n] # {} /\ Source[a.spec].scales /\ a.strength # 1)
             IN /\ \A m \in Aliases(n) : on[m] # {} => m = n
                /\ Cardinality(values[n]) <= 1
                /\ values[n] # {} => ~Provided(n) /\ Source[a.spec].fits
                /\ values[n] = {} /\ ~Provided(n) => \A d \in deltas : Source[d.spec].partial
                /\ arithmetic /\ (values[n] # {} \/ Provided(n)) =>
                      /\ kind \in Capable[IF deltas = {} THEN "dense" ELSE way] \cap more
                      /\ \A d \in deltas : Source[d.spec].fits
-----------------------------------------------------------------------------
(***************************************************************************)
(* A file is read exactly if its header claims every byte of the data once *)
(* and in no order of its own, empty tensors included (checkpoint.py:266). *)
(***************************************************************************)
HeaderExact == phase = "unopened" => (Readable(file) <=> Exact(file))

(***************************************************************************)
(* Every parameter belongs to one component, whatever the block list skips *)
(* and however the transient paths nest (composite_component.py:148-235).  *)
(***************************************************************************)
OneOwner ==
    phase = "loaded" /\ BlocksAgree => \A n \in Names : Cardinality({c \in Components : n \in ParamNames(c)}) = 1

(***************************************************************************)
(* A header is accepted exactly if it is right, a request exactly if the   *)
(* documents permit it: whatever the order of its adapters, through any    *)
(* alias, for the values and the copies that earlier merges installed      *)
(* (adapter.py:65-77, merge.py:229-272).                                   *)
(***************************************************************************)
AcceptedAsDocumented ==
    /\ HeaderExact
    /\ phase = "loaded" /\ merged = <<>> =>
          \A r \in Merges : (\A a \in ToSet(r) : Builds(a.spec)) => (MergesInto(r) <=> Permits(r, Capable["permanent"]))
    /\ phase = "idle" =>
          \A r \in Requests \cup Trials :
              Accepts([request |-> r, mode |-> "merge", device |-> "cuda"]) <=> Permits(r, AllKinds)

(***************************************************************************)
(* While a component is loaded, each name of it, tied ones alike, shows    *)
(* its source with every requested update applied once, however often it   *)
(* was loaded again; a parameter no adapter supplies stays meta            *)
(* (host_module.py:801-819).  A step may train an update in.               *)
(***************************************************************************)
AsRequested ==
    phase = "active" =>
        \A n \in Names :
            (activation.device = "cpu" \/ ComponentOf(n) \in acquired) /\ (Trains(n) => steps = 0) =>
                IF Available(n) THEN ~IsMeta(n) /\ Effective(n) = Expected(n) ELSE IsMeta(n)

(***************************************************************************)
(* The host keeps: no session changes the bytes of a frozen parameter, no  *)
(* one writes a mapped file, each optimizer step reaches the host once,    *)
(* and between sessions the model shows the host's bytes and no hook is    *)
(* left (host_module.py:837-851, host_param.py:142-147, merge.py:93-107).  *)
(***************************************************************************)
HostKept ==
    /\ phase # "unopened" => \A n \in model.mapped : bytes[<<"base", model.tie[n]>>] = Pristine(<<"model", model.tie[n]>>)
    /\ phase \in {"idle", "active"} =>
          \A n \in Names : Provided(n) =>
              IF Trains(n) THEN bytes[backing[host[n]]].steps = steps ELSE bytes[backing[host[n]]] = Permanently(n)
    /\ phase = "idle" =>
          \A n \in Names : Data(registry[n]) = backing[host[n]] /\ routedUps[n] = NoDeltas

(***************************************************************************)
(* Once captured, a trainable parameter keeps its object: an optimizer     *)
(* built on it goes on training what the model computes with               *)
(* (host_module.py:854-889).                                               *)
(***************************************************************************)
TrainablesKept ==
    [][(phase \in {"idle", "active"}) => \A n \in model.grad : registry'[n] = registry[n]]_modulesVars
=============================================================================
