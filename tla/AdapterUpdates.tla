--------------------------- MODULE AdapterUpdates ---------------------------
(***************************************************************************)
(* What a request for adapters asks of each parameter: adapter.py (how an  *)
(* adapter is built, how the active ones are grouped) and                  *)
(* _parameter_update.py (one source and one arithmetic update).            *)
(*                                                                         *)
(* Arithmetic is kept as who contributed how much: an update adds          *)
(* strengths, so equal contents mean equal contributions.                  *)
(***************************************************************************)
EXTENDS Integers, FiniteSets, Sequences, SequencesExt

CONSTANTS
    Names,      \* the model's parameter names
    Specs,      \* the adapters a caller may load
    Source,     \* Specs -> its state dict and its options, below
    NoSpec

(***************************************************************************)
(* Source[s] has keys, pairs of a part ("A", "B", "alpha", "delta",        *)
(* "value") and the parameter name it is for; partial and scales, the      *)
(* options; kind, the representation of its values; fits, whether its      *)
(* tensors have the shape of their targets.                                *)
(***************************************************************************)
ASSUME NoSpecAssumption == NoSpec \notin Specs

Part(s, part) == {key[2] : key \in {k \in Source[s].keys : k[1] = part}}

\* _parse_adapter_state_dict, _build_adapter_targets
DeltaTargets(s) == Part(s, "A") \cup Part(s, "delta")
Targets(s) == DeltaTargets(s) \cup Part(s, "value")

\* _validate_factor_pairing, and what from_state_dict raises for
Builds(s) ==
    /\ Part(s, "A") = Part(s, "B") /\ Part(s, "alpha") \subseteq Part(s, "A")
    /\ DeltaTargets(s) \cap Part(s, "value") = {}
    /\ Targets(s) # {}

\* A request lists adapters with their strengths; those of zero are inactive.
Adapters(request) == {a \in ToSet(request) : a.strength # 0}

NoDeltas == [s \in Specs |-> 0]
NoContributions ==
    [ups |-> NoDeltas, from |-> {}, lora |-> FALSE, dense |-> FALSE, values |-> <<>>, requires_base |-> FALSE]

(* MUTANT: the last delta alone says whether a base is required. *)
AddLastDecides(c, n, a) ==
    IF n \in DeltaTargets(a.spec)
    THEN [c EXCEPT !.ups[a.spec] = @ + a.strength, !.from = @ \cup {a.spec},
                   !.lora = @ \/ n \in Part(a.spec, "A"),
                   !.dense = @ \/ n \in Part(a.spec, "delta"),
                   !.requires_base = ~Source[a.spec].partial]
    ELSE [c EXCEPT !.values = Append(@, a)]

\* AdapterTargetUpdates.add; more than one value raises
Add(c, n, a) ==
    IF n \in DeltaTargets(a.spec)
    THEN [c EXCEPT !.ups[a.spec] = @ + a.strength, !.from = @ \cup {a.spec},
                   !.lora = @ \/ n \in Part(a.spec, "A"),
                   !.dense = @ \/ n \in Part(a.spec, "delta"),
                   !.requires_base = @ \/ ~Source[a.spec].partial]
    ELSE [c EXCEPT !.values = Append(@, a)]

\* _group_adapter_updates_by_param_name
Contributions(request, n) ==
    FoldLeft(LAMBDA c, a : IF a \in Adapters(request) /\ n \in Targets(a.spec) THEN Add(c, n, a) ELSE c,
             NoContributions, request)
Updated(request) == Names \cap UNION {Targets(a.spec) : a \in Adapters(request)}
Groups(request) ==
    /\ \A a \in Adapters(request) : Source[a.spec].partial \/ Targets(a.spec) \subseteq Names
    /\ \A n \in Updated(request) : Len(Contributions(request, n).values) <= 1

\* plan_parameter_update: one source and one combined update
Plan(c) ==
    LET given == c.values # <<>> IN
    [value |-> IF given THEN Head(c.values).spec ELSE NoSpec,
     scale |-> IF given /\ Source[Head(c.values).spec].scales THEN Head(c.values).strength ELSE 1,
     ups |-> c.ups, from |-> c.from, lora |-> c.lora, dense |-> c.dense]
NoPlan == Plan(NoContributions)
\* Deltas whose strengths cancel are an update all the same.
HasUpdate(plan) == plan.from # {} \/ plan.scale # 1

\* Factors alone keep the factorized merge at any scale.
Arithmetic(plan) == IF plan.dense \/ ~plan.lora THEN "dense" ELSE "lora"

\* apply_parameter, on the bytes just loaded
Apply(plan, content) ==
    [content EXCEPT !.scale = @ * plan.scale,
                    !.ups = [s \in Specs |-> @[s] * plan.scale + plan.ups[s]]]
=============================================================================
