---------------------------- MODULE MCHostModules ----------------------------
(***************************************************************************)
(* Parameters for TLC: tied frozen weights e and h, tied trainable ones t  *)
(* and u, a tied pair m and k without storage, and two blocks at positions *)
(* 1 and 3 of a list whose positions 0 and 2 are empty.                    *)
(***************************************************************************)
EXTENDS HostModules

MCNames == {"e", "h", "t", "u", "m", "k", "b1", "b3"}
MCLocal == [n \in MCNames |-> IF n \in {"b1", "b3"} THEN "w" ELSE n]
MCAt == [n \in MCNames |-> CASE n = "b1" -> 1 [] n = "b3" -> 3 [] OTHER -> NoBlock]

Lora(n) == {"A", "B"} \X {n}
Spec1(keys, partial, scales, kind, fits) ==
    [keys |-> keys, partial |-> partial, scales |-> scales, kind |-> kind, fits |-> fits]
MCSource ==
    [factors |-> Spec1(Lora("e") \cup Lora("b3") \cup {<<"alpha", "e">>}, FALSE, FALSE, "plain", TRUE),
     alias   |-> Spec1({<<"delta", "h">>, <<"delta", "ghost">>}, TRUE, FALSE, "plain", TRUE),
     value   |-> Spec1({<<"value", "m">>}, FALSE, TRUE, "plain", TRUE),
     packed  |-> Spec1({<<"value", "k">>, <<"value", "ghost">>}, TRUE, TRUE, "packed", TRUE),
     strict  |-> Spec1(Lora("m"), FALSE, FALSE, "plain", TRUE),
     partial |-> Spec1(Lora("m") \cup {<<"delta", "t">>}, TRUE, FALSE, "plain", TRUE),
     ghost   |-> Spec1(Lora("ghost") \cup Lora("b1"), FALSE, FALSE, "plain", TRUE),
     short   |-> Spec1({<<"value", "m">>, <<"delta", "b1">>}, FALSE, FALSE, "plain", FALSE),
     half    |-> Spec1({<<"A", "e">>}, FALSE, FALSE, "plain", TRUE)]
MCSpecs == DOMAIN MCSource

MCCapable ==
    [lora |-> {"plain", "packed"}, dense |-> {"plain"}, permanent |-> {"plain"},
     swap |-> {"plain"}, rearm |-> {"migrating"}]

Twin(n) == CASE n = "h" -> "e" [] n = "u" -> "t" [] n = "k" -> "m" [] OTHER -> n
Plain == [n \in MCNames |-> "plain"]
Model(wrap, grad, mapped, kind, transient, trainables) ==
    [tie |-> [n \in MCNames |-> Twin(n)], wrap |-> wrap, grad |-> grad, meta |-> {"m", "k"}, mapped |-> mapped,
     kind |-> kind, linear |-> MCNames \ {"b1"}, transient |-> transient, include_block_trainables |-> trainables]
Shared == [n \in MCNames |-> Twin(n)]
Wrapped == [n \in MCNames |-> IF n = "h" THEN "h" ELSE Twin(n)]
Viewed == [n \in MCNames |-> IF n = "u" THEN "u" ELSE Twin(n)]
MCModels ==
    {Model(Wrapped, {"t", "u"}, {"e", "h", "t", "u", "b1"}, Plain, <<{"m", "k", "e", "h"}, {"e", "h"}>>, FALSE),
     Model(Shared, {"b1", "b3", "t", "u"}, {"b1"}, Plain, <<{"m", "k"}>>, TRUE),
     Model(Shared, {"b1"}, {}, Plain, <<>>, FALSE),
     Model(Shared, {"b1"}, {}, Plain, <<>>, TRUE),
     Model(Viewed, {"t"}, {}, Plain, <<>>, FALSE),
     Model(Shared, {}, {"e", "h"}, [Plain EXCEPT !["t"] = "packed", !["u"] = "packed"], <<>>, FALSE),
     Model(Shared, {}, {}, [Plain EXCEPT !["e"] = "migrating", !["h"] = "migrating"], <<>>, FALSE)}

Uses == [spec : MCSpecs, strength : {0, 1, 2}]
Use(s, k) == [spec |-> s, strength |-> k]
Pairable == {u \in Uses : u.spec # "half" /\ (u.strength < 2 \/ u.spec = "value")}
MCTrials == {<<a>> : a \in Uses} \cup {<<a, b>> : a, b \in Pairable} \cup
            {<<Use(s, 1), Use(s, -1)>> : s \in MCSpecs}
MCRequests ==
    {<<>>} \cup {<<Use(s, 1)>> : s \in MCSpecs} \cup
    {<<Use("value", 2)>>, <<Use("packed", 2)>>, <<Use("partial", 1), Use("value", 2)>>,
     <<Use("factors", 1), Use("factors", 2)>>, <<Use("factors", 1), Use("factors", -1)>>, <<Use("strict", 1), Use("value", 1)>>,
     <<Use("value", 1), Use("value", 0), Use("strict", 2)>>}
MCMerges ==
    {<<>>, <<Use("factors", 1)>>, <<Use("alias", 2)>>, <<Use("packed", 1)>>, <<Use("partial", 1)>>,
     <<Use("strict", 1)>>, <<Use("factors", 1), Use("alias", 1)>>, <<Use("partial", 1), Use("value", 2)>>}

Entries == [start : 0 .. 3, stop : 0 .. 4, need : 0 .. 2]
MCFiles == {<<>>} \cup {<<a>> : a \in Entries}
             \cup UNION {[1 .. k -> {e \in Entries : e.stop - e.start = e.need}] : k \in 2 .. 4}
=============================================================================
