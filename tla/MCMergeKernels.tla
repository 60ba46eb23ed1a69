--------------------------- MODULE MCMergeKernels ---------------------------
(* Small weights of every format and layout, for TLC. *)
EXTENDS MergeKernels

Factor(rank, rows, cols, coefficient) == [rank |-> rank, rows |-> rows, cols |-> cols, coefficient |-> coefficient]
Delta(rows, cols) == [rows |-> rows, cols |-> cols]
Base(format, layout, rows, cols, group) ==
    [format |-> format, layout |-> layout, global |-> <<rows, cols>>, heads |-> 1, group |-> group,
      rows |-> 0, cols |-> 0, offsets |-> <<0, 0>>, rank |-> 0,
      mesh |-> <<>>, placements |-> <<>>, coordinate |-> <<>>, projected |-> FALSE, direct |-> FALSE,
      swizzled |-> FALSE, nested |-> FALSE, pre_scaled |-> FALSE, factors |-> <<>>, sources |-> <<>>]
\* One dense delta, or one factor.
Updated(w) ==
    LET r == w.global[1] c == w.global[2] IN
    {[w EXCEPT !.sources = <<Delta(r, c)>>], [w EXCEPT !.factors = <<Factor(3, r, c, 2)>>]}
Weight(format, layout, rows, cols, group) == Updated(Base(format, layout, rows, cols, group))
Swizzled(inputs) == {[i EXCEPT !.swizzled = TRUE] : i \in inputs}
Nested(inputs) == {[i EXCEPT !.nested = TRUE] : i \in inputs}
Flat1(format) == UNION {Weight(format, "tensor", r, c, 0) : r \in {1, 4}, c \in {2, 7}}
ByRow(format) == UNION {Weight(format, "row", r, c, 0) : r \in {2, 4}, c \in {3, 7}}
Groups(format) == Weight(format, "group", 4, 6, 3) \cup Weight(format, "group", 2, 4, 2)
Blocks(format) == UNION {Weight(format, "block", r, c, 0) : r \in {1, 5}, c \in {2, 6}}

\* Several factors, with and without a dense delta, broadcast or not.
Combined(w) ==
    LET r == w.global[1] \div w.heads c == w.global[2] IN
    {[w EXCEPT !.factors = <<Factor(1, f[1], f[2], 1), Factor(2, r, g, 2)>>, !.sources = s] :
       f \in {<<r, c>>, <<1, c>>, <<1, 1>>}, g \in {1, c}, s \in {<<>>, <<Delta(1, c), Delta(r, 1)>>}}
      \cup {[w EXCEPT !.factors = <<Factor(2, 1, c, 2)>>], [w EXCEPT !.sources = <<Delta(1, 1)>>]}
Exact(w) ==
    LET r == w.global[1] c == w.global[2] IN
    Updated(w) \cup
    {[w EXCEPT !.factors = <<Factor(1, r, c, 1), Factor(2, r, c, 2)>>, !.sources = s] : s \in {<<>>, <<Delta(r, c)>>}}
Plain(rows, cols) == Base("plain", "none", rows, cols, 0)

\* Shards that are even, uneven and empty, replicas, one dimension sharded twice.
Ranks1(w, mesh, placements) ==
    LET on(c) == [w EXCEPT !.mesh = mesh, !.placements = placements, !.coordinate = c] IN
    {on(c) : c \in Coordinates([w EXCEPT !.mesh = mesh])}
Meshed(w) ==
    UNION {Ranks1(w, <<3>>, <<d>>) : d \in 0 .. 2}
      \cup UNION {Ranks1(w, <<2, 2>>, p) : p \in {<<1, 2>>, <<2, 0>>, <<1, 1>>, <<2, 2>>}}
Sharded1 ==
    UNION {Exact(w) : w \in UNION {Meshed(Plain(s[1], s[2])) : s \in {<<4, 5>>, <<1, 2>>}}}
      \cup {[w EXCEPT !.factors = <<Factor(2, 4, 5, 2)>>, !.direct = TRUE] : w \in Meshed(Plain(4, 5))}
      \cup {[w EXCEPT !.sources = <<Delta(4, 5)>>, !.projected = TRUE] :
              w \in UNION {Ranks1(Plain(4, 5), <<3>>, <<d>>) : d \in 1 .. 2}}
      \cup UNION {Exact(w) : w \in Ranks1(Base("float8", "row", 4, 6, 0), <<2>>, <<1>>)}

MCInputs ==
    Flat1("float8") \cup ByRow("float8") \cup Groups("float8")
      \cup Flat1("static_float8")
      \cup Weight("int8", "tensor", 3, 5, 0) \cup Weight("int8", "row", 2, 7, 0) \cup Groups("int8")
      \cup Exact([Base("int8", "row", 2, 4, 0) EXCEPT !.pre_scaled = TRUE])
      \cup ByRow("bnb8")
      \cup Flat1("quanto") \cup ByRow("quanto") \cup Weight("quanto", "column", 4, 6, 0)
      \cup UNION {B \cup Swizzled(B) : B \in {Blocks("mx4"), Blocks("mx8")}}
      \cup Blocks("nvfp4") \cup Swizzled(Nested(Blocks("nvfp4")))
      \cup Blocks("bnb4") \cup Nested(Blocks("bnb4"))
      \cup Combined(Plain(2, 3)) \cup Combined([Plain(4, 3) EXCEPT !.heads = 2]) \cup Sharded1

Probe(kind, value, negative, book, steps) ==
    [format |-> "probe", kind |-> kind, value |-> value, negative |-> negative, book |-> book, steps |-> steps]
\* Values on both sides of every code and of every limit; a book of 16.
MCProbes ==
    {Probe("e2m1", v, v < 0, <<>>, 0) : v \in -48 .. 48} \cup {Probe("e2m1", 0, TRUE, <<>>, 0)}
      \cup {Probe("fp4", v, v < 0, <<>>, 0) : v \in UNION {{-x - 1, -x, 1 - x, x - 1, x, x + 1} \cap -384 .. 384 :
                                                            x \in {0, 1, 2, 33, 64, 80, 96, 112, 128, 160, 192, 224, 256, 320, 384}}}
      \cup {Probe("sorted", v, v < 0, <<-30, -21, -16, -12, -9, -5, -3, 0, 2, 5, 7, 10, 13, 17, 22, 30>>, 4) : v \in -30 .. 30}

(* Two ranks of one process: tensors in every place of a small memory. *)
Tensor(start, size) == [start |-> start, size |-> size]
Tensors(starts, size) == {Tensor(s, size) : s \in starts}
Call(inputs, outputs) == [inputs |-> inputs, outputs |-> outputs]
Local1(kind, root, left, right, device) ==
    [format |-> "local", kind |-> kind, root |-> root, calls |-> <<left, right>>, device |-> device, space |-> 8]
Broadcasts == {Local1("broadcast", 1, Call(<<>>, <<t>>), Call(<<>>, <<u>>), "cuda") : t, u \in Tensors(0 .. 3, 2)}
Scatters ==
    {Local1("scatter", 0, Call(<<s, t>>, <<u>>), Call(<<>>, <<v>>), "cuda") : s, t, u, v \in Tensors(0 .. 3, 2)}
Two(t) == <<t, [t EXCEPT !.start = @ + t.size]>>
LocalGathers ==
    {Local1("allgather", 0, Call(<<s>>, Two(t)), Call(<<u>>, Two(v)), "cuda") : s, u \in Tensors(0 .. 4, 2), t, v \in Tensors({0, 3, 4}, 2)}
      \cup {Local1("allgather", 0, Call(<<Tensor(0, 1), Tensor(1, 1)>>, Two(s) \o Two(t)),
                   Call(<<Tensor(2, 1), Tensor(3, 1)>>, Two(u) \o Two(v)), "cuda") :
              s \in Tensors({0, 2, 4}, 1), t \in Tensors({1, 4, 6}, 1), u \in Tensors({1, 4}, 1), v \in Tensors({2, 3, 6}, 1)}
Sums ==
    {Local1("sum", 0, Call(<<>>, <<t>>), Call(<<>>, <<u>>), d) : t, u \in Tensors(0 .. 3, 3), d \in {"cpu", "cuda"}}
      \cup {Local1("sum", 0, Call(<<>>, <<Tensor(0, 2), t>>), Call(<<>>, <<u, v>>), d) :
              t, u, v \in Tensors({0, 2, 3, 4, 6}, 2), d \in {"cpu", "cuda"}}

(* One rank of the relay: pageable or one region, and two regions. *)
Relay1(kind, root, rank, size, inputs, outputs, transport, late) ==
    [format |-> "relay", kind |-> kind, root |-> root, rank |-> rank, size |-> size, inputs |-> inputs,
      outputs |-> outputs, transport |-> transport[1], depth |-> transport[2], capacity |-> 1, late |-> late, space |-> 8]
Transports == {<<"gloo", 1>>, <<"gloo", 2>>, <<"shared", 2>>}
Lates(transport) == IF transport[1] = "gloo" THEN {0} ELSE 0 .. 3
RelayOf(kind, root, rank, size, calls) ==
    UNION {{Relay1(kind, root, rank, size, c.inputs, c.outputs, t, l) : l \in Lates(t), c \in calls} : t \in Transports}
RelayGathers ==
    RelayOf("allgather", 0, 1, 2, {Call(<<s>>, <<t, u>>) : s, t, u \in Tensors(0 .. 3, 2)})
      \cup RelayOf("allgather", 0, 1, 3, {Call(<<s>>, <<Tensor(0, 1), t, u>>) : s, t, u \in Tensors(0 .. 2, 1)})
      \cup RelayOf("allgather_single", 0, 0, 2,
                   {Call(<<s, t>>, <<Tensor(0, 4), u>>) : s \in Tensors(0 .. 5, 2), t \in Tensors(1 .. 6, 1), u \in Tensors(3 .. 6, 2)})
RelayScatters ==
    RelayOf("scatter", 1, 1, 2, {Call(<<s, t>>, <<u>>) : s, t, u \in Tensors(0 .. 3, 2)})
      \cup RelayOf("scatter", 1, 0, 3, {Call(<<>>, <<Tensor(0, 3)>>)})
RelayOthers ==
    RelayOf("broadcast", 1, 1, 3, {Call(<<Tensor(1, 3)>>, <<Tensor(1, 3)>>)})
      \cup RelayOf("broadcast", 1, 0, 3, {Call(<<>>, <<Tensor(1, 3)>>)})
      \cup RelayOf("allreduce", 0, 1, 3, {Call(<<>>, <<s, t, u>>) : s, t, u \in Tensors({0, 1, 3, 5}, 2)})
MCCollectives == Broadcasts \cup Scatters \cup LocalGathers \cup Sums \cup RelayGathers \cup RelayScatters \cup RelayOthers
=============================================================================
