---------------------------- MODULE UpdateStaging ----------------------------
(***************************************************************************)
(* From an adapter's factors and dense deltas to the update a merge adds:  *)
(* lora.py, _parameter_update.py and, for a tensor-parallel weight,        *)
(* dtensor_adapter.py, which narrows them to the shard of one rank.        *)
(*                                                                         *)
(* Staging is a sequence of launches on the target's stream, as the merge  *)
(* that follows is: transfers of host tensors and operations on the        *)
(* buffers they fill.                                                      *)
(***************************************************************************)
EXTENDS Integers, Sequences, FiniteSets, SequencesExt

CONSTANT Inputs

(***************************************************************************)
(* An input has the global shape of a weight, of heads stacked matrices;   *)
(* mesh, placements (0 replicates, d shards dimension d) and the rank's    *)
(* coordinate, empty for a weight of one rank; factors and sources         *)
(* (dense deltas), whose dimensions may be 1.  WithLayout fills in rows,   *)
(* cols and offsets of the rank's region, and the rank of all factors.     *)
(***************************************************************************)
VARIABLE input

CDiv(a, b) == (a + b - 1) \div b
Below(n) == 0 .. n - 1
Smaller(a, b) == IF a < b THEN a ELSE b

(***************************************************************************)
(* The region of a rank, placement by placement.                           *)
(***************************************************************************)
Chunk(size, num, c) ==
    LET full == CDiv(size, num) start == full * c IN
    IF size < start THEN [size |-> 0, offset |-> size]
    ELSE [size |-> Smaller(size, start + full) - start, offset |-> start]

(* MUTANT: a second shard of a dimension forgets where the first one began. *)
NarrowLast(i, dim, coordinate, r, c) ==
    [size |-> c.size, offset |-> IF c.size = 0 THEN i.global[dim] ELSE c.offset]

\* An empty shard is anchored at the end of the whole dimension.
Narrow(i, dim, coordinate, r, c) ==
    [size |-> c.size, offset |-> IF c.size = 0 THEN i.global[dim] ELSE r.offset + c.offset]
_local_shape_and_offsets(i, dim, coordinate) ==
    FoldLeft(LAMBDA r, d : IF i.placements[d] # dim THEN r
                           ELSE Narrow(i, dim, coordinate, r, Chunk(r.size, i.mesh[d], coordinate[d])),
             [size |-> i.global[dim], offset |-> 0],
             [d \in 1 .. Len(i.mesh) |-> d])
Offsets(i, coordinate) == [dim \in 1 .. 2 |-> _local_shape_and_offsets(i, dim, coordinate).offset]

\* The ranks of factors are packed one after the other.
RankOffset(factors, f) == FoldLeft(LAMBDA sum, factor : sum + factor.rank, 0, SubSeq(factors, 1, f - 1))

\* _layout_context: the input with the shape of what this rank holds.
WithLayout(i) ==
    [i EXCEPT !.rows = _local_shape_and_offsets(i, 1, i.coordinate).size,
              !.cols = _local_shape_and_offsets(i, 2, i.coordinate).size,
              !.offsets = Offsets(i, i.coordinate),
              !.rank = RankOffset(i.factors, Len(i.factors) + 1)]
\* Equal for replicas of a shard, distinct for distinct shards: the hash is left out.
_localize_rounding_seed(i, coordinate) == Offsets(i, coordinate)

Rows == input.rows
Cols == input.cols
Sharded == input.mesh # <<>>
Matrix == Rows \div input.heads
Factors == input.factors
Sources == input.sources
Dense == Sources # <<>>
-----------------------------------------------------------------------------
(***************************************************************************)
(* Cells.  A host tensor's cell names the factor or the source it is of.   *)
(***************************************************************************)
Cell(buffer, i) == <<buffer, 1, i>>
HostA(f, r, n) == <<"A", f, r * Factors[f].cols + n>>
HostB(f, m, r) == <<"B", f, m * Factors[f].rank + r>>
HostDense(s, m, n) == <<"D", s, m * Sources[s].cols + n>>
Coefficient(f) == IF Factors[f].coefficient = 1 THEN {} ELSE {<<"coefficient", f, 0>>}
Store(to, from) == [to |-> to, from |-> from]
Launch(kernel, grid) == [kernel |-> kernel, grid |-> grid, level |-> 0, count |-> 0, to |-> ""]
Stage(kernel, i) == [Launch(kernel, 1) EXCEPT !.level = i]

\* A caller of the adapter itself (direct) may hand over whole tensors, or
\* this rank's: _local_lora_factors, _local_dense_update.
NarrowedByAdapter(t, dim, i) == IF <<t.rows, t.cols>> = <<Rows, Cols>> THEN i ELSE input.offsets[dim] + i
\* _localize_materialized_weight_factors, _local_dense_view: a dimension of
\* one stays (it is expanded), any other is narrowed to this rank's region.
Local(t, dim, i) ==
    IF input.direct THEN NarrowedByAdapter(t, dim, i)
    ELSE IF (IF dim = 1 THEN t.rows ELSE t.cols) = 1 THEN 0
    ELSE input.offsets[dim] + i

\* The common shape of what is combined; of a shard, its own.
Common(whole, sizes) == IF Sharded \/ \E size \in sizes : size # 1 THEN whole ELSE 1
Sizes(terms, dim) == {IF dim = 1 THEN terms[i].rows ELSE terms[i].cols : i \in DOMAIN terms}
ProductRows == Common(Matrix, Sizes(Factors, 1))
ProductCols == Common(Cols, Sizes(Factors, 2))
UpdateRows == Common(Matrix, Sizes(Factors, 1) \cup Sizes(Sources, 1))
UpdateCols == Common(Cols, Sizes(Factors, 2) \cup Sizes(Sources, 2))
At(size, i) == IF size = 1 THEN 0 ELSE i

TotalRank == input.rank
PackedA(k, n) == Cell("a", k * ProductCols + n)
PackedB(m, k) == Cell("b", m * TotalRank + k)
Slice(f) == {RankOffset(Factors, f) + r : r \in Below(Factors[f].rank)}

\* transfer_ into a slice of the packed buffers
StageA(f) ==
    LET offset == RankOffset(Factors, f) IN
    {Store(PackedA(offset + r, n), {HostA(f, r, Local(Factors[f], 2, n))}) :
       r \in Below(Factors[f].rank), n \in Below(ProductCols)}
StageB(f) ==
    LET offset == RankOffset(Factors, f) IN
    {Store(PackedB(m, offset + r), {HostB(f, Local(Factors[f], 1, m), r)}) :
       r \in Below(Factors[f].rank), m \in Below(ProductRows)}
ScaleA(f) ==
    {Store(PackedA(k, n), {PackedA(k, n)} \cup Coefficient(f)) : k \in Slice(f), n \in Below(ProductCols)}
\* stored_a.mul_(alpha).div_(stored_pre_scale)
PreScaleA(f) ==
    {Store(PackedA(k, n), {PackedA(k, n), Cell("pre_scale", n)} \cup Coefficient(f)) : k \in Slice(f), n \in Below(ProductCols)}

(***************************************************************************)
(* Dense deltas are added up first, then the product of the factors.       *)
(***************************************************************************)
UpdateCell(m, n) == Cell("update", m * UpdateCols + n)
UpdateCells == Below(UpdateRows) \X Below(UpdateCols)
ZeroUpdate == {Store(UpdateCell(e[1], e[2]), {}) : e \in UpdateCells}
AddSource(s) ==
    {Store(UpdateCell(e[1], e[2]),
           {UpdateCell(e[1], e[2]), <<"strength", s, 0>>,
            HostDense(s, Local(Sources[s], 1, e[1]), Local(Sources[s], 2, e[2]))}) :
       e \in UpdateCells}
Product(m, n) ==
    UNION {{PackedB(At(ProductRows, m), k), PackedA(k, At(ProductCols, n))} : k \in Below(TotalRank)}
AddProduct == {Store(UpdateCell(e[1], e[2]), {UpdateCell(e[1], e[2])} \cup Product(e[1], e[2])) : e \in UpdateCells}
PreScaleUpdate ==
    {Store(UpdateCell(e[1], e[2]), {UpdateCell(e[1], e[2]), Cell("pre_scale", e[2])}) : e \in UpdateCells}

(***************************************************************************)
(* The launches that stage an update.                                      *)
(***************************************************************************)
\* _stage_single_or_packed_update: one factor keeps its coefficient for the merge.
Single == ~Dense /\ Len(Factors) = 1 /\ ~input.pre_scaled
Alpha == IF Single THEN Coefficient(1) ELSE {}
Flattened(launches) == FoldLeft(LAMBDA all, l : all \o l, <<>>, launches)
Pack ==
    Flattened([f \in DOMAIN Factors |->
       <<Stage("stage_a", f), Stage("stage_b", f)>>
         \o IF Factors[f].coefficient = 1 THEN <<>> ELSE <<Stage("scale_a", f)>>])
\* stage_lora_factors of int8, when its activations are scaled
PackStored ==
    Flattened([f \in DOMAIN Factors |-> <<Stage("stage_a", f), Stage("pre_scale_a", f), Stage("stage_b", f)>>])
StagedLaunches ==
    IF Dense
    THEN <<Stage("zero_update", 0)>> \o [s \in DOMAIN Sources |-> Stage("add_source", s)]
           \o (IF Factors = <<>> THEN <<>> ELSE Pack \o <<Stage("add_product", 0)>>)
           \o (IF input.pre_scaled THEN <<Stage("pre_scale_update", 0)>> ELSE <<>>)
    ELSE IF Single THEN <<Stage("stage_b", 1), Stage("stage_a", 1)>>
    ELSE IF input.pre_scaled THEN PackStored
    ELSE Pack
Staging == {"stage_a", "stage_b", "scale_a", "pre_scale_a", "zero_update", "add_source", "add_product", "pre_scale_update"}
StagingProgram(launch) ==
    CASE launch.kernel = "stage_a" -> StageA(launch.level)
      [] launch.kernel = "stage_b" -> StageB(launch.level)
      [] launch.kernel = "scale_a" -> ScaleA(launch.level)
      [] launch.kernel = "pre_scale_a" -> PreScaleA(launch.level)
      [] launch.kernel = "zero_update" -> ZeroUpdate
      [] launch.kernel = "add_source" -> AddSource(launch.level)
      [] launch.kernel = "add_product" -> AddProduct
      [] OTHER -> PreScaleUpdate

(***************************************************************************)
(* A plain weight is merged in place by one operation: addmm_, or the      *)
(* update or the product added to every matrix it is broadcast to.         *)
(***************************************************************************)
PlainMerge ==
    {Store(Cell("qdata", m * Cols + n),
           {Cell("qdata", m * Cols + n)}
             \cup IF Dense THEN {UpdateCell(At(UpdateRows, m % Matrix), At(UpdateCols, n))}
                  ELSE Alpha \cup Product(m % Matrix, n)) :
       m \in Below(Rows), n \in Below(Cols)}

\* What validation accepts.
Accepted ==
    LET exact == \A t \in {Factors[f] : f \in DOMAIN Factors} \cup {Sources[s] : s \in DOMAIN Sources} :
                   <<t.rows, t.cols>> = input.global
        fits(t) == t.rows \in {1, input.global[1] \div input.heads} /\ t.cols \in {1, input.global[2]}
    IN /\ \A f \in DOMAIN Factors : fits(Factors[f])
       /\ \A s \in DOMAIN Sources : fits(Sources[s])
       /\ (input.format # "plain" \/ Sharded) => exact

(***************************************************************************)
(* What a rank holds, by the meaning of its placements: each one cuts the  *)
(* indices that are left into chunks of equal size and takes one of them.  *)
(***************************************************************************)
Held(i, dim, coordinate) ==
    FoldLeft(LAMBDA held, d :
               IF i.placements[d] # dim THEN held
               ELSE LET size == CDiv(Len(held), i.mesh[d]) IN
                    SubSeq(held, size * coordinate[d] + 1, Smaller(Len(held), size * (coordinate[d] + 1))),
             [k \in 1 .. i.global[dim] |-> k - 1],
             [d \in 1 .. Len(i.mesh) |-> d])
Coordinates(i) == {c \in [DOMAIN i.mesh -> Below(8)] : \A d \in DOMAIN i.mesh : c[d] < i.mesh[d]}
Shard(i, c) == ToSet(Held(i, 1, c)) \X ToSet(Held(i, 2, c))
=============================================================================
