---------------------------- MODULE MergeKernels ----------------------------
(***************************************************************************)
(* The kernels that merge an update into a quantized weight and quantize   *)
(* it again: _triton_float8_lora.py, _triton_static_float8_lora.py,        *)
(* _triton_int8_lora.py, _triton_bnb8_lora.py, _triton_quanto_lora.py,     *)
(* _triton_nvfp4_lora.py, _triton_mx_lora.py and _triton_bnb4_lora.py.     *)
(* The machine that runs launches also runs the staging of UpdateStaging   *)
(* before them and the copies of CollectiveBuffers.                        *)
(*                                                                         *)
(* A merge is a sequence of launches; a launch is a grid of programs that  *)
(* run in any order and store into shared buffers.  What a store computes  *)
(* is left out, where it reads and writes is not: a cell holds the cells   *)
(* of the inputs its value is made of.  The block sizes are constants, so  *)
(* that small weights have full tiles, cut tiles and several reductions.   *)
(***************************************************************************)
EXTENDS UpdateStaging, Codebooks, CollectiveBuffers

CONSTANTS
    BlockM, BlockN, BlockK,     \* tiles of rows, of columns and of ranks
    QuantBlock,                 \* 16, 32 or 64 values share a scale (nvfp4, mx, bnb4)
    FlatBlock,                  \* elements a quantizing program takes (1024)
    StatsBlock,                 \* elements a statistics program takes (8192)
    ReductionBlock,             \* values a reduction takes (8192)
    NestedBlock,                \* scales that share a nested scale (256)
    Lanes, LaneGroups, ScaleCols,   \* the swizzle of scales (32, 4, 4)
    MaxGroup,                   \* the largest group of a float8 weight (256)
    Probes

ASSUME BlocksAssumption ==
    /\ {BlockM, BlockN, BlockK, QuantBlock, FlatBlock, StatsBlock, ReductionBlock,
        NestedBlock, Lanes, LaneGroups, ScaleCols, MaxGroup} \subseteq Nat \ {0}
    /\ QuantBlock % 2 = 0 /\ ReductionBlock > 1

(***************************************************************************)
(* An input is a weight of format, whose scales are laid out by layout     *)
(* ("tensor", "row", "column", "group" of group values, "block"; "none" if *)
(* plain), swizzled or not, with a second level of scales or not (nested), *)
(* and the update of UpdateStaging.  A probe is a value to be encoded with *)
(* one of the codebooks.                                                   *)
(***************************************************************************)
VARIABLES
    launches,   \* the launch that runs and those to come
    pending,    \* its programs that have not run
    done,       \* what its programs that ran loaded and stored
    mem
vars == <<input, launches, pending, done, mem>>

Weights == input.format # "probe" /\ ~Collective
NextPowerOf2(n) == CHOOSE p \in n .. 2 * n - 1 : \E k \in 0 .. n : 2 ^ k = p

NumM == CDiv(Rows, BlockM)
NumN == CDiv(Cols, BlockN)
NumBlocks == Cols \div QuantBlock
Offset(m, n) == m * Cols + n

(***************************************************************************)
(* Cells.  Two four-bit values share a byte and are stored together.       *)
(***************************************************************************)
Partial(level, i) == <<"partial", level, i>>
Packed == input.format \in {"nvfp4", "mx4", "bnb4"}
\* Even columns are the low half of a byte, in bnb4 the high one.
Half(n) == IF input.format = "bnb4" THEN 1 - (n % 2) ELSE n % 2
Code(buffer, m, n) ==
    IF Packed THEN Cell(buffer, 2 * (m * (Cols \div 2) + n \div 2) + Half(n)) ELSE Cell(buffer, Offset(m, n))
Word(cell) == IF Packed /\ cell[1] \in {"qdata", "output"} THEN <<cell[1], 1, cell[3] \div 2>> ELSE cell

\* The rank loop: blocks of BlockK, masked to the rank.
Ranks == {k \in Below(CDiv(TotalRank, BlockK) * BlockK) : k < TotalRank}
Update(m, n) ==
    IF Dense THEN {Cell("update", Offset(m, n))}
    ELSE Alpha \cup {Cell("b", m * TotalRank + k) : k \in Ranks} \cup {Cell("a", k * Cols + n) : k \in Ranks}
Merged(m, n, scale) == {Code("qdata", m, n), Cell("scale", scale)} \cup Update(m, n)

TileRows(i) == {m \in i * BlockM .. (i + 1) * BlockM - 1 : m < Rows}
TileCols(j) == {n \in j * BlockN .. (j + 1) * BlockN - 1 : n < Cols}
TileM(pid) == pid \div NumN
TileN(pid) == pid % NumN
-----------------------------------------------------------------------------
(***************************************************************************)
(* Scaled float8, per tensor, row or group.                                *)
(***************************************************************************)
Float8Scale(m, n) ==
    CASE input.layout = "row" -> m
      [] input.layout = "group" -> m * (Cols \div input.group) + n \div input.group
      [] OTHER -> 0
Float8Merged(m, n) == Merged(m, n, Float8Scale(m, n))
Float8Update(pid) ==
    LET rows == TileRows(TileM(pid)) cols == TileCols(TileN(pid)) IN
    {Store(Cell("dense", Offset(m, n)), Float8Merged(m, n)) : m \in rows, n \in cols}
      \cup IF input.layout = "row"
           THEN {Store(Partial(1, m * NumN + TileN(pid)), UNION {Float8Merged(m, n) : n \in cols}) : m \in rows}
           ELSE {Store(Partial(1, pid), UNION {Float8Merged(m, n) : m \in rows, n \in cols})}

\* One tile is one group, padded to a power of two and masked.
GroupCols(g) == {g * input.group + k : k \in {k \in Below(NextPowerOf2(input.group)) : k < input.group}}
Float8Group(pid) ==
    LET groups == Cols \div input.group
        g == pid % groups
        merged == [m \in TileRows(pid \div groups) |-> UNION {Float8Merged(m, n) : n \in GroupCols(g)}]
    IN {Store(Cell("output", Offset(m, n)), merged[m]) : m \in DOMAIN merged, n \in GroupCols(g)}
         \cup {Store(Cell("output_scale", m * groups + g), merged[m]) : m \in DOMAIN merged}

\* _reduce_max_kernel and its like: one value of each block.
Reduced(level, count, pid) ==
    {Partial(level, i) : i \in {i \in pid * ReductionBlock .. (pid + 1) * ReductionBlock - 1 : i < count}}
ReduceMax(level, count, pid) == {Store(Partial(level + 1, pid), Reduced(level, count, pid))}
\* The last reduction takes the whole of the last level.
ReduceTensor(level, count, to) == {Store(Cell(to, 0), Reduced(level, count, 0))}
ReduceRow(row) ==
    {Store(Cell("output_scale", row),
           {Partial(1, row * NumN + t) : t \in {t \in Below(NextPowerOf2(NumN)) : t < NumN}})}

Flat(pid) == {o \in pid * FlatBlock .. (pid + 1) * FlatBlock - 1 : o < Rows * Cols}
Float8Quantize(pid) ==
    {Store(Cell("output", o), {Cell("dense", o), Cell("output_scale", IF input.layout = "row" THEN o \div Cols ELSE 0)}) :
       o \in Flat(pid)}

(***************************************************************************)
(* Affine int8: scales and zero points of blocks of consecutive values.    *)
(***************************************************************************)
BlockNumel == CASE input.layout = "tensor" -> Rows * Cols [] input.layout = "row" -> Cols [] OTHER -> input.group
StatsSize == LET p == NextPowerOf2(BlockNumel) IN IF p < StatsBlock THEN p ELSE StatsBlock
Chunks == CDiv(BlockNumel, StatsSize)
Int8Merged(m, n) ==
    LET q == Offset(m, n) \div BlockNumel IN Merged(m, n, q) \cup {Cell("zero", q)}
Int8Update(pid) ==
    {Store(Cell("dense", Offset(m, n)), Int8Merged(m, n)) : m \in TileRows(TileM(pid)), n \in TileCols(TileN(pid))}
\* A chunk ends with its block, not with its size.
BlockStats(pid) ==
    LET start == (pid % Chunks) * StatsSize
        inside == {k \in start .. start + StatsSize - 1 : k < BlockNumel}
    IN {Store(Partial(1, pid), {Cell("dense", (pid \div Chunks) * BlockNumel + k) : k \in inside})}
ChooseQparams(q) ==
    LET from == {Partial(1, q * Chunks + i) : i \in {i \in Below(NextPowerOf2(Chunks)) : i < Chunks}}
    IN {Store(Cell("output_scale", q), from), Store(Cell("output_zero", q), from)}
Int8Quantize(pid) ==
    {Store(Cell("output", o), {Cell("dense", o), Cell("output_scale", o \div BlockNumel), Cell("output_zero", o \div BlockNumel)}) :
       o \in Flat(pid)}

(***************************************************************************)
(* bitsandbytes int8, one scale a row, and Quanto, a scale a tensor, row   *)
(* or column; Quanto's scales are reduced by the library.                  *)
(***************************************************************************)
Bnb8Update(pid) ==
    LET rows == TileRows(TileM(pid)) cols == TileCols(TileN(pid)) IN
    {Store(Cell("dense", Offset(m, n)), Merged(m, n, m)) : m \in rows, n \in cols}
      \cup {Store(Partial(1, m * NumN + TileN(pid)), UNION {Merged(m, n, m) : n \in cols}) : m \in rows}
Bnb8Quantize(pid) ==
    {Store(Cell("output", Offset(m, n)), {Cell("dense", Offset(m, n)), Cell("output_scale", m)}) :
       m \in TileRows(TileM(pid)), n \in TileCols(TileN(pid))}

QuantoScale(m, n) == CASE input.layout = "row" -> m [] input.layout = "column" -> n [] OTHER -> 0
QuantoUpdate(pid) ==
    {Store(Cell("dense", Offset(m, n)), Merged(m, n, QuantoScale(m, n))) :
       m \in TileRows(TileM(pid)), n \in TileCols(TileN(pid))}
AbsmaxScale ==
    {Store(Cell("output_scale", s),
           {Cell("dense", Offset(m, n)) : m \in {m \in Below(Rows) : input.layout # "row" \/ m = s},
                                          n \in {n \in Below(Cols) : input.layout # "column" \/ n = s}}) :
       s \in CASE input.layout = "row" -> Below(Rows) [] input.layout = "column" -> Below(Cols) [] OTHER -> {0}}
QuantizeQbytes(pid) ==
    {Store(Cell("output", o), {Cell("dense", o), Cell("output_scale", QuantoScale(o \div Cols, o % Cols))}) : o \in Flat(pid)}

(***************************************************************************)
(* nvfp4 and mx: a scale a block of a row, in plain or in swizzled order.  *)
(***************************************************************************)
(* MUTANT: the blocks of scale columns are counted without the cut one. *)
ScaleOffsetFloor(row, block) ==
    IF input.swizzled
    THEN LET inside == row % (Lanes * LaneGroups) IN
         ((row \div (Lanes * LaneGroups)) * (NumBlocks \div ScaleCols) + block \div ScaleCols) * (Lanes * LaneGroups * ScaleCols)
           + (inside % Lanes) * (LaneGroups * ScaleCols) + (inside \div Lanes) * ScaleCols + (block % ScaleCols)
    ELSE row * NumBlocks + block

ScaleOffset(row, block) ==
    IF input.swizzled
    THEN LET inside == row % (Lanes * LaneGroups) IN
         ((row \div (Lanes * LaneGroups)) * CDiv(NumBlocks, ScaleCols) + block \div ScaleCols) * (Lanes * LaneGroups * ScaleCols)
           + (inside % Lanes) * (LaneGroups * ScaleCols) + (inside \div Lanes) * ScaleCols + (block % ScaleCols)
    ELSE row * NumBlocks + block
BlockCols(j) == j * QuantBlock .. (j + 1) * QuantBlock - 1
BlockMerged(m, j) == UNION {Merged(m, n, ScaleOffset(m, j)) : n \in BlockCols(j)}
BlockM0(pid) == TileRows(pid \div NumBlocks)
BlockN0(pid) == pid % NumBlocks

Global == IF input.nested THEN {Cell("global", 0)} ELSE {}
NewGlobal == IF input.nested THEN {Cell("output_global", 0)} ELSE {}
MergedAmax(pid) == {Store(Partial(1, pid), Global \cup UNION {BlockMerged(m, BlockN0(pid)) : m \in BlockM0(pid)})}
Nvfp4Quantize(pid) ==
    LET from(m) == BlockMerged(m, BlockN0(pid)) \cup Global \cup NewGlobal IN
    {Store(Cell("output_scale", ScaleOffset(m, BlockN0(pid))), from(m)) : m \in BlockM0(pid)}
      \cup {Store(Code("output", m, n), from(m)) : m \in BlockM0(pid), n \in BlockCols(BlockN0(pid))}

\* In place: the tile and its scales are loaded before they are stored.
MergeMx(pid) ==
    {Store(Cell("scale", ScaleOffset(m, BlockN0(pid))), BlockMerged(m, BlockN0(pid))) : m \in BlockM0(pid)}
      \cup {Store(Code("qdata", m, n), BlockMerged(m, BlockN0(pid))) : m \in BlockM0(pid), n \in BlockCols(BlockN0(pid))}

(***************************************************************************)
(* bitsandbytes four-bit: the scales may be quantized themselves, around   *)
(* their mean and in blocks.                                               *)
(***************************************************************************)
Bnb4Scale(m, j) == m * NumBlocks + j
Bnb4Merged(m, j) ==
    (IF input.nested THEN {Cell("nested", Bnb4Scale(m, j) \div NestedBlock), Cell("offset", 0)} ELSE {})
      \cup UNION {Merged(m, n, Bnb4Scale(m, j)) : n \in BlockCols(j)}
RawScale(i) == IF input.nested THEN Partial(1, i) ELSE Cell("output_scale", i)
Bnb4Merge(pid) ==
    {Store(RawScale(Bnb4Scale(m, BlockN0(pid))), Bnb4Merged(m, BlockN0(pid))) : m \in BlockM0(pid)}
      \cup {Store(Code("output", m, n), Bnb4Merged(m, BlockN0(pid))) : m \in BlockM0(pid), n \in BlockCols(BlockN0(pid))}
NestedScales(block) ==
    LET indices == {i \in block * NestedBlock .. (block + 1) * NestedBlock - 1 : i < Rows * NumBlocks}
        from == {Partial(1, i) : i \in indices} \cup {Cell("output_offset", 0)}
    IN {Store(Cell("output_scale", i), from) : i \in indices} \cup {Store(Cell("output_nested", block), from)}
-----------------------------------------------------------------------------
(***************************************************************************)
(* The launches of each format, with their grids.                          *)
(***************************************************************************)
Tiles == NumM * NumN
FlatGrid == CDiv(Rows * Cols, FlatBlock)
BlockGrid == NumM * NumBlocks

\* while num_values > _REDUCTION_BLOCK
Levels[count \in Nat] ==
    IF count <= ReductionBlock THEN <<count>> ELSE <<count>> \o Levels[CDiv(count, ReductionBlock)]
Reductions(count, to) ==
    LET counts == Levels[count] last == Len(counts) IN
    [l \in 1 .. last |->
       IF l < last THEN [Launch("reduce_max", counts[l + 1]) EXCEPT !.level = l, !.count = counts[l]]
       ELSE [Launch("reduce_tensor", 1) EXCEPT !.level = l, !.count = counts[l], !.to = to]]

Float8Launches ==
    IF input.layout = "group" THEN <<Launch("float8_group", NumM * (Cols \div input.group))>>
    ELSE <<Launch("float8_update", Tiles)>>
           \o (IF input.layout = "row" THEN <<Launch("reduce_row", Rows)>> ELSE Reductions(Tiles, "output_scale"))
           \o <<Launch("float8_quantize", FlatGrid)>>
StaticFloat8Launches ==
    <<Launch("float8_update", Tiles)>> \o Reductions(Tiles, "output_scale") \o <<Launch("float8_quantize", FlatGrid)>>
NumQparams == (Rows * Cols) \div BlockNumel
Int8Launches ==
    <<Launch("int8_update", Tiles), Launch("block_stats", NumQparams * Chunks),
      Launch("choose_qparams", NumQparams), Launch("int8_quantize", FlatGrid)>>
Bnb8Launches == <<Launch("bnb8_update", Tiles), Launch("reduce_row", Rows), Launch("bnb8_quantize", Tiles)>>
QuantoLaunches == <<Launch("quanto_update", Tiles), Launch("absmax", 1), Launch("quantize_qbytes", FlatGrid)>>
Nvfp4Launches ==
    (IF input.nested THEN <<Launch("amax", BlockGrid)>> \o Reductions(BlockGrid, "output_global") ELSE <<>>)
      \o <<Launch("nvfp4_quantize", BlockGrid)>>
MxLaunches == <<Launch("mx", BlockGrid)>>
Bnb4Launches ==
    <<Launch("bnb4", BlockGrid)>>
      \o (IF input.nested
          THEN Reductions(Rows * NumBlocks, "output_offset")
                 \o <<Launch("nested_scales", CDiv(Rows * NumBlocks, NestedBlock))>>
          ELSE <<>>)
MergeLaunches ==
    CASE input.format = "plain" -> <<Launch("plain", 1)>>
      [] input.format = "float8" -> Float8Launches
      [] input.format = "static_float8" -> StaticFloat8Launches
      [] input.format = "int8" -> Int8Launches
      [] input.format = "bnb8" -> Bnb8Launches
      [] input.format = "quanto" -> QuantoLaunches
      [] input.format = "nvfp4" -> Nvfp4Launches
      [] input.format \in {"mx4", "mx8"} -> MxLaunches
      [] OTHER -> Bnb4Launches
Launches == StagedLaunches \o MergeLaunches

Program(launch, pid) ==
    CASE launch.kernel = "collective" -> CollectiveProgram(launch, pid)
      [] launch.kernel \in Staging -> StagingProgram(launch)
      [] launch.kernel = "plain" -> PlainMerge
      [] launch.kernel = "float8_update" -> Float8Update(pid)
      [] launch.kernel = "float8_group" -> Float8Group(pid)
      [] launch.kernel = "float8_quantize" -> Float8Quantize(pid)
      [] launch.kernel = "reduce_max" -> ReduceMax(launch.level, launch.count, pid)
      [] launch.kernel = "reduce_tensor" -> ReduceTensor(launch.level, launch.count, launch.to)
      [] launch.kernel = "reduce_row" -> ReduceRow(pid)
      [] launch.kernel = "int8_update" -> Int8Update(pid)
      [] launch.kernel = "block_stats" -> BlockStats(pid)
      [] launch.kernel = "choose_qparams" -> ChooseQparams(pid)
      [] launch.kernel = "int8_quantize" -> Int8Quantize(pid)
      [] launch.kernel = "bnb8_update" -> Bnb8Update(pid)
      [] launch.kernel = "bnb8_quantize" -> Bnb8Quantize(pid)
      [] launch.kernel = "quanto_update" -> QuantoUpdate(pid)
      [] launch.kernel = "absmax" -> AbsmaxScale
      [] launch.kernel = "quantize_qbytes" -> QuantizeQbytes(pid)
      [] launch.kernel = "amax" -> MergedAmax(pid)
      [] launch.kernel = "nvfp4_quantize" -> Nvfp4Quantize(pid)
      [] launch.kernel = "mx" -> MergeMx(pid)
      [] launch.kernel = "bnb4" -> Bnb4Merge(pid)
      [] OTHER -> NestedScales(pid)
-----------------------------------------------------------------------------
(***************************************************************************)
(* What is accepted, and the buffers that are there.                       *)
(***************************************************************************)
Valid ==
    /\ Accepted
    /\ input.format # "plain" => Rows > 0 /\ Cols > 0 /\ (Dense \/ TotalRank > 0)
    /\ (input.format = "float8" /\ input.layout = "group")
         => input.group < Cols /\ Cols % input.group = 0 /\ input.group <= MaxGroup
    /\ (input.format = "int8" /\ input.layout = "group") => input.group <= Cols /\ Cols % input.group = 0
    /\ input.layout = "block" => Cols % QuantBlock = 0

NumScales ==
    CASE input.layout = "none" -> 0
      [] input.layout = "tensor" -> 1
      [] input.layout = "row" -> Rows
      [] input.layout = "column" -> Cols
      [] input.layout = "group" -> Rows * (Cols \div input.group)
      [] input.swizzled -> CDiv(Rows, Lanes * LaneGroups) * CDiv(Cols, QuantBlock * ScaleCols) * (Lanes * LaneGroups * ScaleCols)
      [] OTHER -> Rows * NumBlocks
NumNested == CDiv(NumScales, NestedBlock)
Buffer(name, count) == {Cell(name, i) : i \in Below(count)}
InputCells ==
    Buffer("qdata", Rows * Cols) \cup Buffer("scale", NumScales)
      \cup UNION {{<<"A", f, i>> : i \in Below(Factors[f].rank * Factors[f].cols)}
                    \cup {<<"B", f, i>> : i \in Below(Factors[f].rows * Factors[f].rank)}
                    \cup {<<"coefficient", f, 0>>} : f \in DOMAIN Factors}
      \cup UNION {{<<"D", s, i>> : i \in Below(Sources[s].rows * Sources[s].cols)}
                    \cup {<<"strength", s, 0>>} : s \in DOMAIN Sources}
      \cup (IF input.pre_scaled THEN Buffer("pre_scale", Cols) ELSE {})
      \cup (IF input.format = "int8" THEN Buffer("zero", NumScales) ELSE {})
      \cup (IF input.format = "nvfp4" /\ input.nested THEN {Cell("global", 0)} ELSE {})
      \cup (IF input.format = "bnb4" /\ input.nested THEN Buffer("nested", NumNested) \cup {Cell("offset", 0)} ELSE {})
InPlace == input.format \in {"mx4", "mx8", "plain"}
OutputCells ==
    (IF InPlace THEN {} ELSE Buffer("output", Rows * Cols) \cup Buffer("output_scale", NumScales))
      \cup (IF input.format = "int8" THEN Buffer("output_zero", NumScales) ELSE {})
      \cup (IF input.format = "nvfp4" /\ input.nested THEN {Cell("output_global", 0)} ELSE {})
      \cup (IF input.format = "bnb4" /\ input.nested THEN Buffer("output_nested", NumNested) \cup {Cell("output_offset", 0)} ELSE {})
\* What the first kernel leaves for the next ones: the dense weight, extrema.
NumPartials ==
    CASE input.format \in {"float8", "bnb8"} /\ input.layout = "row" -> Rows * NumN
      [] input.format \in {"float8", "static_float8"} /\ input.layout = "tensor" -> Tiles
      [] input.format = "int8" -> NumQparams * Chunks
      [] input.format = "nvfp4" /\ input.nested -> BlockGrid
      [] input.format = "bnb4" /\ input.nested -> NumScales
      [] OTHER -> 0
Scratch ==
    (IF Dense THEN Buffer("update", UpdateRows * UpdateCols) ELSE {})
      \cup Buffer("b", ProductRows * TotalRank) \cup Buffer("a", TotalRank * ProductCols)
      \cup (IF input.layout \in {"none", "block", "group"} /\ input.format # "int8" THEN {} ELSE Buffer("dense", Rows * Cols))
      \cup {Partial(1, i) : i \in Below(NumPartials)}
      \cup UNION {{Partial(l, i) : i \in Below(Levels[NumPartials][l])} : l \in 2 .. Len(Levels[NumPartials])}

Garbage == <<"garbage", 1, 0>>
\* project_host: a shard that is a view of the whole host tensor.
Projected(o) ==
    <<"full", 1, (input.offsets[1] + o \div Cols) * input.global[2] + input.offsets[2] + (o % Cols)>>
\* torch.empty, but nvfp4 starts from scales of zero.
InitialMem ==
    [c \in InputCells \cup OutputCells \cup Scratch |->
       CASE c[1] = "qdata" /\ input.projected -> {Projected(c[3])}
         [] c \in InputCells -> {c}
         [] c[1] = "output_scale" /\ input.format = "nvfp4" -> {}
         [] OTHER -> {Garbage}]

Programs == IF launches = <<>> THEN {} ELSE Below(Head(launches).grid)

Init ==
    /\ input \in {WithLayout(i) : i \in Inputs} \cup Probes \cup CollectiveInputs
    /\ Weights => Valid
    /\ launches = IF Weights THEN Launches ELSE IF Collective THEN CollectiveLaunches ELSE <<>>
    /\ pending = Programs
    /\ done = {}
    /\ mem = IF Weights THEN InitialMem
             ELSE IF Collective THEN [c \in CollectiveCells |-> IF c[1] = "host" THEN {Garbage} ELSE {c}]
             ELSE <<>>

\* A program loads all it loads before it stores.
Run(pid) ==
    LET stores == Program(Head(launches), pid)
        at == {s.to : s \in stores}
        value(c) == UNION {UNION {mem[d] : d \in s.from \cap DOMAIN mem} : s \in {s \in stores : s.to = c}}
    IN /\ pending' = pending \ {pid}
       /\ done' = done \cup {[pid |-> pid, stores |-> stores]}
       /\ mem' = [c \in DOMAIN mem |-> IF c \in at THEN value(c) ELSE mem[c]]
       /\ UNCHANGED <<input, launches>>

\* Launches of a stream run one after the other.
NextLaunch ==
    /\ pending = {} /\ launches # <<>>
    /\ launches' = Tail(launches)
    /\ pending' = IF launches' = <<>> THEN {} ELSE Below(Head(launches').grid)
    /\ done' = {}
    /\ UNCHANGED <<input, mem>>

Next == NextLaunch \/ \E pid \in pending : Run(pid)

Spec == Init /\ [][Next]_vars
-----------------------------------------------------------------------------
(***************************************************************************)
(* Properties.                                                             *)
(***************************************************************************)
Elements == Below(Rows) \X Below(Cols)

\* Programs of a launch run in any order and at once: each stays inside the
\* buffers, stores a word once, and stores no word that another one loads
\* or stores, the bytes of two four-bit values and the padding of a
\* swizzled scale included.
Confined ==
    input.format # "probe" =>
      \A p \in done :
        LET stored == {Word(s.to) : s \in p.stores} IN
        /\ \A s \in p.stores : s.to \in DOMAIN mem /\ s.from \subseteq DOMAIN mem
        /\ \A s, t \in p.stores : s.to = t.to => s = t
        /\ \A q \in done \ {p} :
             \A s \in q.stores : Word(s.to) \notin stored /\ stored \cap {Word(c) : c \in s.from} = {}

(***************************************************************************)
(* The format, without the kernels: which elements share a scale, where    *)
(* that scale is, and what the merged value of an element is made of.      *)
(***************************************************************************)
SameScale(e) ==
    {f \in Elements :
       CASE input.layout = "none" -> f = e
         [] input.layout = "tensor" -> TRUE
         [] input.layout = "row" -> f[1] = e[1]
         [] input.layout = "column" -> f[2] = e[2]
         [] input.layout = "group" -> f[1] = e[1] /\ f[2] \div input.group = e[2] \div input.group
         [] OTHER -> f[1] = e[1] /\ f[2] \div QuantBlock = e[2] \div QuantBlock}
\* The order of swizzled scales: tiles of 128 x 4, lane by lane of 32 rows.
SwizzleKey(row, block) ==
    LET h == Lanes * LaneGroups IN
    <<row \div h, block \div ScaleCols, row % Lanes, (row % h) \div Lanes, block % ScaleCols>>
Precedes(k, l) == \E i \in 1 .. 5 : k[i] < l[i] /\ \A j \in 1 .. i - 1 : k[j] = l[j]
PaddedRows == CDiv(Rows, Lanes * LaneGroups) * Lanes * LaneGroups
PaddedBlocks == CDiv(NumBlocks, ScaleCols) * ScaleCols
ScaleAt(e) ==
    CASE input.layout \in {"none", "tensor"} -> 0
      [] input.layout = "row" -> e[1]
      [] input.layout = "column" -> e[2]
      [] input.layout = "group" -> e[1] * (Cols \div input.group) + e[2] \div input.group
      [] input.swizzled ->
           LET key == SwizzleKey(e[1], e[2] \div QuantBlock) IN
           Cardinality({p \in Below(PaddedRows) \X Below(PaddedBlocks) : Precedes(SwizzleKey(p[1], p[2]), key)})
      [] OTHER -> e[1] * NumBlocks + e[2] \div QuantBlock
\* The index in the whole weight of this rank's element, and what an update
\* that is broadcast to the whole weight has there.
Index(e) == <<Held(input, 1, input.coordinate)[e[1] + 1], Held(input, 2, input.coordinate)[e[2] + 1]>>
Row(t, g) == IF t.rows = 1 THEN 0 ELSE g[1] % t.rows
Col(t, g) == IF t.cols = 1 THEN 0 ELSE g[2]
Updates(e) ==
    LET g == Index(e) IN
    UNION {{HostB(f, Row(Factors[f], g), r) : r \in Below(Factors[f].rank)}
             \cup {HostA(f, r, Col(Factors[f], g)) : r \in Below(Factors[f].rank)}
             \cup Coefficient(f) : f \in DOMAIN Factors}
      \cup UNION {{HostDense(s, Row(Sources[s], g), Col(Sources[s], g)), <<"strength", s, 0>>} : s \in DOMAIN Sources}
      \cup (IF input.pre_scaled THEN {Cell("pre_scale", e[2])} ELSE {})
MadeOf(e) ==
    Updates(e)
      \cup (IF input.projected THEN {<<"full", 1, Index(e)[1] * input.global[2] + Index(e)[2]>>} ELSE {Code("qdata", e[1], e[2])})
      \cup (IF input.layout = "none" THEN {} ELSE {Cell("scale", ScaleAt(e))})
      \cup (IF input.format = "int8" THEN {Cell("zero", ScaleAt(e))} ELSE {})
      \cup (IF input.format = "nvfp4" /\ input.nested THEN {Cell("global", 0)} ELSE {})
      \cup (IF input.format = "bnb4" /\ input.nested THEN {Cell("nested", ScaleAt(e) \div NestedBlock), Cell("offset", 0)} ELSE {})

\* When the last launch is over every code, scale and zero point is made of
\* exactly the merged values that share its scale (of all of them, where a
\* second level of scales spans the weight): none is missing in a cut tile or
\* a later reduction, none comes from a neighbour or from memory nobody
\* wrote, and the padding of swizzled scales is as it was.
Requantized ==
    (Weights /\ launches = <<>>) =>
      LET scale == IF InPlace THEN "scale" ELSE "output_scale"
          sources == [e \in Elements |-> MadeOf(e)]
          all == UNION {sources[e] : e \in Elements}
          shared == [e \in Elements |-> UNION {sources[f] : f \in SameScale(e)}]
          scales == [e \in Elements |-> ScaleAt(e)]
      IN /\ \A e \in Elements :
              /\ mem[Code(IF InPlace THEN "qdata" ELSE "output", e[1], e[2])]
                   = IF input.nested /\ input.format = "nvfp4" THEN all ELSE shared[e]
              /\ input.layout # "none" => mem[Cell(scale, scales[e])] = IF input.nested THEN all ELSE shared[e]
              /\ input.format = "int8" => mem[Cell("output_zero", scales[e])] = shared[e]
         /\ \A i \in Below(NumScales) \ {scales[e] : e \in Elements} :
              mem[Cell(scale, i)] = IF InPlace THEN {Cell("scale", i)} ELSE {}
         /\ \A c \in OutputCells : c[1] \in {"output_global", "output_offset", "output_nested"} => mem[c] = all

\* Whatever the order of a grid's programs, they store only what is theirs and
\* what they store is made of what it should be.
MergesExactly == Confined /\ Requantized

\* The ranks of a mesh hold every element of the weight, in regions that are
\* what their placements mean; two ranks hold the same region, and then round
\* alike, or regions that are disjoint, and then draw from different seeds.
ShardsTile ==
    Weights =>
      LET shard == [c \in Coordinates(input) |-> Shard(input, c)] IN
      /\ UNION {shard[c] : c \in DOMAIN shard} = Below(input.global[1]) \X Below(input.global[2])
      /\ \A c \in DOMAIN shard, dim \in 1 .. 2 :
           LET r == _local_shape_and_offsets(input, dim, c) IN
           ToSet(Held(input, dim, c)) = r.offset .. r.offset + r.size - 1
      /\ \A c, d \in DOMAIN shard :
           (shard[c] # {} /\ shard[d] # {}) =>
             /\ shard[c] = shard[d] \/ shard[c] \cap shard[d] = {}
             /\ _localize_rounding_seed(input, c) = _localize_rounding_seed(input, d) <=> shard[c] = shard[d]

\* When the copies of a collective that was accepted are over, every output
\* has what its kind gives it, of the bytes as they were before the call,
\* whatever aliases its tensors are and however copies overlap; all other
\* memory, and all of it when the call is refused, is as it was.
CollectivesDeliver ==
    (Collective /\ launches = <<>>) =>
      LET meant == IF CollectiveAccepted THEN Meaning ELSE {}
          at(m, k) == Cell("mem", m.output.start + k)
      IN /\ \A m \in meant : \A k \in DOMAIN m.of : mem[at(m, k)] = m.of[k]
         /\ \A c \in {Cell("mem", i) : i \in Below(input.space)} \ UNION {{at(m, k) : k \in DOMAIN m.of} : m \in meant} :
              mem[c] = {c}

(***************************************************************************)
(* A probe is a value (with its sign bit: -0.0 is negative) and the book   *)
(* it is encoded with: the codes that may come out, and what they mean.    *)
(***************************************************************************)
Decoded(code) ==
    CASE input.kind = "e2m1" -> _decode_fp4(code)
      [] input.kind = "fp4" -> DecodeFP4(code)
      [] OTHER -> input.book[code + 1]
AllCodes == 0 .. (IF input.kind = "sorted" THEN Len(input.book) - 1 ELSE 15)
NearestCode ==
    CASE input.kind = "e2m1" -> _encode_fp4(input.value, input.negative)
      [] input.kind = "fp4" -> _nearest_fp4_code(input.value)
      [] OTHER -> _nearest_sorted_code(input.book, input.steps, input.value)
StochasticCodes ==
    CASE input.kind = "e2m1" -> _stochastic_e2m1_code(input.value, input.negative)
      [] input.kind = "fp4" -> _stochastic_fp4_code(input.value)
      [] OTHER -> _stochastic_sorted_code(input.book, input.steps, input.value)

\* The code chosen for a value is one whose meaning is nearest to it, of two
\* as near the even one in E2M1; a stochastic draw chooses between the
\* neighbours on both sides of the value and never another code, and leaves
\* a value that has a code of its own alone.
CodesNearest ==
    input.format = "probe" =>
      LET v == input.value
          far(c) == Abs(Decoded(c) - v)
          below == {c \in AllCodes : Decoded(c) < v}
          above == {c \in AllCodes : Decoded(c) > v}
      IN /\ \A c \in AllCodes : far(NearestCode) <= far(c)
         /\ (input.kind = "e2m1" /\ NearestCode % 2 = 1)
              => \A c \in AllCodes : Decoded(c) # Decoded(NearestCode) => far(NearestCode) < far(c)
         /\ IF (\E c \in AllCodes : Decoded(c) = v) \/ below = {} \/ above = {}
            THEN StochasticCodes = {NearestCode}
            ELSE {Decoded(c) : c \in StochasticCodes} =
                   {CHOOSE x \in {Decoded(c) : c \in below} : \A c \in below : Decoded(c) <= x,
                    CHOOSE x \in {Decoded(c) : c \in above} : \A c \in above : Decoded(c) >= x}
=============================================================================
