--------------------------- MODULE CandidateKernel ---------------------------
(***************************************************************************)
(* The kernel a candidate is bound to (lib/Perf/CandidateBinding.cpp): the *)
(* tile decisions and the loop nest that is emitted for them.  A kernel is *)
(* its signature, the extents and steps of its loops and the operations of *)
(* the three places of the nest: before, in and after the K loop.          *)
(***************************************************************************)
EXTENDS SearchSpace

CONSTANT MaxExtent     \* the largest extent an int64 holds

\* largestDivisorAtMost
LargestDivisorAtMost(extent, bound) ==
  IF bound >= extent THEN extent
  ELSE CHOOSE d \in 1 .. extent :
         /\ d <= GreatestOf(bound, 1) /\ extent % d = 0
         /\ \A e \in d + 1 .. GreatestOf(bound, 1) : extent % e # 0

\* roundUpExtent: <<>> on overflow.
RoundUpExtent(logical, tile) ==
  LET blocks == logical \div tile + (IF logical % tile # 0 THEN 1 ELSE 0)
  IN  IF blocks > MaxExtent \div tile THEN <<>> ELSE <<blocks * tile>>

\* MUTANT of ResolveTile: a tile that does not divide its extent is let through.
ResolveTileUneven(extent, requested, padTails) ==
  IF requested > 0 THEN <<IF padTails THEN requested ELSE LeastOf(requested, extent)>> ELSE <<>>

\* resolveTile: clamped to the extent, which it must then divide, or padded.
ResolveTile(extent, requested, padTails) ==
  LET tile == IF padTails THEN requested ELSE LeastOf(requested, extent)
  IN  IF requested > 0 /\ (padTails \/ extent % tile = 0) THEN <<tile>> ELSE <<>>

\* resolveMemoryPath: the level tiles are staged in is on chip.
PathResolves(path) == Len(path) >= 2 /\ ToSet(path) \subseteq MemorySpaces /\ path[2] # "dram"

\* resolveContext: every element type is one of the dialect.
TypesResolve(shape) ==
  IsDType(shape.input) /\ IsDType(shape.accumulator) /\ IsDType(shape.output) /\ IsDType(shape.weight)

\* The policies, layout, path, owners and fragment the candidate names.
PolicyOf(space, c) == OrElse(SymbolOfKind(space, c, "tail_policy"), <<"none">>)[1]
LayoutOf(space, c) == OrElse(SymbolOfKind(space, c, "layout"), <<"row_major">>)[1]
PathOf(space, c) == OrElse(SymbolOfKind(space, c, "memory_path"), <<"dram", "sram", "acc">>)
OwnersOf(space, c) == OrElse(SymbolOfKind(space, c, "owner_mapping"), <<"worker", "lane">>)

\* The tiles of the three axes, <<>> where one is refused.
TilesOf(space, c, shape) ==
  [i \in 1 .. 3 |->
     ResolveTile(shape.extent[i], TileOf(c)[i], PolicyOf(space, c) = "pad")]

\* resolveDecisions: whether the binder can realize the candidate.
Bindable(space, c, shape) ==
  /\ TypesResolve(shape)
  /\ \A i \in 1 .. 3 : shape.extent[i] > 0
  /\ PolicyOf(space, c) \in {"none", "pad"}
  /\ Binds(c, TileAxes)
  /\ \A i \in 1 .. 3 : TilesOf(space, c, shape)[i] # <<>>
  /\ PolicyOf(space, c) = "pad" =>
       \A i \in 1 .. 3 : RoundUpExtent(shape.extent[i], TileOf(c)[i]) # <<>>
  /\ LayoutOf(space, c) \in LayoutKinds \ {"blocked", "swizzled"}
  /\ PathResolves(PathOf(space, c))
  /\ Len(OwnersOf(space, c)) \in {1, 2}
  /\ IsTriple(OrElse(SymbolOfKind(space, c, "fragment_shape"), <<1, 1, 1>>))

\* resolveDecisions: the decisions of a candidate that can be bound.  A path of
\* two levels leaves the accumulator in acc; a single owner is completed by the
\* lane; a space that searches no fragment takes the whole tile.
Decisions(space, c, shape) ==
  LET tile == [i \in 1 .. 3 |-> TilesOf(space, c, shape)[i][1]]
      path == PathOf(space, c)
      owners == OwnersOf(space, c)
      declared == OrElse(SymbolOfKind(space, c, "fragment_shape"), tile)
  IN  [mBucket |-> MBucket(shape.extent[1]), tail |-> PolicyOf(space, c), tile |-> tile,
       layout |-> LayoutOf(space, c), path |-> path, staging |-> path[2],
       accumulator |-> IF Len(path) >= 3 THEN Last(path) ELSE "acc",
       outer |-> owners[1], inner |-> IF Len(owners) > 1 THEN owners[2] ELSE "lane",
       declared |-> declared,
       fragment |-> [i \in 1 .. 3 |-> LargestDivisorAtMost(tile[i], LeastOf(declared[i], tile[i]))],
       stages |-> Stages(c),
       vectorWidth |-> GreatestOf(0, OrElse(Integer(c, "vector_width"), 0))]

\* A tile of some element type in a memory.
Tile(rows, cols, type, memory) == [rows |-> rows, cols |-> cols, type |-> type, memory |-> memory]
Copy2(from, tile) == [op |-> "copy", from |-> from, tile |-> tile]
Compute(op, tile) == [op |-> op, from |-> "", tile |-> tile]

\* The initial accumulator of a plain contraction comes from the third operand;
\* the arms of a fused one are fresh allocations.
Prologue(fused, shape, d) ==
  LET acc == Tile(d.tile[1], d.tile[2], shape.accumulator, d.accumulator)
  IN  IF fused THEN <<Compute("alloc", acc), Compute("alloc", acc)>>
      ELSE <<Copy2("init", Tile(d.tile[1], d.tile[2], shape.output, d.staging)),
             Copy2("staged", Tile(d.tile[1], d.tile[2], shape.output, d.accumulator))>>
           \o (IF shape.output # shape.accumulator THEN <<Compute("convert", acc)>> ELSE <<>>)

\* One K step: the operands are staged, awaited, split into fragments and
\* multiplied; the weights are staged in the input's element type.
KStep(arms, shape, d) ==
  LET rhs == Tile(d.tile[3], d.tile[2], shape.input, d.staging)
      split == (IF d.fragment[1] # d.tile[1] \/ d.fragment[3] # d.tile[3]
                THEN <<Compute("partition", Tile(d.fragment[1], d.fragment[3], shape.input, d.staging))>>
                ELSE <<>>)
               \o (IF d.fragment[3] # d.tile[3] \/ d.fragment[2] # d.tile[2]
                   THEN [i \in 1 .. arms |->
                           Compute("partition", Tile(d.fragment[3], d.fragment[2], shape.input, d.staging))]
                   ELSE <<>>)
  IN  <<Copy2("lhs", Tile(d.tile[1], d.tile[3], shape.input, d.staging))>>
      \o [i \in 1 .. arms |-> Copy2("rhs", rhs)]
      \o <<Compute("wait", rhs)>> \o split
      \o [i \in 1 .. arms |-> Compute("mma", Tile(d.tile[1], d.tile[2], shape.accumulator, d.accumulator))]

\* The epilogue belongs to the output tile.
Epilogue(fused, shape, d) ==
  LET acc == Tile(d.tile[1], d.tile[2], shape.accumulator, d.accumulator)
      out == Tile(d.tile[1], d.tile[2], shape.output, d.accumulator)
  IN  (IF fused THEN <<Compute("silu", acc), Compute("mul", acc)>> ELSE <<>>)
      \o (IF shape.accumulator # shape.output THEN <<Compute("convert", out)>> ELSE <<>>)
      \o <<Compute("store", out)>>

\* The extents the loops run over: rounded up to whole tiles when tails are
\* padded, the operands being padded with zeros.
PaddedExtents(shape, d) ==
  [i \in 1 .. 3 |->
     IF d.tail = "pad" THEN RoundUpExtent(shape.extent[i], d.tile[i])[1] ELSE shape.extent[i]]

\* The kernel returns the valid part of an output that was padded.
Sliced(shape, d) ==
  d.tail = "pad" /\ \E i \in 1 .. 2 : PaddedExtents(shape, d)[i] # shape.extent[i]

\* emitKernel: two spatial loops carrying the output and the K loop carrying
\* the accumulators, over the operands of the workload.
EmitKernel(space, shape, d) ==
  LET fused == space.workload = "fused_swiglu"
      arms == Arms(space.workload)
      padded == PaddedExtents(shape, d)
  IN  [operands |-> <<"lhs">> \o [i \in 1 .. arms |-> "rhs"] \o (IF fused THEN <<>> ELSE <<"init">>),
       extent |-> padded, step |-> d.tile, stages |-> d.stages,
       output |-> Tile(padded[1], padded[2], shape.output, "sram"),
       prologue |-> Prologue(fused, shape, d), body |-> KStep(arms, shape, d),
       epilogue |-> Epilogue(fused, shape, d), sliced |-> Sliced(shape, d)]
-----------------------------------------------------------------------------
(* What a kernel computes, for the properties                              *)

Offsets(k, axis) == {n \in 0 .. k.extent[axis] - 1 : n % k.step[axis] = 0}
CoveredFrom(k, axis, n) == {o \in Offsets(k, axis) : n \in o .. o + k.step[axis] - 1}

\* Every element of the result is written by one tile and accumulates every k
\* of the reduction once; no tile leaves its (padded) operand; the result has
\* the workload's extents.
Contracts(k, shape) ==
  /\ \A axis \in 1 .. 3 :
       /\ \A n \in 0 .. shape.extent[axis] - 1 : Cardinality(CoveredFrom(k, axis, n)) = 1
       /\ \A o \in Offsets(k, axis) : o + k.step[axis] <= k.extent[axis]
  /\ k.sliced <=> <<k.output.rows, k.output.cols>> # <<shape.extent[1], shape.extent[2]>>
  /\ Len(SelectSeq(k.body, LAMBDA o : o.op = "mma")) = Len(SelectSeq(k.body, LAMBDA o : o.from = "rhs"))

TileBytes(t) == t.rows * t.cols * DTypeBytes[t.type]

\* The bytes one K step stages.
StagedBytes(k) ==
  FoldLeft(LAMBDA n, o : n + (IF o.op = "copy" THEN TileBytes(o.tile) ELSE 0), 0, k.body)
=============================================================================
