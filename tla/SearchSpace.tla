----------------------------- MODULE SearchSpace -----------------------------
(***************************************************************************)
(* The search space of a schedule: the dialect's verifier of the space     *)
(* (lib/Dialect/Micro/MicroOps.cpp), its loader (lib/Perf/SearchSpace.cpp) *)
(* and the legality rules a candidate is held to on a machine              *)
(* (lib/Perf/Legality.cpp).                                                *)
(*                                                                         *)
(* A choice is <<"i", n>> or <<"s", parts>>: the text of a symbolic choice *)
(* is the list its consumers split it into ("dram:sram" is                 *)
(* <<"dram", "sram">>, "4x4x2" is <<4, 4, 2>>).  A candidate maps          *)
(* parameter names to choices.  An optional value is <<>> or <<v>>.        *)
(***************************************************************************)
EXTENDS Integers, Sequences, FiniteSets, SequencesExt

LeastOf(a, b) == IF a < b THEN a ELSE b
GreatestOf(a, b) == IF a > b THEN a ELSE b
FirstOne(s) == SubSeq(s, 1, LeastOf(1, Len(s)))
OrElse(opt, default) == IF opt = <<>> THEN default ELSE opt[1]
-----------------------------------------------------------------------------
(* The dialect's verifier                                                  *)

ParamKinds == {"integer", "layout", "memory_path", "owner_mapping", "fragment_shape", "tail_policy"}
ConstraintKinds ==
  {"sram_capacity", "acc_capacity", "mma_compatible", "mapping_extent", "tail_supported",
   "vector_width_supported", "tile_hierarchy_compatible", "layout_supported", "owner_supported",
   "fragment_compatible", "pipeline_live_tiles"}
VerifiedMetrics ==
  {"latency_cycles", "dram_bytes", "sram_bytes", "matrix_utilization", "dma_utilization",
   "capacity_spill_bytes"}
LayoutKinds == {"row_major", "col_major", "blocked", "vectorized", "swizzled"}
MemorySpaces == {"dram", "l2", "sram", "rf", "acc", "scratch"}
TailPolicies == {"none", "pad", "mask", "bounded"}

\* verifyIntegerChoices: positive, strictly increasing.
IntegerChoicesVerified(choices) ==
  /\ \A i \in DOMAIN choices : choices[i][1] = "i" /\ choices[i][2] > 0
  /\ \A i \in 2 .. Len(choices) : choices[i - 1][2] < choices[i][2]

IsTriple(parts) == Len(parts) = 3 /\ \A i \in 1 .. 3 : parts[i] > 0

\* verifySymbolicChoice
SymbolicChoiceVerified(kind, parts) ==
  CASE kind = "layout" -> parts[1] \in LayoutKinds
    [] kind = "memory_path" -> Len(parts) >= 2 /\ ToSet(parts) \subseteq MemorySpaces
    [] kind = "owner_mapping" -> Len(parts) >= 2 /\ "" \notin ToSet(parts)
    [] kind = "fragment_shape" -> IsTriple(parts)
    [] OTHER -> parts[1] \in TailPolicies

ParamVerified(p) ==
  /\ p.name # "" /\ p.kind \in ParamKinds /\ p.choices # <<>>
  /\ IF p.kind = "integer" THEN IntegerChoicesVerified(p.choices)
     ELSE \A i \in DOMAIN p.choices :
            p.choices[i][1] = "s" /\ SymbolicChoiceVerified(p.kind, p.choices[i][2])

ConstraintVerified(c) == c.kind \in ConstraintKinds /\ c.params # <<>>

ObjectiveVerified(o) ==
  /\ o.direction \in {"minimize", "maximize"} /\ o.primary \in VerifiedMetrics
  /\ ToSet(o.secondary) \subseteq VerifiedMetrics
  /\ Cardinality(ToSet(o.secondary)) = Len(o.secondary)

\* verifyCandidate: every parameter bound to one of its choices, nothing else.
CandidateVerified(bindings, params) ==
  /\ DOMAIN bindings # {}
  /\ DOMAIN bindings = {p.name : p \in ToSet(params)}
  /\ \A p \in ToSet(params) : bindings[p.name] \in ToSet(p.choices)

\* A reference of a constraint names a parameter or one parameter's role.
ReferenceVerified(name, params) ==
  \/ \E p \in ToSet(params) : p.name = name
  \/ Cardinality({p \in ToSet(params) : p.role = name}) = 1

\* SearchSpaceOp::verify and the verifiers of the operations in its body.
SpaceVerified(op) ==
  /\ op.workload # ""
  /\ \A i \in DOMAIN op.params : ParamVerified(op.params[i])
  /\ \A i \in DOMAIN op.constraints : ConstraintVerified(op.constraints[i])
  /\ \A i \in DOMAIN op.objectives : ObjectiveVerified(op.objectives[i])
  /\ Cardinality({p.name : p \in ToSet(op.params)}) = Len(op.params)
  /\ Len(op.objectives) <= 1
  /\ Cardinality({c.name : c \in ToSet(op.candidates)}) = Len(op.candidates)
  /\ op.singleton => /\ Len(op.candidates) <= 1 /\ op.params = <<>>
                     /\ \A c \in ToSet(op.candidates) : DOMAIN c.bindings = {}
  /\ ~op.singleton =>
       /\ op.params # <<>>
       /\ \A c \in ToSet(op.candidates) : CandidateVerified(c.bindings, op.params)
  /\ \A i \in DOMAIN op.constraints :
       \A n \in ToSet(op.constraints[i].params) : ReferenceVerified(n, op.params)
-----------------------------------------------------------------------------
(* The loader                                                              *)

DefaultObjective == [direction |-> "minimize", primary |-> "latency_cycles", secondary |-> <<>>]

\* loadParam: a repeated choice is refused here, the verifier lets a repeated
\* symbolic choice through.
ParamLoads(p) == p.choices # <<>> /\ Cardinality(ToSet(p.choices)) = Len(p.choices)

\* loadObjective
ObjectiveOf(op) == IF op.objectives = <<>> THEN DefaultObjective ELSE op.objectives[1]

\* loadSearchSpace of one operation: <<>> when it is refused.
LoadOp(op) ==
  IF /\ \A i \in DOMAIN op.params : ParamLoads(op.params[i])
     /\ \A i \in DOMAIN op.constraints : op.constraints[i].kind \in ConstraintKinds
  THEN <<[workload |-> op.workload, singleton |-> op.singleton, params |-> op.params,
          constraints |-> op.constraints, objective |-> ObjectiveOf(op)]>>
  ELSE <<>>

\* loadSearchSpace of a module: the named space, or the only one.
LoadSearchSpace(ops, symbol) ==
  IF symbol = ""
  THEN IF Len(ops) = 1 THEN LoadOp(ops[1]) ELSE <<>>
  ELSE LET named == SelectSeq(ops, LAMBDA o : o.name = symbol)
       IN  IF named = <<>> THEN <<>> ELSE LoadOp(named[1])

FindParam(space, name) == FirstOne(SelectSeq(space.params, LAMBDA p : p.name = name))
FindParamOfKind(space, kind) ==
  LET found == SelectSeq(space.params, LAMBDA p : p.kind = kind)
  IN  IF Len(found) = 1 THEN found ELSE <<>>

\* Candidate::integer and Candidate::symbol
Integer(c, name) == IF name \in DOMAIN c /\ c[name][1] = "i" THEN <<c[name][2]>> ELSE <<>>
Symbol(c, name) == IF name \in DOMAIN c /\ c[name][1] = "s" THEN <<c[name][2]>> ELSE <<>>

\* classifyMBucket
MBucket(m) == Cardinality({b \in {1, 4, 16, 64} : m > b})
-----------------------------------------------------------------------------
(* Legality: what each rule reads                                          *)

DTypeBytes == [f32 |-> 4, f16 |-> 2, bf16 |-> 2, i32 |-> 4, i8 |-> 1]
IsDType(t) == t \in DOMAIN DTypeBytes

SymbolOfKind(space, c, kind) ==
  LET p == FindParamOfKind(space, kind) IN IF p = <<>> THEN <<>> ELSE Symbol(c, p[1].name)

\* isMasked: every tail policy but "none" waives divisibility.
IsMasked(space, c) ==
  LET policy == SymbolOfKind(space, c, "tail_policy") IN policy # <<>> /\ policy[1] # <<"none">>

\* applicableShapes and dtypeShape; the facts are what the kernel records.
ApplicableShapes(facts) == IF facts.contractions # <<>> THEN facts.contractions ELSE facts.original
DTypeShape(facts) == FirstOne(facts.original \o facts.contractions)

\* IntResolver over the tile axes.
Binds(c, names) == \A n \in names : Integer(c, n) # <<>>
TileOf(c) == <<c["BM"][2], c["BN"][2], c["BK"][2]>>
TileAxes == {"BM", "BN", "BK"}
Divides(parts, whole) == \A i \in 1 .. 3 : whole[i] % parts[i] = 0

\* weightTileCount and accumulatorCount
Arms(workload) == IF workload = "fused_swiglu" THEN 2 ELSE 1

\* stagedTileBytes: the input tile and each weight tile of one K step.
StagedTileBytes(space, shape, t) ==
  t[1] * t[3] * DTypeBytes[shape.input] + Arms(space.workload) * t[3] * t[2] * DTypeBytes[shape.weight]

\* kSramUtilizationLimit = 0.80
SramLimit(capacity) == (capacity * 4) \div 5

MemoryOfKind(machine, kind) == FirstOne(SelectSeq(machine.memories, LAMBDA m : m.kind = kind))
EnginesOfKind(machine, kinds) == SelectSeq(machine.computes, LAMBDA e : e.kind \in kinds)

\* MachineModel::ownerMatches and hasOwnerKind
OwnerMatches(e, kind) == e.kind = kind \/ kind \in e.refines
HasOwnerKind(machine, kind) == \E e \in ToSet(machine.executors) : OwnerMatches(e, kind)

\* The executors above e: parents are followed until one is unknown.
Above(machine, e) ==
  FoldLeft(LAMBDA up, next : up \cup {p \in ToSet(machine.executors) : \E q \in up \cup {e} : p.id = q.parent},
           {}, machine.executors)
NestedUnder(machine, inner, outer) ==
  \E e \in ToSet(machine.executors) :
    /\ OwnerMatches(e, inner)
    /\ \E p \in Above(machine, e) : OwnerMatches(p, outer)

Volume(s) == FoldLeft(LAMBDA v, n : v * n, 1, s)

\* largestTileShape: the first of the largest fragments.
LargestTileShape(engine) ==
  FoldLeft(LAMBDA best, s : IF Len(s) = Len(best) /\ Volume(s) > Volume(best) THEN s ELSE best,
           engine.shapes[1], engine.shapes)

\* supportsContractionTypes
SupportsTypes(engine, shape) ==
  /\ engine.kind \in {"vector_engine", "matrix_engine"}
  /\ shape.input \in engine.types /\ shape.accumulator \in engine.accumulators

\* contractionTileFits
ContractionTileFits(engine, shape, t) ==
  IF engine.kind = "matrix_engine"
  THEN /\ engine.shapes # <<>> /\ Len(LargestTileShape(engine)) = 3
       /\ Divides(LargestTileShape(engine), t)
  ELSE /\ shape.accumulator \in DOMAIN engine.lanes /\ engine.lanes[shape.accumulator] > 0
       /\ t[2] % engine.lanes[shape.accumulator] = 0
-----------------------------------------------------------------------------
(* Legality: the rules                                                     *)

Stages(c) == GreatestOf(1, OrElse(Integer(c, "pipeline_stages"), 1))

\* A multi-stage pipeline double-buffers the staged tiles.
SramCapacityHolds(space, c, facts, machine) ==
  LET sram == MemoryOfKind(machine, "sram")
  IN  /\ sram # <<>> /\ Binds(c, TileAxes) /\ ApplicableShapes(facts) # <<>>
      /\ \A s \in ToSet(ApplicableShapes(facts)) :
           /\ IsDType(s.input) /\ IsDType(s.weight)
           /\ (IF Stages(c) > 1 THEN 2 ELSE 1) * StagedTileBytes(space, s, TileOf(c))
                <= SramLimit(sram[1].capacity)

AccCapacityHolds(space, c, facts, machine) ==
  LET acc == MemoryOfKind(machine, "acc")
  IN  /\ acc # <<>> /\ Binds(c, {"BM", "BN"}) /\ ApplicableShapes(facts) # <<>>
      /\ \A s \in ToSet(ApplicableShapes(facts)) :
           /\ IsDType(s.accumulator)
           /\ Arms(space.workload) * c["BM"][2] * c["BN"][2] * DTypeBytes[s.accumulator] <= acc[1].capacity

\* Every contraction runs on some engine, and unmasked tiles fit it exactly.
MmaCompatible(space, c, facts, machine) ==
  LET engines == ToSet(EnginesOfKind(machine, {"vector_engine", "matrix_engine"}))
  IN  /\ engines # {} /\ ApplicableShapes(facts) # <<>>
      /\ ~IsMasked(space, c) => Binds(c, TileAxes) /\ \A i \in 1 .. 3 : TileOf(c)[i] > 0
      /\ \A s \in ToSet(ApplicableShapes(facts)) :
           \E e \in engines :
             /\ SupportsTypes(e, s)
             /\ ~IsMasked(space, c) => ContractionTileFits(e, s, TileOf(c))

MappingExtentHolds(c, machine) ==
  /\ Binds(c, {"num_threads"}) /\ c["num_threads"][2] \in 1 .. machine.workerThreads

\* Divisibility is asked of the original workload, not of a contraction.
TailSupported(space, c, facts) ==
  LET policy == OrElse(SymbolOfKind(space, c, "tail_policy"), <<"none">>)[1]
  IN  \/ policy \in {"pad", "bounded"}
      \/ /\ policy = "none"
         /\ facts.original # <<>> /\ Binds(c, TileAxes)
         /\ Divides(TileOf(c), facts.original[1].extent)

VectorWidthSupported(c, facts, machine) ==
  LET shape == DTypeShape(facts)
  IN  /\ Binds(c, {"vector_width"}) /\ c["vector_width"][2] >= 1 /\ shape # <<>>
      /\ \E e \in ToSet(EnginesOfKind(machine, {"vector_engine"})) :
           /\ shape[1].input \in DOMAIN e.lanes
           /\ c["vector_width"][2] <= e.lanes[shape[1].input]

\* resolveReferencedParams: <<>> is an unresolved reference; the roles of the
\* kind must be distinct.
Referenced(space, kind, names) ==
  LET ofKind == SelectSeq(space.params, LAMBDA p : p.kind = kind)
      roles == SelectSeq(ofKind, LAMBDA p : p.role # "")
      resolve(n) ==
        FirstOne(FindParam(space, n) \o SelectSeq(ofKind, LAMBDA p : p.role = n))
      found == [i \in DOMAIN names |-> resolve(names[i])]
  IN  IF /\ Cardinality({p.role : p \in ToSet(roles)}) = Len(roles)
         /\ \A i \in DOMAIN names : found[i] # <<>> /\ found[i][1].kind = kind
      THEN <<[i \in DOMAIN names |-> found[i][1].name]>>
      ELSE <<>>

\* Some level of the path other than dram accepts each layout.
LayoutSupported(space, c, names, machine) ==
  LET resolved == Referenced(space, "layout", names)
      path == OrElse(SymbolOfKind(space, c, "memory_path"), <<"sram">>)
  IN  /\ resolved # <<>>
      /\ \A n \in ToSet(resolved[1]) :
           /\ Symbol(c, n) # <<>>
           /\ \E level \in ToSet(path) \ {"dram"} :
                /\ MemoryOfKind(machine, level) # <<>>
                /\ c[n][2][1] \in MemoryOfKind(machine, level)[1].layouts

\* Owners are known to the machine and nested, the outer one first.
OwnerSupported(space, c, names, machine) ==
  LET resolved == Referenced(space, "owner_mapping", names)
  IN  /\ resolved # <<>>
      /\ \A n \in ToSet(resolved[1]) :
           /\ Symbol(c, n) # <<>>
           /\ \A i \in DOMAIN c[n][2] : HasOwnerKind(machine, c[n][2][i])
           /\ \A i \in 2 .. Len(c[n][2]) : NestedUnder(machine, c[n][2][i], c[n][2][i - 1])

\* checkTileHierarchyCompatible: a declared fragment divides an unmasked tile.
TileHierarchyCompatible(space, c) ==
  LET fragment == SymbolOfKind(space, c, "fragment_shape")
  IN  fragment # <<>> =>
        /\ IsTriple(fragment[1])
        /\ ~IsMasked(space, c) => Binds(c, TileAxes) /\ Divides(fragment[1], TileOf(c))

\* checkFragmentCompatible: it also covers some matrix engine's fragment.
FragmentCompatible(space, c, machine) ==
  LET fragment == SymbolOfKind(space, c, "fragment_shape")
  IN  fragment # <<>> =>
        /\ TileHierarchyCompatible(space, c)
        /\ \E e \in ToSet(EnginesOfKind(machine, {"matrix_engine"})) :
             \A i \in 1 .. 3 : fragment[1][i] >= LargestTileShape(e)[i]

\* The copies in flight and the tiles of every stage.
PipelineLiveTiles(space, c, facts, machine) ==
  LET sram == MemoryOfKind(machine, "sram")
      outstanding == IF Stages(c) > 1 THEN OrElse(Integer(c, "prefetch_distance"), 0) ELSE 0
  IN  /\ sram # <<>> /\ outstanding <= OrElse(machine.maxOutstanding, 1)
      /\ Binds(c, TileAxes) /\ ApplicableShapes(facts) # <<>>
      /\ \A s \in ToSet(ApplicableShapes(facts)) :
           /\ IsDType(s.input) /\ IsDType(s.weight)
           /\ Stages(c) * StagedTileBytes(space, s, TileOf(c)) <= SramLimit(sram[1].capacity)

\* The references of a constraint, by parameter name or by role, are bound.
ReferencesBound(space, c, names) ==
  \A n \in ToSet(names) :
    LET p == FirstOne(FindParam(space, n) \o SelectSeq(space.params, LAMBDA q : q.role # "" /\ q.role = n))
    IN  p # <<>> /\ p[1].name \in DOMAIN c

\* checkConstraint
ConstraintHolds(k, space, c, facts, machine) ==
  /\ ReferencesBound(space, c, k.params)
  /\ CASE k.kind = "sram_capacity" -> SramCapacityHolds(space, c, facts, machine)
       [] k.kind = "acc_capacity" -> AccCapacityHolds(space, c, facts, machine)
       [] k.kind = "mma_compatible" -> MmaCompatible(space, c, facts, machine)
       [] k.kind = "mapping_extent" -> MappingExtentHolds(c, machine)
       [] k.kind = "tail_supported" -> TailSupported(space, c, facts)
       [] k.kind = "vector_width_supported" -> VectorWidthSupported(c, facts, machine)
       [] k.kind = "tile_hierarchy_compatible" -> TileHierarchyCompatible(space, c)
       [] k.kind = "layout_supported" -> LayoutSupported(space, c, k.params, machine)
       [] k.kind = "owner_supported" -> OwnerSupported(space, c, k.params, machine)
       [] k.kind = "fragment_compatible" -> FragmentCompatible(space, c, machine)
       [] k.kind = "pipeline_live_tiles" -> PipelineLiveTiles(space, c, facts, machine)

\* checkLegality: the first rule that fails is the reason.
FirstFailure(space, c, facts, machine) ==
  FirstOne(SelectSeq(space.constraints, LAMBDA k : ~ConstraintHolds(k, space, c, facts, machine)))

\* The session's single shape stands for the workload and its contraction.
FactsOf(shape) == [original |-> <<shape>>, contractions |-> <<shape>>]
=============================================================================
