---------------------------- MODULE FrontendImport ----------------------------
(* Validation and import of a captured frontend program (lib/Frontend/        *)
(* Program.cpp, Importer.cpp).  A program for one block is replaced by the    *)
(* whole-tensor operation it is proved to compute: an add or multiply, with a *)
(* mask where the grid is rounded up (Proof), or a contraction carried by a   *)
(* counted loop (ContractionProof).  The proof works on affine facts; the     *)
(* history variable meaning holds what each value is for every program id,    *)
(* loop iteration and lane, so that the two can be compared.  Parsing, source *)
(* locations and the search space that is exported with the program are left  *)
(* out; integers are bounded by MaxInt where the code checks for overflow.    *)
EXTENDS Integers, Sequences, FiniteSets, SequencesExt

CONSTANTS
  MaxInt,     \* the largest index
  Staging,    \* bytes of the machine's largest sram, 0 if it has none
  AccBytes,   \* bytes of its largest accumulator memory, 0 if it has none
  Nothing     \* std::nullopt

VARIABLES
  program,    \* the request
  importPc,
  at,         \* operations looked at
  facts,      \* values: id -> Facts
  meaning,    \* history: id -> value for every environment and lane
  recovered,  \* Recovery, ContractionRecovery
  refusal     \* the diagnostic code

importVars == <<program, importPc, at, facts, meaning, recovered, refusal>>

ASSUME ImportAssumption ==
  /\ MaxInt \in Nat \ {0} /\ Staging \in Nat /\ AccBytes \in Nat /\ Nothing \notin STRING

Ops == program.ops
Grid == program.grid
Block == program.block
Ports == DOMAIN program.tensors
Tensor(i) == program.tensors[i]
InPorts == SelectSeq([i \in Ports |-> i], LAMBDA i : Tensor(i).dir = "input")
OutPorts == SelectSeq([i \in Ports |-> i], LAMBDA i : Tensor(i).dir = "output")
Looping == program.loop # Nothing
HasDot == \E i \in DOMAIN Ops : Ops[i].code = "dot"

Coverage    == "invalid_launch_coverage"
Unsupported == "unsupported_frontend_program"
TailPolicy  == "unsupported_tail_policy"
Numerical   == "unsupported_numerical_contract"
Schema      == "invalid_frontend_schema"
-----------------------------------------------------------------------------
(* Affine expressions over three program ids, two lanes and the induction    *)
(* variable.                                                                 *)

Terms == 1 .. 6
Affine(c, k) == [c |-> c, k |-> k]
Constant(k) == Affine([i \in Terms |-> 0], k)
Uniform(e) == \A i \in Terms : e.c[i] = 0
InWord(x) == -MaxInt - 1 <= x /\ x <= MaxInt
Checked(e) == IF InWord(e.k) /\ \A i \in Terms : InWord(e.c[i]) THEN e ELSE Nothing
Scaled(e, f) == Checked(Affine([i \in Terms |-> e.c[i] * f], e.k * f))
Sum(a, b) ==
  IF a = Nothing \/ b = Nothing THEN Nothing ELSE Checked(Affine([i \in Terms |-> a.c[i] + b.c[i]], a.k + b.k))
Difference(a, b) == Sum(a, Scaled(b, -1))
Product(a, b) ==
  IF Uniform(a) THEN Scaled(b, a.k) ELSE IF Uniform(b) THEN Scaled(a, b.k) ELSE Nothing

\* C++ division: towards zero.
Quot(n, d) == IF n >= 0 THEN n \div d ELSE -((-n) \div d)
Rest(n, d) == n - d * Quot(n, d)
QuotientOf(e, d) == Affine([i \in Terms |-> Quot(e.c[i], d)], Quot(e.k, d))
ResidueOf(e, d) == Affine([i \in Terms |-> Rest(e.c[i], d)], Rest(e.k, d))

NoTrips == [lower |-> 0, upper |-> 0, step |-> 1]

\* The last value a term takes.
LastValue(i, shape, trips) ==
  IF i <= 3 THEN Grid[i] - 1
  ELSE IF i <= 5 THEN IF i - 3 <= Len(shape) THEN shape[i - 3] - 1 ELSE 0
  ELSE IF trips.upper > trips.lower THEN trips.upper - trips.step ELSE trips.lower

\* Terms that cannot vary are dropped.
Normal(e, shape, trips) ==
  Affine([i \in Terms |-> IF LastValue(i, shape, trips) > 0 THEN e.c[i] ELSE 0], e.k)

\* A lower rank is aligned with the trailing axes of the result.
Aligned(e, from, to) ==
  LET shift == Len(to) - Len(from)
  IN  Affine([i \in Terms |-> IF i \notin {4, 5} THEN e.c[i]
                        ELSE IF i - 3 - shift \in 1 .. Len(from) THEN e.c[i - shift] ELSE 0], e.k)
Promoted(e, from, to) == Normal(Aligned(e, from, to), to, NoTrips)

Interval(e, shape, trips) ==
  LET reach(i) == e.c[i] * LastValue(i, shape, trips)
      below == {i \in Terms : reach(i) < 0}
      total(S) == FoldSet(LAMBDA i, n : n + reach(i), e.k, S)
  IN  IF trips.upper >= trips.lower /\ (trips.upper - trips.lower) % trips.step = 0
         /\ InWord(total(below)) /\ InWord(total(Terms \ below))
         /\ \A i \in Terms : InWord(reach(i))
      THEN [lo |-> total(below), hi |-> total(Terms \ below)] ELSE Nothing

\* The axis of a view's result on which axis i of its operand lies.
ViewAxis(op, i) ==
  IF op.code = "expand_dims" THEN IF i > op.a THEN i + 1 ELSE i ELSE op.a[i] + 1
Viewed(op, e, rank) ==
  LET from(j) == {i \in 1 .. rank : ViewAxis(op, i) = j - 3}
  IN  Affine([j \in Terms |-> IF j \notin {4, 5} THEN e.c[j]
                        ELSE IF from(j) = {} THEN 0 ELSE e.c[3 + Max(from(j))]], e.k)
-----------------------------------------------------------------------------
(* Masks: unknown, constant, or a conjunction of lane bounds.               *)

UnknownMask == [kind |-> "unknown", value |-> FALSE, bounds |-> <<>>]
ConstantMask(v) == [kind |-> "constant", value |-> v, bounds |-> <<>>]
BoundsMask(bs) == [kind |-> "bounds", value |-> FALSE, bounds |-> bs]

AndMasks(a, b) ==
  IF ConstantMask(FALSE) \in {a, b} THEN ConstantMask(FALSE)
  ELSE IF a = ConstantMask(TRUE) THEN b ELSE IF b = ConstantMask(TRUE) THEN a
  ELSE IF a.kind # "bounds" \/ b.kind # "bounds" THEN UnknownMask
  ELSE BoundsMask(a.bounds \o SelectSeq(b.bounds, LAMBDA t : t \notin ToSet(a.bounds)))

OrMasks(a, b) ==
  IF ConstantMask(TRUE) \in {a, b} THEN ConstantMask(TRUE)
  ELSE IF a = ConstantMask(FALSE) THEN b ELSE IF b = ConstantMask(FALSE) THEN a
  ELSE IF a.kind # "bounds" \/ b.kind # "bounds" THEN UnknownMask
  ELSE IF ToSet(a.bounds) \subseteq ToSet(b.bounds) THEN b
  ELSE IF ToSet(b.bounds) \subseteq ToSet(a.bounds) THEN a ELSE UnknownMask

SelectMask(c, x, y) ==
  IF c.kind = "constant" THEN IF c.value THEN x ELSE y
  ELSE IF y = ConstantMask(FALSE) THEN AndMasks(c, x)
  ELSE IF x = ConstantMask(TRUE) THEN OrMasks(c, y)
  ELSE IF x.kind # "unknown" /\ x = y THEN x ELSE UnknownMask

\* program_id[axis] * block + lane on one axis, as normalization leaves it.
LaneForm(axis, width, shape) ==
  Normal(Affine([i \in Terms |-> IF i = axis THEN width ELSE IF i = 3 + axis THEN 1 ELSE 0], 0), shape, NoTrips)

\* "difference < 0" as a bound on one lane's index.
LaneBound(d, shape, predicate) ==
  LET bound == IF predicate = "lt" THEN -d.k ELSE 1 - d.k
      axes == {x \in 1 .. 2 : d.c[3 + x] # 0}
      axis == Max(axes)
  IN  IF predicate \notin {"lt", "le"} \/ bound <= 0 \/ d.k = -MaxInt - 1 \/ Cardinality(axes) # 1
      THEN Nothing
      ELSE IF d.c[3 + axis] # 1 \/ (\E p \in 1 .. 3 : d.c[p] # IF p = axis /\ Grid[p] # 1 THEN Block[p] ELSE 0)
      THEN Nothing ELSE [e |-> Normal([d EXCEPT !.k = 0], shape, NoTrips), b |-> bound]

Tile == <<Block[1], Block[2]>>
Rounded(axis) == Grid[axis] * Block[axis] # Tensor(1).shape[axis]
TailRequired == Rounded(1) \/ Rounded(2)

\* The mask a rounded launch must declare.
ExpectedMask ==
  LET edge(axis) == IF Rounded(axis)
                    THEN BoundsMask(<<[e |-> LaneForm(axis, Block[axis], Tile), b |-> Tensor(1).shape[axis]]>>)
                    ELSE ConstantMask(TRUE)
  IN  AndMasks(edge(1), edge(2))

MaskMatches(mask) ==
  \E expected \in {ExpectedMask} :
    /\ mask.kind = expected.kind /\ mask.value = expected.value
    /\ Len(mask.bounds) = Len(expected.bounds) /\ ToSet(mask.bounds) \subseteq ToSet(expected.bounds)
-----------------------------------------------------------------------------
(* Validation: every operand is defined before its use, and every type is    *)
(* the one its operation gives.                                              *)

BroadcastShape(shapes) ==
  LET rank == Max({Len(shapes[i]) : i \in DOMAIN shapes})
      extents(x) == {shapes[i][x - rank + Len(shapes[i])] :
                       i \in {i \in DOMAIN shapes : x > rank - Len(shapes[i])}} \ {1}
  IN  IF \E x \in 1 .. rank : Cardinality(extents(x)) > 1 THEN Nothing
      ELSE [x \in 1 .. rank |-> IF extents(x) = {} THEN 1 ELSE Max(extents(x))]

Arithmetic == {"add", "sub", "mul", "div", "rem", "ceildiv"}
Typed(op, in) ==
  LET shapes == [i \in DOMAIN in |-> in[i].shape]
      kind(dt, shape) == op.dt = dt /\ op.shape = shape
  IN  CASE op.code = "constant" -> op.dt \in {"index", "i1", "f32"}
        [] op.code = "program_id" -> op.a \in 0 .. 2 /\ kind("index", <<>>)
        [] op.code = "range" -> Len(op.shape) = 1 /\ op.shape[1] > 0 /\ op.dt = "index"
        [] op.code \in Arithmetic \cup {"compare"} ->
             /\ in[1].dt = in[2].dt /\ in[1].dt \notin {"i1", "ptr"}
             /\ op.code \in {"rem", "ceildiv"} => in[1].dt = "index"
             /\ kind(IF op.code = "compare" THEN "i1" ELSE in[1].dt, BroadcastShape(shapes))
        [] op.code = "select" ->
             in[1].dt = "i1" /\ in[2].dt = in[3].dt /\ in[2].dt # "ptr" /\ kind(in[2].dt, BroadcastShape(shapes))
        [] op.code = "expand_dims" ->
             op.a <= Len(shapes[1]) /\ Len(shapes[1]) < 2 /\ kind(in[1].dt, InsertAt(shapes[1], op.a + 1, 1))
        [] op.code = "broadcast" ->
             /\ Len(op.a) = Len(shapes[1]) /\ op.dt = in[1].dt
             /\ \A i \in DOMAIN op.a :
                  /\ op.a[i] < Len(op.shape) /\ (i > 1 => op.a[i] > op.a[i - 1])
                  /\ shapes[1][i] \in {1, op.shape[op.a[i] + 1]}
        [] op.code = "address" ->
             /\ in[1].code = "tensor" /\ in[2].dt = "index" /\ in[3].dt = "index"
             /\ kind("ptr", BroadcastShape(<<shapes[2], shapes[3]>>))
        [] op.code = "load" ->
             /\ in[1].dt = "ptr" /\ in[1].dir = "input" /\ in[2].dt = "i1" /\ shapes[2] = shapes[1]
             /\ in[3].dt = "f32" /\ shapes[3] \in {<<>>, shapes[1]} /\ kind("f32", shapes[1])
        [] op.code = "store" ->
             /\ in[1].dt = "ptr" /\ in[1].dir = "output" /\ in[3].dt = "i1"
             /\ shapes[3] = shapes[1] /\ in[2].dt = "f32" /\ shapes[2] = shapes[1]
        [] op.code = "dot" ->
             /\ Len(shapes[1]) = 2 /\ Len(shapes[2]) = 2 /\ shapes[1][2] = shapes[2][1]
             /\ shapes[3] = <<shapes[1][1], shapes[2][2]>> /\ kind("f32", shapes[3])
        [] op.code \in {"neg", "silu", "cast"} -> in[1].dt = "f32" /\ kind("f32", shapes[1])

InScope(scope, id) == \E i \in DOMAIN scope : scope[i].id = id
Named(scope, id) == scope[CHOOSE i \in DOMAIN scope : scope[i].id = id]
TensorScope ==
  [i \in Ports |-> [id |-> Tensor(i).name, code |-> "tensor", dt |-> "ptr", shape |-> <<>>, dir |-> Tensor(i).dir]]
\* A pointer keeps the port it came from.
Results(list) ==
  [i \in DOMAIN list |->
     [id |-> list[i].id, code |-> list[i].code, dt |-> list[i].dt, shape |-> list[i].shape,
      dir |-> IF list[i].code = "address" /\ InScope(TensorScope, list[i].in[1])
              THEN Named(TensorScope, list[i].in[1]).dir ELSE "none"]]
Carries(names, kind, shape) ==
  [i \in DOMAIN names |-> [id |-> names[i], code |-> "argument", dt |-> kind, shape |-> shape, dir |-> "none"]]

\* walk(): operands in scope, names new, types right.
Walked(scope, list) ==
  \A i \in DOMAIN list :
    LET before == scope \o Results(SubSeq(list, 1, i - 1))
        op == list[i]
    IN  /\ \A j \in DOMAIN op.in : InScope(before, op.in[j])
        /\ ~InScope(before, op.id) /\ Typed(op, [j \in DOMAIN op.in |-> Named(before, op.in[j])])

\* The loop stands after the first program.before operations.
LoopWalked(scope) ==
  LET l == program.loop
      in(i) == Named(scope, l.in[i])
      inner == scope \o Carries(SubSeq(l.args, 1, 1), "index", <<>>) \o Carries(Tail(l.args), "f32", l.shape)
      inside == inner \o Results(l.body)
  IN  /\ Len(l.in) >= 2 /\ \A i \in DOMAIN l.in : InScope(scope, l.in[i])
      /\ Len(l.results) = Len(l.in) - 2 /\ Len(l.args) = Len(l.results) + 1 /\ l.step > 0
      /\ \A i \in 1 .. 2 : in(i).dt = "index" /\ in(i).shape = <<>>
      /\ \A i \in 3 .. Len(l.in) : in(i).dt = "f32" /\ in(i).shape = l.shape
      /\ Walked(inner, l.body) /\ Len(l.yield) = Len(l.results)
      /\ \A i \in DOMAIN l.yield : InScope(inside, l.yield[i])
      /\ \A i \in DOMAIN l.yield : Named(inside, l.yield[i]).dt = "f32" /\ Named(inside, l.yield[i]).shape = l.shape

Validated ==
  LET early == SubSeq(Ops, 1, program.before)
      scope == TensorScope \o Results(early)
      after == IF Looping THEN scope \o Carries(program.loop.results, "f32", program.loop.shape) ELSE scope
  IN  /\ Cardinality({Tensor(i).name : i \in Ports}) = Len(program.tensors)
      /\ Walked(TensorScope, early) /\ (Looping => LoopWalked(scope))
      /\ Walked(after, SubSeq(Ops, program.before + 1, Len(Ops)))
-----------------------------------------------------------------------------
(* What the source computes.  An environment is the three program ids and   *)
(* the value of the induction variable; a lane is one index per axis.       *)

Pids == {<<p, q, r>> : p \in 0 .. Grid[1] - 1, q \in 0 .. Grid[2] - 1, r \in 0 .. Grid[3] - 1}
Lanes(shape) ==
  CASE Len(shape) = 0 -> {<<>>}
    [] Len(shape) = 1 -> {<<x>> : x \in 0 .. shape[1] - 1}
    [] OTHER -> {<<x, y>> : x \in 0 .. shape[1] - 1, y \in 0 .. shape[2] - 1}
ClampLane(lane, shape) == [i \in DOMAIN shape |-> IF shape[i] = 1 THEN 0 ELSE lane[i]]
OperandLane(lane, shape) == ClampLane(SubSeq(lane, Len(lane) - Len(shape) + 1, Len(lane)), shape)
ViewLane(op, lane, shape) == ClampLane([i \in DOMAIN shape |-> lane[ViewAxis(op, i)]], shape)

Holds(predicate, x, y) ==
  CASE predicate = "lt" -> x < y [] predicate = "le" -> x <= y [] predicate = "gt" -> x > y
    [] predicate = "ge" -> x >= y [] predicate = "eq" -> x = y [] predicate = "ne" -> x # y

Computed(op, x, y) ==
  IF op.dt # "index" THEN <<op.code, x, y>>
  ELSE CASE op.code = "add" -> x + y [] op.code = "sub" -> x - y [] op.code = "mul" -> x * y
         [] op.code = "div" -> Quot(x, y) [] op.code = "rem" -> Rest(x, y)
         [] op.code = "ceildiv" -> Quot(x + y - 1, y)

ValueAt(op, env, lane) ==
  LET shape(i) == facts[op.in[i]].shape
      arg(i) == meaning[op.in[i]][env, OperandLane(lane, shape(i))]
  IN  CASE op.code = "constant" -> IF op.dt = "f32" THEN <<"literal", op.a>> ELSE op.a
        [] op.code = "program_id" -> env[1][op.a + 1]
        [] op.code = "range" -> op.a + lane[1]
        [] op.code \in {"expand_dims", "broadcast"} -> meaning[op.in[1]][env, ViewLane(op, lane, shape(1))]
        [] op.code \in Arithmetic -> Computed(op, arg(1), arg(2))
        [] op.code = "compare" -> Holds(op.a, arg(1), arg(2))
        [] op.code = "select" -> IF arg(1) THEN arg(2) ELSE arg(3)
        [] op.code = "address" -> <<op.in[1], arg(2), arg(3)>>
        [] op.code = "load" -> IF arg(2) THEN <<"element", arg(1)>> ELSE <<"padding">>
        [] op.code = "dot" ->
             <<"dot", arg(3), [k \in 0 .. shape(1)[2] - 1 |->
                                 <<meaning[op.in[1]][env, <<lane[1], k>>], meaning[op.in[2]][env, <<k, lane[2]>>]>>]>>
        [] OTHER -> <<op.code, arg(1)>>

Meant(op, envs) == [x \in envs \X Lanes(op.shape) |-> ValueAt(op, x[1], x[2])]
TopEnvs == Pids \X {0}
Define(f, id, v) == [x \in DOMAIN f \cup {id} |-> IF x = id THEN v ELSE f[x]]
-----------------------------------------------------------------------------
(* The request is parsed and validated, then one of the two proofs starts.  *)

NoFact ==
  [code |-> "", dt |-> "", shape |-> <<>>, index |-> Nothing, mask |-> UnknownMask, req |-> Nothing,
   addr |-> Nothing, in |-> <<>>, num |-> Nothing, div |-> 0, zero |-> FALSE]
FactFor(op) == [NoFact EXCEPT !.code = op.code, !.dt = op.dt, !.shape = op.shape, !.in = op.in]
PortNamed(name) == CHOOSE i \in Ports : Tensor(i).name = name
BasePointer(i) == [port |-> i, rows |-> Constant(0), cols |-> Constant(0), reqs |-> <<>>]
TensorFacts ==
  [n \in {Tensor(i).name : i \in Ports} |->
     [NoFact EXCEPT !.code = "tensor", !.dt = "ptr", !.addr = BasePointer(PortNamed(n))]]

ImportInit(p) ==
  /\ program = p /\ importPc = "validate" /\ at = 0 /\ facts = <<>> /\ meaning = <<>>
  /\ recovered = Nothing /\ refusal = Nothing

Refuse(code) ==
  /\ importPc' = "refused" /\ refusal' = code
  /\ UNCHANGED <<program, at, facts, meaning, recovered>>

Validate ==
  /\ importPc = "validate"
  /\ IF ~Validated THEN Refuse(Schema)
     ELSE /\ importPc' = IF Looping \/ HasDot THEN "contraction" ELSE "launch"
          /\ UNCHANGED <<program, at, facts, meaning, recovered, refusal>>

\* The grid is exactly as many blocks as the extents need.
Covered(axis) == Grid[axis] = (Tensor(OutPorts[1]).shape[axis] + Block[axis] - 1) \div Block[axis]

LaunchRefusal ==
  IF program.numerics # "strict" THEN Numerical
  ELSE IF Len(InPorts) # 2 \/ Len(OutPorts) # 1 THEN Unsupported
  ELSE IF \E i \in Ports : Tensor(i).shape # Tensor(OutPorts[1]).shape THEN Unsupported
  ELSE IF Grid[3] # 1 \/ Block[3] # 1 THEN Coverage
  ELSE IF ~Covered(1) \/ ~Covered(2) THEN Coverage ELSE Nothing

CheckLaunch ==
  /\ importPc = "launch"
  /\ IF LaunchRefusal # Nothing THEN Refuse(LaunchRefusal)
     ELSE /\ importPc' = "prove" /\ facts' = TensorFacts
          /\ UNCHANGED <<program, at, meaning, recovered, refusal>>
-----------------------------------------------------------------------------
(* Proof::run: one operation after the other.                               *)

Arg(op, i) == facts[op.in[i]]
IndexArg(op, i) ==
  IF i \notin DOMAIN op.in THEN Nothing
  ELSE IF Arg(op, i).index = Nothing THEN Nothing ELSE Promoted(Arg(op, i).index, Arg(op, i).shape, op.shape)

\* divide(): coefficient by coefficient; exact on lanes whose residue is below
\* the divisor.
Divisible(e, d, shape) ==
  LET range == Interval(ResidueOf(e, d), shape, NoTrips) IN range # Nothing /\ range.lo >= 0
Provisional(e, d, shape) == Interval(ResidueOf(e, d), shape, NoTrips).hi >= d
Divided(e, d, shape, remainder) ==
  IF ~Divisible(e, d, shape) THEN Nothing
  ELSE Normal(IF remainder THEN ResidueOf(e, d) ELSE QuotientOf(e, d), shape, NoTrips)

CeilDivided(a, d, shape) ==
  LET range == Interval(a, shape, NoTrips)
      shifted == Sum(a, Constant(d - 1))
  IN  IF range = Nothing \/ shifted = Nothing THEN Nothing
      ELSE IF range.lo < 0 THEN Nothing ELSE Divided(shifted, d, shape, FALSE)

Divides(op) == op.code \in {"div", "rem", "ceildiv"}
\* The index an operation gives, or the difference a comparison tests.
IndexResult(op, a, b) ==
  CASE a = Nothing \/ b = Nothing -> Nothing
    [] op.code = "add" -> Sum(a, b)
    [] op.code \in {"sub", "compare"} -> Difference(a, b)
    [] op.code = "mul" -> Product(a, b)
    [] Divides(op) /\ (~Uniform(b) \/ b.k <= 0) -> Nothing
    [] op.code = "ceildiv" -> CeilDivided(a, b.k, op.shape)
    [] op.code \in {"div", "rem"} -> Divided(a, b.k, op.shape, op.code = "rem")
    [] OTHER -> Nothing

\* The bound on the residue that the mask of a load or store has to prove.
Requirement(op, a, d) ==
  IF op.code \in {"div", "rem"} /\ Provisional(a, d, op.shape)
  THEN [e |-> Normal(ResidueOf(a, d), op.shape, NoTrips), d |-> d] ELSE Nothing

Decided(predicate, range) ==
  LET always == CASE predicate = "lt" -> range.hi < 0 [] predicate = "le" -> range.hi <= 0
                  [] predicate = "gt" -> range.lo > 0 [] predicate = "ge" -> range.lo >= 0
                  [] predicate = "eq" -> range.lo = 0 /\ range.hi = 0
                  [] predicate = "ne" -> range.hi < 0 \/ range.lo > 0
      never == CASE predicate = "lt" -> range.lo >= 0 [] predicate = "le" -> range.lo > 0
                 [] predicate = "gt" -> range.hi <= 0 [] predicate = "ge" -> range.hi < 0
                 [] predicate = "eq" -> range.hi < 0 \/ range.lo > 0
                 [] predicate = "ne" -> range.lo = 0 /\ range.hi = 0
  IN  IF always THEN ConstantMask(TRUE) ELSE IF never THEN ConstantMask(FALSE) ELSE UnknownMask

CompareMask(op, difference) ==
  LET known == Decided(op.a, Interval(difference, op.shape, NoTrips))
      bound == LaneBound(difference, op.shape, op.a)
  IN  IF known # UnknownMask \/ bound = Nothing THEN known ELSE BoundsMask(<<bound>>)

AddressOf(op) ==
  LET raised(i) == IF Arg(op, i).req = Nothing THEN <<>>
                   ELSE <<[Arg(op, i).req EXCEPT !.e = Promoted(@, Arg(op, i).shape, op.shape)]>>
  IN  [port |-> Arg(op, 1).addr.port, rows |-> IndexArg(op, 2), cols |-> IndexArg(op, 3),
       reqs |-> raised(2) \o raised(3)]

Rectangular(address, shape) ==
  /\ shape = Tile
  /\ address.rows = LaneForm(1, shape[1], shape) /\ address.cols = LaneForm(2, shape[2], shape)
\* MUTANT of RequirementsSatisfied: residues are taken on trust.
RequirementsIgnored(address, mask) == TRUE
RequirementsSatisfied(address, mask) ==
  \A i \in DOMAIN address.reqs : [e |-> address.reqs[i].e, b |-> address.reqs[i].d] \in ToSet(mask.bounds)

AccessProved(pointer, mask) ==
  Rectangular(pointer.addr, pointer.shape) /\ MaskMatches(mask) /\ RequirementsSatisfied(pointer.addr, mask)
AccessRefusal(pointer) ==
  IF Rectangular(pointer.addr, pointer.shape) /\ TailRequired THEN TailPolicy ELSE Coverage

ValueRefusal(op, result) ==
  CASE op.code \in {"expand_dims", "broadcast"} ->
         IF Arg(op, 1).index = Nothing /\ op.dt # "i1" THEN Unsupported ELSE Nothing
    [] op.code \in Arithmetic /\ op.dt = "index" ->
         IF result = Nothing THEN Coverage ELSE Nothing
    [] op.code \in Arithmetic /\ op.dt # "index" ->
         IF op.code \notin {"add", "mul"} THEN Unsupported ELSE Nothing
    [] op.code = "compare" ->
         IF Arg(op, 1).index = Nothing \/ Arg(op, 2).index = Nothing THEN Unsupported
         ELSE IF result = Nothing THEN Coverage
         ELSE IF Interval(result, op.shape, NoTrips) = Nothing THEN Coverage ELSE Nothing
    [] op.code = "select" -> IF op.dt # "i1" THEN Unsupported ELSE Nothing
    [] op.code = "address" ->
         IF Arg(op, 1).addr = Nothing \/ Arg(op, 2).index = Nothing \/ Arg(op, 3).index = Nothing
         THEN Coverage ELSE Nothing
    [] op.code = "load" ->
         IF Arg(op, 1).addr = Nothing THEN Coverage
         ELSE IF AccessProved(Arg(op, 1), Arg(op, 2).mask) THEN Nothing ELSE AccessRefusal(Arg(op, 1))
    [] op.code \in {"constant", "program_id", "range"} -> Nothing
    [] OTHER -> Unsupported

\* What is known of a constant, an identifier, a range or a view.
LeafFact(op) ==
  LET f == FactFor(op)
      unit(i, k) == Affine([j \in Terms |-> IF j = i THEN 1 ELSE 0], k)
  IN  CASE op.code = "constant" ->
             IF op.dt = "index" THEN [f EXCEPT !.index = Constant(op.a)]
             ELSE IF op.dt = "i1" THEN [f EXCEPT !.mask = ConstantMask(op.a)]
             ELSE [f EXCEPT !.zero = op.a = 0]
        [] op.code = "program_id" -> [f EXCEPT !.index = unit(op.a + 1, 0)]
        [] op.code = "range" -> [f EXCEPT !.index = unit(4, op.a)]
        [] op.code \in {"expand_dims", "broadcast"} ->
             [f EXCEPT !.mask = Arg(op, 1).mask,
                       !.index = IF Arg(op, 1).index = Nothing THEN Nothing
                                 ELSE Viewed(op, Arg(op, 1).index, Len(Arg(op, 1).shape))]
Leaves == {"constant", "program_id", "range", "expand_dims", "broadcast"}
RawFact(op, a, b, result) ==
  LET f == FactFor(op)
  IN  CASE op.code \in Leaves -> LeafFact(op)
        [] op.code \in Arithmetic /\ op.dt = "index" ->
             [f EXCEPT !.index = result, !.req = Requirement(op, a, b.k)]
        [] op.code = "compare" -> [f EXCEPT !.mask = CompareMask(op, result)]
        [] op.code = "select" -> [f EXCEPT !.mask = SelectMask(Arg(op, 1).mask, Arg(op, 2).mask, Arg(op, 3).mask)]
        [] op.code = "address" -> [f EXCEPT !.addr = AddressOf(op)]
        [] op.code = "load" -> [f EXCEPT !.addr = Arg(op, 1).addr]
        [] OTHER -> f
Learnt(op, a, b, result) ==
  [RawFact(op, a, b, result) EXCEPT !.index = IF @ = Nothing THEN @ ELSE Normal(@, op.shape, NoTrips)]

NextOp == Ops[at + 1]
ProveValue ==
  /\ importPc = "prove" /\ at < Len(Ops)
  /\ \E op \in {NextOp} :
     /\ op.code # "store"
     /\ \E a \in {IndexArg(op, 1)}, b \in {IndexArg(op, 2)} :
        \E result \in {IndexResult(op, a, b)} : \E why \in {ValueRefusal(op, result)} :
          IF why # Nothing THEN Refuse(why)
          ELSE \E fact \in {Learnt(op, a, b, result)} :
            IF fact.index # Nothing /\ Interval(fact.index, op.shape, NoTrips) = Nothing THEN Refuse(Coverage)
            ELSE /\ facts' = Define(facts, op.id, fact)
                 /\ meaning' = Define(meaning, op.id, Meant(op, TopEnvs))
                 /\ at' = at + 1 /\ UNCHANGED <<program, importPc, recovered, refusal>>

SameElement(loaded, pointer) ==
  /\ loaded.code = "load" /\ loaded.shape = pointer.shape
  /\ loaded.addr.rows = pointer.addr.rows /\ loaded.addr.cols = pointer.addr.cols

StoreRefusal(op) ==
  LET pointer == Arg(op, 1)
      written == Arg(op, 2)
      loaded(i) == facts[written.in[i]]
  IN  IF recovered # Nothing THEN Coverage
      ELSE IF pointer.addr.port # OutPorts[1] THEN Coverage
      ELSE IF ~AccessProved(pointer, Arg(op, 3).mask) THEN AccessRefusal(pointer)
      ELSE IF written.code \notin {"add", "mul"} THEN Unsupported
      ELSE IF ~SameElement(loaded(1), pointer) \/ ~SameElement(loaded(2), pointer) THEN Coverage
      ELSE IF loaded(1).addr.port = loaded(2).addr.port THEN Unsupported ELSE Nothing

ProveStore ==
  /\ importPc = "prove" /\ at < Len(Ops)
  /\ \E op \in {NextOp} :
     /\ op.code = "store"
     /\ \E why \in {StoreRefusal(op)} :
          IF why # Nothing THEN Refuse(why)
          ELSE LET written == Arg(op, 2)
                   port(i) == facts[written.in[i]].addr.port
               IN  /\ recovered' = [kind |-> written.code, ports |-> <<port(1), port(2)>>, output |-> OutPorts[1],
                                    tail |-> TailRequired]
                   /\ at' = at + 1 /\ UNCHANGED <<program, importPc, facts, meaning, refusal>>

Finish ==
  /\ importPc = "prove" /\ at = Len(Ops)
  /\ IF recovered = Nothing THEN Refuse(Coverage)
     ELSE importPc' = "imported" /\ UNCHANGED <<program, at, facts, meaning, recovered, refusal>>
-----------------------------------------------------------------------------
(* ContractionProof::run: the operations around the loop, the store, the     *)
(* loop with its body, the epilogue.                                         *)

Loop == program.loop
Arms == Len(Loop.in) - 2
Stores == SelectSeq(Ops, LAMBDA op : op.code = "store")
TopOps == SelectSeq(Ops, LAMBDA op : op.code # "store")
Shaped(id, shape, code) == [NoFact EXCEPT !.code = code, !.dt = "f32", !.shape = shape]

ContractionRefusal ==
  IF program.numerics \notin {"strict", "casts"} THEN Unsupported
  ELSE IF program.numerics = "casts" THEN Numerical
  ELSE IF HasDot \/ ~Looping \/ Len(Stores) # 1 \/ InPorts = <<>> \/ OutPorts = <<>> THEN Unsupported
  ELSE Nothing

\* Every loop result is in scope before the operations around the loop.
StartContraction ==
  /\ importPc = "contraction"
  /\ IF ContractionRefusal # Nothing THEN Refuse(ContractionRefusal)
     ELSE LET arm(id) == CHOOSE i \in DOMAIN Loop.results : Loop.results[i] = id
              ids == ToSet(Loop.results)
          IN  /\ facts' = [id \in ids \cup DOMAIN TensorFacts |->
                             IF id \in ids THEN Shaped(id, Loop.shape, "loop_result") ELSE TensorFacts[id]]
              /\ meaning' = [id \in ids |-> [x \in TopEnvs \X Lanes(Loop.shape) |-> <<"loop", arm(id)>>]]
              /\ importPc' = "evaluate" /\ UNCHANGED <<program, at, recovered, refusal>>

RaisedArg(op, i) == Aligned(Arg(op, i).index, Arg(op, i).shape, op.shape)
ExactDivision(e, d, shape, trips) ==
  LET range == Interval(ResidueOf(e, d), shape, trips) IN range # Nothing /\ range.lo >= 0 /\ range.hi < d

Affined(op) ==
  LET a == RaisedArg(op, 1)
      b == RaisedArg(op, 2)
  IN  CASE op.code = "add" -> Sum(a, b)
        [] op.code = "sub" -> Difference(a, b)
        [] op.code = "mul" -> Product(a, b)
        [] op.code = "div" -> QuotientOf(a, b.k)
        [] OTHER -> ResidueOf(a, b.k)

Evaluable(op, trips) ==
  LET b == RaisedArg(op, 2)
  IN  CASE op.code \in {"expand_dims", "broadcast"} ->
             Arg(op, 1).index # Nothing \/ Arg(op, 1).mask.kind = "constant"
        [] op.code \in Arithmetic \ {"ceildiv"} /\ op.dt = "index" ->
             /\ Arg(op, 1).index # Nothing /\ Arg(op, 2).index # Nothing
             /\ op.code \in {"div", "rem"} =>
                  Uniform(b) /\ b.k > 0 /\ ExactDivision(RaisedArg(op, 1), b.k, op.shape, trips)
             /\ Affined(op) # Nothing
        [] op.code = "address" ->
             /\ Arg(op, 2).index # Nothing /\ Arg(op, 3).index # Nothing
             /\ Arg(op, 2).num # Nothing /\ Arg(op, 3).num = Arg(op, 2).num /\ Arg(op, 3).div = Arg(op, 2).div
        [] op.code = "load" -> Arg(op, 1).code = "address" /\ Arg(op, 2).mask = ConstantMask(TRUE)
        [] OTHER -> op.code # "store"

Evaluated(op) ==
  LET f == FactFor(op)
  IN  CASE op.code \in Leaves -> LeafFact(op)
        [] op.code \in {"div", "rem"} /\ op.dt = "index" ->
             [f EXCEPT !.index = Affined(op), !.num = RaisedArg(op, 1), !.div = RaisedArg(op, 2).k]
        [] op.code \in {"add", "sub", "mul"} /\ op.dt = "index" -> [f EXCEPT !.index = Affined(op)]
        [] op.code = "address" ->
             [f EXCEPT !.addr = [port |-> Arg(op, 1).addr.port, rows |-> RaisedArg(op, 2), cols |-> RaisedArg(op, 3),
                                 reqs |-> <<>>],
                       !.num = Arg(op, 2).num, !.div = Arg(op, 2).div]
        [] op.code = "load" -> [f EXCEPT !.addr = Arg(op, 1).addr, !.div = Arg(op, 1).div]
        [] OTHER -> f

Evaluate(op, trips, envs) ==
  IF ~Evaluable(op, trips) THEN Refuse(Unsupported)
  ELSE /\ facts' = Define(facts, op.id, Evaluated(op))
       /\ meaning' = Define(meaning, op.id, Meant(op, envs))
       /\ at' = at + 1 /\ UNCHANGED <<program, importPc, recovered, refusal>>

EvaluateTop ==
  importPc = "evaluate" /\ at < Len(TopOps) /\ \E op \in {TopOps[at + 1]} : Evaluate(op, NoTrips, TopEnvs)

Matches(e, form, shape, trips) == Normal(e, shape, trips) = Normal(form, shape, trips)
AxisForm(axis, width) == Affine([i \in Terms |-> IF i = axis THEN width ELSE IF i = 3 + axis THEN 1 ELSE 0], 0)
ContractionForm(axis) == Affine([i \in Terms |-> IF i \in {6, 3 + axis} THEN 1 ELSE 0], 0)
OutputTile(f, shape, trips) ==
  Matches(f.addr.rows, AxisForm(1, shape[1]), shape, trips) /\ Matches(f.addr.cols, AxisForm(2, shape[2]), shape, trips)

TheStore == Stores[1]
StorePortRefusal ==
  LET pointer == Arg(TheStore, 1)
      out == OutPorts[Len(OutPorts)]
      shape == Tensor(out).shape
      tile == pointer.shape
  IN  IF pointer.code # "address" \/ pointer.addr.port # out THEN Unsupported
      ELSE IF Arg(TheStore, 3).mask # ConstantMask(TRUE) THEN Coverage
      ELSE IF Len(tile) # 2 \/ pointer.div # shape[2] THEN Unsupported
      ELSE IF ~OutputTile(pointer, tile, NoTrips) THEN Unsupported
      ELSE IF Grid[3] # 1 \/ Block[3] # 1 \/ tile # Tile THEN Coverage
      ELSE IF shape[1] # Grid[1] * tile[1] \/ shape[2] # Grid[2] * tile[2] THEN Coverage ELSE Nothing

RecognizeStore ==
  /\ importPc = "evaluate" /\ at = Len(TopOps)
  /\ IF StorePortRefusal # Nothing THEN Refuse(StorePortRefusal)
     ELSE importPc' = "loop" /\ UNCHANGED <<program, at, facts, meaning, recovered, refusal>>

OutShape == Tensor(OutPorts[Len(OutPorts)]).shape
Trips == [lower |-> facts[Loop.in[1]].index.k, upper |-> facts[Loop.in[2]].index.k, step |-> Loop.step]
Seed(arm) == facts[Loop.in[2 + arm]]
ZeroSeed(arm) == Seed(arm).zero /\ Seed(arm).code = "constant" /\ Seed(arm).shape = Tile
CallerSeed(arm) ==
  /\ Tensor(Seed(arm).addr.port).dir = "input" /\ Tensor(Seed(arm).addr.port).shape = OutShape
  /\ OutputTile(Seed(arm), Tile, Trips) /\ Seed(arm).div = OutShape[2]

Countable == \A i \in 1 .. 2 : facts[Loop.in[i]].index # Nothing /\ Uniform(facts[Loop.in[i]].index)
LoopRefusal ==
  IF ~Countable THEN Unsupported
  ELSE IF Trips.lower # 0 \/ Arms \notin 1 .. 2 \/ Loop.shape # Tile THEN Unsupported
  ELSE LET bad == {arm \in 1 .. Arms : ~ZeroSeed(arm)}
       IN  IF bad = {} THEN Nothing
           ELSE IF Seed(Min(bad)).code # "load" THEN Unsupported
           ELSE IF Arms # 1 THEN Numerical
           ELSE IF ~CallerSeed(1) THEN Unsupported ELSE Nothing

Iterations == {k \in 0 .. Trips.upper - 1 : k % Trips.step = 0}
LoopEnvs == Pids \X Iterations

\* The body sees the values around the loop and its own arguments.
EnterLoop ==
  /\ importPc = "loop"
  /\ IF LoopRefusal # Nothing THEN Refuse(LoopRefusal)
     ELSE LET ids == ToSet(Loop.args)
              index == [NoFact EXCEPT !.code = "induction", !.dt = "index",
                                      !.index = Affine([i \in Terms |-> IF i = 6 THEN 1 ELSE 0], 0)]
              arm(id) == CHOOSE i \in DOMAIN Loop.args : Loop.args[i] = id
              extended(f) == [x \in {<<<<e[1], k>>, l>> : e \in TopEnvs, k \in Iterations, l \in {x[2] : x \in DOMAIN f}} |->
                                f[<<x[1][1], 0>>, x[2]]]
          IN  /\ facts' = [id \in DOMAIN facts \cup ids |->
                             IF id \notin ids THEN facts[id]
                             ELSE IF arm(id) = 1 THEN index ELSE Shaped(id, Tile, "block_argument")]
              /\ meaning' = [id \in DOMAIN meaning \cup ids |->
                               IF id \notin ids THEN extended(meaning[id])
                               ELSE IF arm(id) = 1 THEN [x \in LoopEnvs \X {<<>>} |-> x[1][2]]
                               ELSE [x \in LoopEnvs \X Lanes(Tile) |-> <<"carried", arm(id) - 1>>]]
              /\ importPc' = "body" /\ at' = 0 /\ UNCHANGED <<program, recovered, refusal>>

EvaluateBody ==
  /\ importPc = "body" /\ at < Len(Loop.body)
  /\ \E op \in {Loop.body[at + 1]}, trips \in {Trips} : Evaluate(op, trips, LoopEnvs)

Dots == SelectSeq(Loop.body, LAMBDA op : op.code = "dot")
DotArg(arm, i) == facts[Dots[arm].in[i]]
PortOfDot(arm, i) == DotArg(arm, i).addr.port
ReducedExtent == Tensor(PortOfDot(1, 1)).shape[2]

\* Each arm is one dot, which adds to the arm's own value and is handed back.
Carried ==
  /\ Len(Dots) = Arms
  /\ \A arm \in 1 .. Arms : Dots[arm].id = Loop.yield[arm] /\ Dots[arm].in[3] = Loop.args[arm + 1]
WholeReduction == Trips.upper = ReducedExtent /\ ReducedExtent % Trips.step = 0
CanonicalLeft ==
  LET f == DotArg(1, 1)
      shape == <<Tile[1], Trips.step>>
  IN  /\ f.shape = shape /\ f.div = ReducedExtent
      /\ Matches(f.addr.rows, AxisForm(1, Tile[1]), shape, Trips)
      /\ Matches(f.addr.cols, ContractionForm(2), shape, Trips)
      /\ Tensor(f.addr.port).shape = <<OutShape[1], ReducedExtent>>
CanonicalRight(arm) ==
  LET f == DotArg(arm, 2)
      shape == <<Trips.step, Tile[2]>>
  IN  /\ f.code = "load" /\ Tensor(f.addr.port).shape = <<ReducedExtent, OutShape[2]>>
      /\ f.shape = shape /\ f.div = OutShape[2]
      /\ Matches(f.addr.rows, ContractionForm(1), shape, Trips)
      /\ Matches(f.addr.cols, AxisForm(2, Tile[2]), shape, Trips)

\* The product of the activated gate and the other projection.
Gated(id) ==
  LET product == facts[id]
      gate == facts[product.in[1]]
  IN  /\ product.code = "mul" /\ gate.code = "silu"
      /\ gate.in[1] = Loop.results[1] /\ product.in[2] = Loop.results[2]
Epilogue ==
  IF Arms = 1 THEN TheStore.in[2] = Loop.results[1]
  ELSE /\ Dots[2].in[1] = Dots[1].in[1] /\ CanonicalRight(2) /\ PortOfDot(2, 2) # PortOfDot(1, 2)
       /\ Gated(TheStore.in[2])

CallerAccumulator == IF ZeroSeed(1) THEN <<>> ELSE <<Seed(1).addr.port>>
RecognizeLoop ==
  /\ importPc = "body" /\ at = Len(Loop.body)
  /\ IF /\ Carried /\ DotArg(1, 1).code = "load" /\ WholeReduction
        /\ CanonicalLeft /\ CanonicalRight(1) /\ Epilogue
     THEN /\ recovered' = [kind |-> IF Arms = 1 THEN "matmul" ELSE "swiglu", lhs |-> PortOfDot(1, 1),
                           rhs |-> [arm \in 1 .. Arms |-> PortOfDot(arm, 2)], acc |-> CallerAccumulator,
                           output |-> OutPorts[Len(OutPorts)], K |-> ReducedExtent, anchor |-> Nothing]
          /\ importPc' = "confirm" /\ UNCHANGED <<program, at, facts, meaning, refusal>>
     ELSE Refuse(Unsupported)

\* Every declared input has one role, and nothing else reads what was matched.
RolesExact ==
  LET used == <<recovered.lhs>> \o recovered.rhs \o recovered.acc
  IN  Len(used) = Cardinality(ToSet(used)) /\ ToSet(used) = ToSet(InPorts)
Uses(id) ==
  LET lists == Append([i \in DOMAIN (Ops \o Loop.body) |-> (Ops \o Loop.body)[i].in], Loop.yield)
  IN  Cardinality({x \in (DOMAIN lists) \X (1 .. 4) : x[2] \in DOMAIN lists[x[1]] /\ lists[x[1]][x[2]] = id})
ReadOnce ==
  /\ \A arm \in DOMAIN Loop.results : Uses(Loop.results[arm]) = 1
  /\ \A arm \in DOMAIN Dots :
       /\ Uses(Dots[arm].id) = 1 /\ Uses(Dots[arm].in[2]) = 1 /\ Uses(Dots[arm].in[1]) = Arms
Confirm ==
  /\ importPc = "confirm"
  /\ IF RolesExact /\ ReadOnce
     THEN importPc' = "anchor" /\ UNCHANGED <<program, at, facts, meaning, recovered, refusal>>
     ELSE Refuse(Unsupported)

\* anchorScheduleFor: the largest tile whose accumulators and padded copies fit.
\* The machine is there and has a rank-three matrix fragment; without one the
\* contraction is refused, without a machine the anchor is a fixed schedule.
Fits(bm, bn) ==
  LET m == OutShape[1]
      n == OutShape[2]
      copies == (m \div bm) * (n \div bn)
  IN  /\ AccBytes # 0 => Arms * bm * bn * 4 <= AccBytes
      /\ Staging # 0 => copies * (m * recovered.K + recovered.K * n + 2 * m * n) * 4 <= Staging
Divisors(n) == {d \in 1 .. n : n % d = 0}
Anchors == {a \in Divisors(OutShape[1]) \X Divisors(OutShape[2]) : Fits(a[1], a[2])}
FirstAnchor == CHOOSE a \in Anchors : \A b \in Anchors : a[1] > b[1] \/ (a[1] = b[1] /\ a[2] >= b[2])
Anchor ==
  /\ importPc = "anchor"
  /\ IF Anchors = {} THEN Refuse(Unsupported)
     ELSE /\ recovered' = [recovered EXCEPT !.anchor = FirstAnchor] /\ importPc' = "imported"
          /\ UNCHANGED <<program, at, facts, meaning, refusal>>

ImportNext ==
  \/ Validate \/ CheckLaunch \/ ProveValue \/ ProveStore \/ Finish
  \/ StartContraction \/ EvaluateTop \/ RecognizeStore \/ EnterLoop \/ EvaluateBody
  \/ RecognizeLoop \/ Confirm \/ Anchor
-----------------------------------------------------------------------------
(* Properties                                                              *)

Imported == importPc = "imported"

\* Type invariant.
ImportTypeOK ==
  /\ at \in Nat
  /\ importPc \in {"idle", "validate", "launch", "prove", "contraction", "evaluate", "loop", "body", "confirm",
                   "anchor", "imported", "refused"}
  /\ (importPc = "refused") = (refusal # Nothing)

\* Whatever validation accepted can be imported without looking up a value
\* that is not there (values.at would throw).
OperandsThere ==
  /\ importPc = "prove" /\ at < Len(Ops) => ToSet(NextOp.in) \subseteq DOMAIN facts
  /\ importPc = "body" /\ at < Len(Loop.body) => ToSet(Loop.body[at + 1].in) \subseteq DOMAIN facts

(* The accesses the source makes: the lanes on which the mask is true.      *)
MaskId(op) == IF op.code = "load" THEN op.in[2] ELSE op.in[3]
Accesses == SelectSeq(Ops \o (IF Looping THEN Loop.body ELSE <<>>), LAMBDA op : op.code \in {"load", "store"})
Active(op) == {x \in DOMAIN meaning[op.in[1]] : meaning[MaskId(op)][x]}
Inside(element) ==
  LET shape == Tensor(PortNamed(element[1])).shape
  IN  element[2] \in 0 .. shape[1] - 1 /\ element[3] \in 0 .. shape[2] - 1
AccessesInside ==
  \A i \in DOMAIN Accesses : \A x \in Active(Accesses[i]) : Inside(meaning[Accesses[i].in[1]][x])

TheWrite == Accesses[CHOOSE i \in DOMAIN Accesses : Accesses[i].code = "store"]
\* An arm's writers, not counting the iterations of the loop twice.
Writers(r, c) ==
  {x \in Active(TheWrite) : x[1][2] = 0 /\ Tail(meaning[TheWrite.in[1]][x]) = <<r, c>>}
Element(port, r, c) == <<"element", <<Tensor(port).name, r, c>>>>
Written(x) == meaning[TheWrite.in[2]][x]

\* The recovered operation, element by element.
Whole(r, c) ==
  CASE recovered.kind = "matmul" -> <<"loop", 1>>
    [] recovered.kind = "swiglu" -> <<"mul", <<"silu", <<"loop", 1>>>>, <<"loop", 2>>>>
    [] OTHER -> <<recovered.kind, Element(recovered.ports[1], r, c), Element(recovered.ports[2], r, c)>>
ElementsExact ==
  LET shape == Tensor(recovered.output).shape
  IN  \A r \in 0 .. shape[1] - 1, c \in 0 .. shape[2] - 1 :
        Cardinality(Writers(r, c)) = 1 /\ \A x \in Writers(r, c) : Written(x) = Whole(r, c)

\* An arm of the loop adds, to a zero or the caller's element, the products of
\* the whole row and the whole column, each once.
ReductionExact ==
  recovered.kind \in {"matmul", "swiglu"} =>
    \A x \in Active(TheWrite), arm \in 1 .. Arms :
      LET r == meaning[TheWrite.in[1]][x][2]
          c == meaning[TheWrite.in[1]][x][3]
          k == x[1][2]
          turn == meaning[Loop.yield[arm]][x]
      IN  /\ turn[1] = "dot" /\ turn[2] = <<"carried", arm>>
          /\ \A j \in DOMAIN turn[3] :
               turn[3][j] = <<Element(recovered.lhs, r, k + j), Element(recovered.rhs[arm], k + j, c)>>
          /\ {i + j : i \in Iterations, j \in DOMAIN turn[3]} = 0 .. recovered.K - 1
          /\ Cardinality(Iterations) * Cardinality(DOMAIN turn[3]) = recovered.K
          /\ meaning[Loop.in[2 + arm]][x] =
               IF recovered.acc = <<>> THEN <<"literal", 0>> ELSE Element(recovered.acc[1], r, c)

IndicesFit ==
  ~Looping => \A id \in DOMAIN meaning : facts[id].dt = "index" => \A x \in DOMAIN meaning[id] : InWord(meaning[id][x])

(* Three places where a fact is stronger than the value it is about.        *)

\* orMasks takes the stronger of two conjunctions.
Absorbs(op) ==
  /\ op.code = "select" /\ op.dt = "i1" /\ Arg(op, 1).mask.kind = "bounds" /\ Arg(op, 3).mask.kind = "bounds"
  /\ Arg(op, 1).mask # Arg(op, 3).mask
\* A bound stays on its lane when the mask is viewed or broadcast to another.
MovesMask(op) ==
  \E i \in DOMAIN op.in :
    LET f == Arg(op, i)
        axis(j) == IF op.code = "select" THEN j + Len(op.shape) - Len(f.shape) ELSE ViewAxis(op, j)
    IN  /\ f.mask.kind = "bounds" /\ op.code \in {"select", "expand_dims", "broadcast"}
        /\ \E j \in DOMAIN f.shape : f.shape[j] # 1 /\ axis(j) # j
\* An inexact quotient or residue is used by other than the address of an access.
Loosens(op) ==
  \/ op.code = "ceildiv" /\ Provisional(Sum(IndexArg(op, 1), Constant(IndexArg(op, 2).k - 1)), IndexArg(op, 2).k, op.shape)
  \/ op.code # "address" /\ \E i \in DOMAIN op.in : Arg(op, i).req # Nothing
Trusting == ~Looping /\ \E i \in DOMAIN Ops : Absorbs(Ops[i]) \/ MovesMask(Ops[i]) \/ Loosens(Ops[i])

SourceComputes == AccessesInside /\ ElementsExact /\ ReductionExact /\ IndicesFit

\* An imported program is the operation it was recovered as: for every grid,
\* block, mask and index expression that the proof accepts, the source writes
\* each element of the output once with that operation's value, touches no
\* element outside a tensor and overflows no index.  Programs on which a fact
\* is stronger than its value (Trusting) are excepted.
ImportSound ==
  ImportTypeOK /\ OperandsThere /\ (Imported /\ ~Trusting => SourceComputes)

\* "every output element is written once and no access leaves the tensor".
TailsProved == Imported => AccessesInside /\ ElementsExact
=============================================================================
