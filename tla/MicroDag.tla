------------------------------ MODULE MicroDag ------------------------------
(***************************************************************************)
(* The performance model's extraction of events from a micro.kernel        *)
(* (lib/Perf/MicroDAG.cpp, MicroOpDAGBuilders.cpp) and the analysis of the  *)
(* extracted stream (SelectedKernelAnalysis.cpp, MicroCostModel.cpp).       *)
(*                                                                         *)
(* The kernel is a tree of operations: loops are unrolled iteration by     *)
(* iteration, and every leaf emits the events its handler describes.  The  *)
(* walk is the recursion of walkBlock and walkLoop with an explicit stack. *)
(* A type is a record [tile, shape, dtype, width, raw, layout, memory,     *)
(* owner] (TileInfo): width is the element's bytes if it is a micro dtype, *)
(* raw if it is any float or integer; an extent may be Dynamic.  An index  *)
(* expression is [n, iv, of]: the constant n, or min(n, of - iv) of an     *)
(* induction variable.                                                     *)
(***************************************************************************)
EXTENDS Integers, FiniteSets, SequencesExt

CONSTANTS
  MicroKernels,     \* the kernels analysed
  Machine,     \* [memories, links, computes, setup, wait, barrier, owners]
  SlotsOf,     \* slots of every engine, owner and transfer engine of Machine
  MaxEvents,   \* kMaxEvents
  MaxWord      \* the largest 64-bit count

VARIABLES
  micro,       \* [body, routes, timed, coverage, strict]
  progress,    \* "walk", "built", "schedule", "reported" or "failed"
  frames,      \* the blocks being walked, outermost first
  events,      \* dag.events; event k of the code is events[k + 1]
  producers,   \* value -> the event that produced it
  planned,     \* the routes loadRoutes kept
  claimed,     \* the routes a movement without a stamp has taken
  routeOf,     \* op -> the links it is charged
  occurrences, \* op -> how often it was built
  shared,      \* <<connection, occurrence>> -> the events that share its time
  sited,       \* the ops whose storage is counted
  live,        \* memory -> bytes
  missing,     \* dag.incompleteReasons
  origin,      \* history: value -> the event that computed it, carried or not
  complete,    \* analysis.complete
  stream, turn, placed, waiting, start, finish, free, slot, spent, predicted, criticalId

schedState == <<stream, turn, placed, waiting, start, finish, free, slot, spent, predicted, criticalId>>
walkState == <<frames, events, producers, planned, claimed, routeOf, occurrences, shared, sited, live, missing, origin>>
dagVars == <<micro, progress, walkState, complete, schedState>>

Sched == INSTANCE EventSchedule WITH
  Resources <- DOMAIN SlotsOf \cup {"dma", "sync"}, NoOwner <- "", Width <- SlotsOf, Streams <- {},
  ev <- stream, phase <- turn

DynamicExtent == -1
NoType == [tile |-> FALSE, shape |-> <<>>, dtype |-> "", width |-> 0, raw |-> 0, layout |-> "", memory |-> "", owner |-> ""]

Product(s) == FoldLeft(LAMBDA a, b : a * b, 1, s)
HasDynamic(t) == DynamicExtent \in Range(t.shape)
Elements(t) == IF t.shape = <<>> \/ (\E d \in Range(t.shape) : d <= 0) THEN 0 ELSE Product(t.shape)
Bytes(t) == Elements(t) * t.width
CeilDiv(a, b) == (a + b - 1) \div b
Max2(a, b) == IF a >= b THEN a ELSE b

\* Measured durations are given in half cycles: ceil(h / 2).
Ceil(h) == CeilDiv(h, 2)

\* checkedMulUnsigned over a list: Overflow once a product leaves the word.
Overflow == -1
CheckedProduct(s) ==
  FoldLeft(LAMBDA a, b : IF a = Overflow \/ a * b > MaxWord THEN Overflow ELSE a * b, 1, s)

\* evaluateShapeIndex under the enclosing induction values.
Evaluable(x, facts) == x.iv = "" \/ x.iv \in DOMAIN facts
Evaluate(x, facts) ==
  IF x.iv = "" THEN x.n ELSE IF x.of - facts[x.iv] < x.n THEN x.of - facts[x.iv] ELSE x.n

-----------------------------------------------------------------------------
(* What the machine answers *)

MemoriesOf(kind) == SelectSeq(Machine.memories, LAMBDA m : m.kind = kind)
KindOf(node) == LET of == SelectSeq(Machine.memories, LAMBDA m : m.id = node)
                IN  IF of = <<>> THEN "" ELSE of[1].kind
LinkBetween(from, to) == SelectSeq(Machine.links, LAMBDA l : l.src = from /\ l.dst = to)
LinkByKinds(from, to) == SelectSeq(Machine.links, LAMBDA l : KindOf(l.src) = from /\ KindOf(l.dst) = to)
ComputeNamed(id) == SelectSeq(Machine.computes, LAMBDA c : c.id = id)
ComputesOf(kind) == SelectSeq(Machine.computes, LAMBDA c : c.kind = kind)
OwnEngines(exec, kind) == SelectSeq(Machine.computes, LAMBDA c : c.at = exec /\ c.kind = kind)

\* The path's own figures where it has them, else the slower end's latency and
\* the destination's rate; one engine set-up either way.
CopyCycles(src, dst, bytes) ==
  LET a == MemoriesOf(src)[1]
      b == MemoriesOf(dst)[1]
      path == LinkByKinds(src, dst)
      latency == IF path # <<>> /\ path[1].latency > 0 THEN path[1].latency ELSE Max2(a.latency, b.latency)
      rate == IF path # <<>> /\ path[1].rate > 0 THEN path[1].rate ELSE b.rate
  IN  latency + Machine.setup + (IF rate > 0 THEN CeilDiv(bytes, rate) ELSE 0)

HopCycles(link, bytes) == link.latency + (IF link.rate > 0 THEN CeilDiv(bytes, link.rate) ELSE 0)

Lanes(engine, dtype) == IF dtype \in DOMAIN engine.lanes THEN engine.lanes[dtype] ELSE 0

VectorCycles(engine, dtype, elements) ==
  CeilDiv(elements, Max2(1, Lanes(engine, dtype))) * Max2(1, engine.issue)

\* The largest fragment of the shape's rank (the first among equals) is issued
\* as often as it takes to cover the shape.
MmaCycles(engine, shape, flops) ==
  LET fits == SelectSeq(engine.shapes, LAMBDA f : Len(f) = Len(shape))
      best == FoldLeft(LAMBDA a, f : IF a = <<>> \/ Product(f) > Product(a) THEN f ELSE a, <<>>, fits)
  IN  IF engine.throughput > 0 THEN CeilDiv(flops, engine.throughput)
      ELSE IF best = <<>> THEN Max2(1, engine.issue)
      ELSE Product([i \in DOMAIN shape |-> CeilDiv(shape[i], best[i])]) * Max2(1, engine.issue)

\* No figure is guessed: what cannot be counted or costed is an error.
ContractionCycles(engine, shape, acc) ==
  IF (\E d \in Range(shape) : d <= 0) \/ CheckedProduct(shape \o <<2>>) = Overflow THEN Overflow
  ELSE IF engine.throughput > 0 \/ engine.kind = "matrix_engine"
    THEN MmaCycles(engine, shape, 2 * Product(shape))
  ELSE IF engine.kind # "vector_engine" \/ Lanes(engine, acc) = 0 THEN Overflow
  ELSE CheckedProduct(<<shape[1], shape[3], CeilDiv(shape[2], Lanes(engine, acc)), Max2(1, engine.issue)>>)

\* An engine that is asked for must exist; else the executor's own one of the
\* kind, else the machine's first.
PickEngine(kind, requested, exec) ==
  IF requested # "" THEN ComputeNamed(requested)
  ELSE IF exec # "" /\ OwnEngines(exec, kind) # <<>> THEN <<OwnEngines(exec, kind)[1]>>
  ELSE IF ComputesOf(kind) # <<>> THEN <<ComputesOf(kind)[1]>> ELSE <<>>

\* A mapped contraction runs on the one engine its record selects, attached to
\* the executor it selects, whatever else the op says.
PickContraction(op) ==
  LET id == IF op.vec # "" THEN op.vec ELSE op.mat
      kind == IF op.vec # "" THEN "vector_engine" ELSE "matrix_engine"
  IN  IF ~op.mapped THEN PickEngine("matrix_engine", op.engine, "")
      ELSE IF op.vec # "" /\ op.mat # "" THEN <<>>
      ELSE SelectSeq(ComputeNamed(id),
                     LAMBDA c : /\ c.kind = kind /\ op.exec # "" /\ c.at = op.exec
                                /\ op.engine \in {"", id})

-----------------------------------------------------------------------------
(* Planned routes *)

\* The first link of every pair of consecutive nodes, or <<>> when one is missing.
RouteLinks(nodes) ==
  IF \A i \in 1 .. Len(nodes) - 1 : LinkBetween(nodes[i], nodes[i + 1]) # <<>>
    THEN [i \in 1 .. Len(nodes) - 1 |-> LinkBetween(nodes[i], nodes[i + 1])[1]]
    ELSE <<>>

\* Routes of the plan that the machine can carry; the others are dropped.
LoadRoutes(declared) ==
  SelectSeq([i \in DOMAIN declared |->
               [id |-> declared[i].id, value |-> declared[i].value,
                moves |-> declared[i].kind \in {"", "transfer", "transfer_and_transform"},
                hops |-> RouteLinks(declared[i].nodes),
                src |-> declared[i].nodes[1], dst |-> Last(declared[i].nodes)]],
            LAMBDA r : r.hops # <<>> /\ KindOf(r.src) # "" /\ KindOf(r.dst) # "")

NoStamp == 0

\* The hop a copy records: its connection and the index on it.  A connection
\* declared twice is what its later declaration says.
HopOf(r, hop) == IF r.moves /\ hop \in 1 .. Len(r.hops) THEN <<r.hops[hop]>> ELSE <<>>
StampedHop(op) ==
  IF op.conn = NoStamp \/ ~(\E i \in DOMAIN planned : planned[i].id = op.conn) THEN <<>>
  ELSE HopOf(planned[Max({i \in DOMAIN planned : planned[i].id = op.conn})], op.hop)

ValueAgrees(op, r) == op.value # NoStamp /\ r.value = op.value

\* The first route with a leg of this source kind into the stamped node.
Legs(r, op, src) == SelectSeq(r.hops, LAMBDA l : l.dst = op.dstNode /\ KindOf(l.src) \in {"", src})
FirstLeg(found) == IF found = <<>> THEN <<>> ELSE <<found[1][1]>>
StampedNode(op, src) ==
  IF op.dstNode = "" THEN <<>>
  ELSE FirstLeg(SelectSeq([i \in DOMAIN planned |->
                             IF planned[i].moves /\ (op.value = NoStamp \/ ValueAgrees(op, planned[i]))
                               THEN Legs(planned[i], op, src) ELSE <<>>],
                          LAMBDA legs : legs # <<>>))

\* An unstamped movement takes a whole route between its kinds: the one of its
\* value, else the one between the only nodes of the kinds, else the next.
Sole(i, from, to) == /\ Len(from) = 1 /\ Len(to) = 1
                     /\ planned[i].src = from[1].id /\ planned[i].dst = to[1].id
Preferred(open, byValue, sole) ==
  IF byValue # {} THEN {Min(byValue)} ELSE IF sole # {} THEN {Min(sole)}
  ELSE IF open # {} THEN {Min(open)} ELSE {}
ChooseRoute(op, src, dst, open) ==
  Preferred(open, {i \in open : ValueAgrees(op, planned[i])},
            {i \in open : Sole(i, MemoriesOf(src), MemoriesOf(dst))})
OpenRoutes(src, dst) == {i \in DOMAIN planned \ claimed : /\ planned[i].moves
                           /\ KindOf(planned[i].src) = src /\ KindOf(planned[i].dst) = dst}
Whole(take) == [links |-> IF take = {} THEN <<>> ELSE planned[Min(take)].hops, take |-> take]

FirstMatch(op, src, dst, hop, leg) ==
  IF hop # <<>> THEN [links |-> hop, take |-> {}]
  ELSE IF leg # <<>> THEN [links |-> leg, take |-> {}]
  ELSE Whole(ChooseRoute(op, src, dst, OpenRoutes(src, dst)))

\* The links a movement is charged, and the route it claims by that; an op
\* that a loop repeats keeps what it was given first.
MatchRoute(op, src, dst) ==
  IF op.id \in DOMAIN routeOf THEN [links |-> routeOf[op.id], take |-> {}]
  ELSE FirstMatch(op, src, dst, StampedHop(op), StampedNode(op, src))

-----------------------------------------------------------------------------
(* Handlers.  A handler's outcome: whether it fails, the events it emits in a *)
(* chain, what makes the stream incomplete, the storage it materializes, the  *)
(* links it was charged and the route it took.                                *)

Nothing == [fail |-> FALSE, emits |-> <<>>, why |-> {}, keep |-> [memory |-> "", bytes |-> 0],
            move |-> FALSE, links |-> <<>>, take |-> {}]
Failure == [Nothing EXCEPT !.fail = TRUE]

MemoryOf(v, type) == IF type.memory # "" THEN type.memory
                     ELSE IF v \in DOMAIN producers THEN events[producers[v]].mem ELSE ""

Unsizable(t) == IF HasDynamic(t) THEN {"dynamic"}
                ELSE IF Elements(t) > 0 /\ Bytes(t) = 0 THEN {"dtype"} ELSE {}

ZeroEvent == [kind |-> "", res |-> "", name |-> "", pool |-> "", owner |-> "", work |-> 0, bytes |-> 0,
              from |-> 0, into |-> 0, fill |-> 0, cycles |-> 0, src |-> "", mem |-> ""]

\* requireReachable: within one kind a copy needs two distinct nodes.
Reachable(op, src, dst) == src # dst \/ (op.srcNode # "" /\ op.dstNode # "" /\ op.srcNode # op.dstNode)

\* What a movement handler asks for: the spaces and types, and the bytes read
\* and written where they are not those of the whole value.
NoClip == [clipped |-> FALSE, from |-> 0, into |-> 0, fill |-> 0]
Clip(from, into, fill) == [clipped |-> TRUE, from |-> from, into |-> into, fill |-> fill]
Job(kind, src, to) == [fail |-> FALSE, kind |-> kind, src |-> src, to |-> to, clip |-> NoClip, why |-> {}]

Hop(job, name, s, d, elements, read, write, cycles) ==
  [ZeroEvent EXCEPT !.kind = job.kind, !.res = "dma", !.name = name, !.work = elements,
     !.bytes = read, !.from = read, !.into = write, !.fill = job.clip.fill, !.cycles = cycles,
     !.src = s, !.mem = d, !.owner = job.to.owner]
OverLink(job, l, elements, read, write, cycles) ==
  Hop(job, IF l.engines = <<>> THEN "dma" ELSE l.engines[1], KindOf(l.src), KindOf(l.dst),
      elements, read, write, cycles)

\* The links of the route, else the machine's own link for a mapped copy, else
\* the abstract pool.
Hops(op, job, links, over, elements, read, write) ==
  IF links # <<>>
    THEN [h \in DOMAIN links |->
            OverLink(job, links[h], elements, read, write, HopCycles(links[h], Max2(read, write)))]
  ELSE IF over # <<>>
    THEN <<OverLink(job, over[1], elements, read, write, CopyCycles(job.src, op.dst, Max2(read, write)))>>
  ELSE <<Hop(job, "dma", job.src, op.dst, elements, read, write, CopyCycles(job.src, op.dst, Max2(read, write)))>>

Charged(op, job, match, elements, read, write) ==
  [Nothing EXCEPT
     !.emits = Hops(op, job, match.links,
                    IF op.mapped /\ job.src # op.dst THEN LinkByKinds(job.src, op.dst) ELSE <<>>,
                    elements, read, write),
     !.why = job.why \cup (IF job.clip.clipped THEN {} ELSE Unsizable(op.from) \cup Unsizable(job.to)),
     !.keep = [memory |-> op.dst, bytes |-> write],
     !.move = TRUE, !.links = match.links, !.take = match.take]

Sizing(op, job, match, info) ==
  Charged(op, job, match, Elements(info),
          IF job.clip.clipped THEN job.clip.from ELSE Bytes(info),
          IF job.clip.clipped THEN job.clip.into ELSE Bytes(info))

\* buildCopyOp
Movement(op, job) ==
  IF job.fail \/ MemoriesOf(job.src) = <<>> \/ MemoriesOf(op.dst) = <<>> \/ ~Reachable(op, job.src, op.dst)
    THEN Failure
    ELSE Sizing(op, job, MatchRoute(op, job.src, op.dst), IF Elements(job.to) > 0 THEN job.to ELSE op.from)

WithReason(o, reason) == [o EXCEPT !.why = @ \cup {reason}]

\* evaluatedExtents: an extent that is unknown or negative leaves the whole tile.
ExtentsKnown(sizes, facts) == \A x \in Range(sizes) : Evaluable(x, facts) /\ Evaluate(x, facts) >= 0
EvaluatedExtents(sizes, facts) == [i \in DOMAIN sizes |-> Evaluate(sizes[i], facts)]

\* buildTileLoad: a clipped load reads the valid rectangle and fills the tile.
ClippedLoad(job, valid, to) ==
  IF \/ Len(valid) # Len(to.shape) \/ \E i \in DOMAIN valid : valid[i] > to.shape[i]
     \/ CheckedProduct(valid \o <<to.width>>) = Overflow THEN [job EXCEPT !.fail = TRUE]
  ELSE [job EXCEPT !.clip = Clip(Product(valid) * to.width, Bytes(to), Elements(to) - Product(valid))]

LoadJob(op, job, facts) ==
  IF ~op.to.tile \/ HasDynamic(op.to) \/ Bytes(op.to) = 0 THEN WithReason(job, "capacity")
  ELSE IF ~ExtentsKnown(op.sizes, facts) THEN WithReason(job, "extent")
  ELSE ClippedLoad(job, EvaluatedExtents(op.sizes, facts), op.to)

\* buildTileStore: a clipped store writes the valid rectangle; a list of the
\* wrong rank is ignored.
ClippedStore(job, valid, from) ==
  IF \/ \E i \in DOMAIN valid : valid[i] > from.shape[i]
     \/ from.width = 0 \/ CheckedProduct(valid \o <<from.width>>) = Overflow THEN [job EXCEPT !.fail = TRUE]
  ELSE [job EXCEPT !.clip = Clip(Product(valid) * from.width, Product(valid) * from.width, 0)]

StoreJob(op, job, facts) ==
  IF op.sizes = <<>> THEN job
  ELSE IF ~ExtentsKnown(op.sizes, facts) THEN WithReason(job, "extent")
  ELSE IF Len(op.sizes) # Len(op.from.shape) THEN job
  ELSE ClippedStore(job, EvaluatedExtents(op.sizes, facts), op.from)

\* The space an operand is moved from: the one the op names, that of the value,
\* or where an untagged value must be.
Source(op, known, otherwise) == IF op.srcMem # "" THEN op.srcMem ELSE IF known = "" THEN otherwise ELSE known

\* buildTileLoad, buildTileAsyncCopy and buildAsyncCopy, buildTileStore and buildStore.
MoveJob(op, facts, known) ==
  CASE op.op = "load" -> LoadJob(op, Job("load", Source(op, known, "dram"), op.to), facts)
    [] op.op = "copy" -> Job("copy", Source(op, known, "dram"), op.to)
    [] op.op = "store" -> StoreJob(op, Job("store", Source(op, known, "sram"), NoType), facts)

\* noteAllocation, for micro.tile_alloc and micro.alloc.
NoteAllocation(op) ==
  IF HasDynamic(op.to) \/ Bytes(op.to) = 0 THEN [Nothing EXCEPT !.why = Unsizable(op.to)]
  ELSE IF op.dst = "" \/ MemoriesOf(op.dst) = <<>> THEN Nothing
  ELSE [Nothing EXCEPT !.keep = [memory |-> op.dst, bytes |-> Bytes(op.to)]]

\* buildLogicalTileOp: only two known layouts that differ are work.
Relayout(op, to, mem, engine) ==
  IF engine = <<>> THEN Failure
  ELSE [Nothing EXCEPT
          !.emits = <<[ZeroEvent EXCEPT !.kind = "view", !.res = "vector_engine", !.name = engine[1].id,
                         !.work = Elements(to), !.bytes = Bytes(to), !.owner = to.owner, !.mem = mem,
                         !.cycles = VectorCycles(engine[1], to.dtype, Elements(to)), !.src = op.from.memory]>>,
          !.keep = [memory |-> mem, bytes |-> Bytes(to)]]

LogicalTile(op, to) ==
  IF ~to.tile \/ to.layout = "" \/ op.from.layout \in {"", to.layout} THEN Nothing
  ELSE Relayout(op, to, IF to.memory = "" THEN op.from.memory ELSE to.memory,
                PickEngine("vector_engine", op.vec, op.exec))

SupportsTypes(engine, op) ==
  /\ engine.kind \in {"vector_engine", "matrix_engine"}
  /\ op.from.dtype \in engine.types /\ op.to.dtype \in engine.accs

\* buildMma: the valid part of the reduction is charged where it is known.
MmaEvent(op, engine, shape, cycles) ==
  IF cycles = Overflow THEN Failure
  ELSE [Nothing EXCEPT
          !.emits = <<[ZeroEvent EXCEPT !.kind = "mma", !.name = engine.id, !.pool = op.exec,
                         !.res = IF engine.kind = "matrix_engine" THEN "matrix_engine" ELSE "vector_engine",
                         !.work = Product(shape), !.cycles = cycles, !.mem = op.to.memory, !.owner = op.to.owner]>>]

Contraction(op, engine, k) ==
  IF \/ engine = <<>> \/ k < 0 \/ k > op.shape[3]
     \/ (op.mapped /\ ~SupportsTypes(engine[1], op)) THEN Failure
  ELSE MmaEvent(op, engine[1], <<op.shape[1], op.shape[2], k>>,
                ContractionCycles(engine[1], <<op.shape[1], op.shape[2], k>>, op.to.dtype))

Mma(op, facts) ==
  IF op.sizes = <<>> THEN Contraction(op, PickContraction(op), op.shape[3])
  ELSE IF Evaluable(op.sizes[1], facts) THEN Contraction(op, PickContraction(op), Evaluate(op.sizes[1], facts))
  ELSE WithReason(Contraction(op, PickContraction(op), op.shape[3]), "valid_k")

\* buildVector, buildReduce and buildGather; a reduction is charged for what it
\* reads, the others for what they write.
VectorWork(op, engine, info) ==
  IF engine = <<>> \/ (op.op = "gather" /\ ~op.known) THEN Failure
  ELSE [Nothing EXCEPT
          !.emits = <<[ZeroEvent EXCEPT !.kind = op.op, !.res = "vector_engine", !.name = engine[1].id,
                         !.pool = op.exec, !.work = Elements(info), !.mem = info.memory, !.owner = info.owner,
                         !.cycles = VectorCycles(engine[1], info.dtype, Elements(info))]>>]

\* estimateTransformCost refuses what it cannot size, an engine that is not a
\* vector engine, and a memory the engine does not see.
TransformCosted(engine, memory, t) ==
  LET nodes == SelectSeq(Machine.memories, LAMBDA m : memory \in {m.id, m.kind})
      node == SelectSeq(nodes, LAMBDA m : m.id = memory) \o nodes
  IN  /\ ~HasDynamic(t) /\ t.shape # <<>> /\ t.raw > 0
      /\ engine.kind = "vector_engine"
      /\ memory # "" => node # <<>> /\ engine.at \in node[1].seen

\* buildTransform: a named resource or memory wins over the stamped executor's.
TransformEvent(op, engine, src, mem, sized) ==
  IF engine = <<>> \/ ~TransformCosted(engine[1], mem, sized) THEN Failure
  ELSE [Nothing EXCEPT
          !.emits = <<[ZeroEvent EXCEPT !.kind = "transform", !.res = "vector_engine", !.name = engine[1].id,
                         !.pool = op.exec, !.work = Elements(sized), !.bytes = Product(sized.shape) * sized.raw,
                         !.src = src, !.mem = mem,
                         !.owner = IF op.to.owner = "" THEN op.from.owner ELSE op.to.owner,
                         !.cycles = IF op.identity THEN 0
                                    ELSE VectorCycles(engine[1], sized.dtype, Product(sized.shape))]>>,
          !.keep = [memory |-> mem, bytes |-> Product(sized.shape) * sized.raw]]

Transform(op, src) ==
  TransformEvent(op,
    IF op.engine # "" THEN SelectSeq(ComputeNamed(op.engine), LAMBDA c : c.kind = "vector_engine")
    ELSE PickEngine("vector_engine", "", op.exec),
    src, IF op.dst # "" THEN op.dst ELSE IF op.to.memory = "" THEN src ELSE op.to.memory,
    IF op.to.shape # <<>> THEN op.to ELSE op.from)

\* buildWait and buildBarrier.
Synchronize(op) ==
  IF op.op = "barrier" /\ ~op.known THEN Failure
  ELSE [Nothing EXCEPT
          !.emits = <<[ZeroEvent EXCEPT !.kind = op.op, !.res = "sync", !.name = "sync",
                         !.cycles = IF op.op = "wait" THEN Machine.wait ELSE Machine.barrier]>>]

\* An op without a handler: shape arithmetic is covered by the contract, a
\* constant costs nothing, anything else is missing from the stream.
Leaf(op) ==
  IF op.op \in {"constant", "shape_only"} \/ micro.coverage = "legacy" THEN Nothing
  ELSE WithReason(Nothing, "leaf")

Outcome(op, facts) ==
  CASE op.op \in {"load", "copy", "store"} -> Movement(op, MoveJob(op, facts, MemoryOf(op.ins[1], op.from)))
    [] op.op = "alloc" -> NoteAllocation(op)
    [] op.op = "view" -> LogicalTile(op, IF op.owner = "" THEN op.to
                                         ELSE [op.to EXCEPT !.owner = op.owner, !.tile = TRUE])
    [] op.op = "mma" -> Mma(op, facts)
    [] op.op \in {"vector", "reduce", "gather"} ->
         VectorWork(op, PickEngine("vector_engine", op.vec, op.exec), IF op.op = "reduce" THEN op.from ELSE op.to)
    [] op.op = "transform" -> Transform(op, MemoryOf(op.ins[1], op.from))
    [] op.op \in {"wait", "barrier"} -> Synchronize(op)
    [] OTHER -> Leaf(op)

-----------------------------------------------------------------------------
(* Event insertion *)

Occurrence(op) == (IF op.id \in DOMAIN occurrences THEN occurrences[op.id] ELSE 0) + 1

\* applyMeasuredDuration: a measured instance has its own time at once; the
\* events of a measured connection are collected to share theirs.
Untimed(e) == e.kind \in {"wait", "barrier"}
Timed(op, e) ==
  IF ~Untimed(e) /\ op.inst \in DOMAIN micro.timed.inst
    THEN [e EXCEPT !.cycles = Ceil(micro.timed.inst[op.inst])] ELSE e
Shares(op, e) == /\ ~Untimed(e) /\ op.inst \notin DOMAIN micro.timed.inst
                 /\ op.conn \in DOMAIN micro.timed.conn

EventDeps(st, e, data) ==
  (IF st.has /\ st.prevKind # e.res THEN {st.prev} ELSE {}) \cup st.pending \cup data

\* addEvent: program order only towards another kind of resource, what is
\* pending once, and the data.
AddEvent(acc, op, e) ==
  LET id == Len(acc.events) + 1
      st == acc.st
  IN  [events |-> Append(acc.events,
                    Timed(op, [e EXCEPT !.owner = IF e.owner = "" THEN st.owner ELSE e.owner])
                      @@ [deps |-> EventDeps(st, e, acc.data), op |-> op.id, path |-> st.path,
                          reads |-> acc.reads]),
       st |-> [st EXCEPT !.has = TRUE, !.prev = id, !.prevKind = e.res, !.pending = {}],
       data |-> {id}, reads |-> {}]

Emitted(op, st, emits, data, reads) ==
  FoldLeft(LAMBDA acc, e : AddEvent(acc, op, e),
           [events |-> events, st |-> st, data |-> data, reads |-> reads], emits)

Sources(of, vs) == {of[v] : v \in Range(vs) \cap DOMAIN of}

-----------------------------------------------------------------------------
(* The walk *)

Inner == frames[Len(frames)]
InWalk == progress = "walk" /\ frames # <<>>
AtOp == InWalk /\ Inner.pc <= Len(Inner.body)
Here == Inner.body[Inner.pc]
AtEnd(role) == InWalk /\ Inner.pc > Len(Inner.body) /\ Inner.role = role

FreshState == [has |-> FALSE, prev |-> 0, prevKind |-> "dma", pending |-> {}, owner |-> "", factor |-> 1,
               facts |-> <<>>, path |-> <<>>]
Frame(role, op, body, st) == [role |-> role, op |-> op, body |-> body, pc |-> 1, st |-> st, made |-> {},
                              turn |-> 0, trips |-> 1]

Structural == {"for", "spatial_for", "pipeline"}

\* noteStorage: once per op, never for the caller's buffers.
CountStorage(op, keep, factor) ==
  IF keep.memory \in {"", "dram"} \/ op.id \in sited THEN live
  ELSE [m \in DOMAIN live \cup {keep.memory} |->
          (IF m \in DOMAIN live THEN live[m] ELSE 0) + (IF m = keep.memory THEN keep.bytes * factor ELSE 0)]

\* Results are produced by the last event; a view without one stands for its source.
Produced(by, op, o, es) ==
  IF o.emits # <<>> THEN [v \in Range(op.outs) |-> Len(es)] @@ by
  ELSE IF op.op = "view" /\ op.ins[1] \in DOMAIN by THEN [v \in Range(op.outs) |-> by[op.ins[1]]] @@ by
  ELSE by

\* buildOp: one leaf, all its events, and what they leave behind.
BuildOp ==
  /\ AtOp /\ Here.op \notin Structural
  /\ \E op \in {Here} : \E o \in {Outcome(op, Inner.st.facts)} :
       IF o.fail THEN progress' = "failed" /\ UNCHANGED walkState
       ELSE \E r \in {Emitted(op, Inner.st, o.emits, Sources(producers, op.ins), Sources(origin, op.ins))} :
              /\ events' = r.events
              /\ frames' = [frames EXCEPT ![Len(frames)].pc = @ + 1, ![Len(frames)].st = r.st,
                              ![Len(frames)].made = @ \cup (Len(events) + 1 .. Len(r.events))]
              /\ producers' = Produced(producers, op, o, r.events)
              /\ origin' = Produced(origin, op, o, r.events)
              /\ claimed' = claimed \cup o.take
              /\ routeOf' = IF o.move THEN (op.id :> o.links) @@ routeOf ELSE routeOf
              /\ occurrences' = (op.id :> Occurrence(op)) @@ occurrences
              /\ shared' = IF o.emits # <<>> /\ Shares(op, o.emits[1])
                             THEN LET key == <<op.conn, Occurrence(op)>>
                                      old == IF key \in DOMAIN shared THEN shared[key] ELSE <<>>
                                      new == [i \in DOMAIN o.emits |-> Len(events) + i]
                                  IN  (key :> (old \o new)) @@ shared
                             ELSE shared
              /\ live' = CountStorage(op, o.keep, Inner.st.factor)
              /\ sited' = IF o.keep.memory \in {"", "dram"} THEN sited ELSE sited \cup {op.id}
              /\ missing' = missing \cup o.why
              /\ UNCHANGED <<planned, progress>>
  /\ UNCHANGED <<micro, complete, schedState>>

\* MUTANT of Independent: iterations spread over owners are kept in order.
IndependentPipelined(op) == \E i \in DOMAIN op.body : op.body[i].op = "pipeline" /\ op.body[i].stages >= 2

\* Iterations that carry no edge: spatial ones, and those of a loop around a
\* pipeline of two stages or more.
Independent(op) ==
  op.op = "spatial_for" \/ \E i \in DOMAIN op.body : op.body[i].op = "pipeline" /\ op.body[i].stages >= 2

StaticBounds(op) == op.lb.iv = "" /\ op.ub.iv = "" /\ op.step.iv = "" /\ op.step.n > 0
Trips(op) == IF ~StaticBounds(op) THEN 1
             ELSE IF op.ub.n <= op.lb.n THEN 0 ELSE CeilDiv(op.ub.n - op.lb.n, op.step.n)

KnownOwner(op) == op.op = "spatial_for" /\ op.map \in DOMAIN Machine.owners

\* The state an iteration starts in: the first one goes on where the loop
\* stands, a serial one waits for all events of the one before.
IterationState(op, outer, k, before) ==
  LET from == IF Evaluable(op.lb, outer.facts) /\ Evaluable(op.step, outer.facts)
                THEN Evaluate(op.lb, outer.facts) + k * Evaluate(op.step, outer.facts) ELSE 0
      base == IF k = 0 THEN outer ELSE [FreshState EXCEPT !.pending = IF Independent(op) THEN {} ELSE before]
  IN  [base EXCEPT
         !.owner = IF KnownOwner(op) THEN op.map ELSE outer.owner,
         !.factor = outer.factor * (IF KnownOwner(op) THEN Max2(1, Machine.owners[op.map]) ELSE 1),
         !.facts = (op.iv :> from) @@ outer.facts,
         !.path = Append(outer.path, [loop |-> op.id, k |-> k, op |-> op.op,
                                     staged |-> \E p \in Range(op.body) : p.op = "pipeline" /\ p.stages >= 2])]

NextOp == [frames EXCEPT ![Len(frames)].pc = @ + 1]

\* History: what a loop or a pipeline hands on under other names.
Carry(to, from) == [v \in {to[i] : i \in {j \in DOMAIN to : from[j] \in DOMAIN origin}} |->
                      origin[from[CHOOSE j \in DOMAIN to : to[j] = v]]] @@ origin

\* walkLoop up to the first iteration; an empty loop leaves no trace.
EnterLoop ==
  /\ AtOp /\ Here.op \in {"for", "spatial_for"}
  /\ missing' = missing \cup (IF StaticBounds(Here) THEN {} ELSE {"bounds"})
                \cup (IF Trips(Here) > 0 /\ Here.op = "spatial_for" /\ ~KnownOwner(Here) THEN {"owner"} ELSE {})
  /\ IF Trips(Here) = 0
       THEN frames' = NextOp /\ origin' = Carry(Here.outs, Here.inits)
       ELSE /\ frames' = Append(frames, [Frame("loop", Here, Here.body, IterationState(Here, Inner.st, 0, {}))
                                           EXCEPT !.trips = Trips(Here)])
            /\ origin' = Carry(Here.args, Here.inits)
  /\ UNCHANGED <<micro, progress, events, producers, planned, claimed, routeOf, occurrences, shared, sited, live,
                 complete, schedState>>

Below == Len(frames) - 1

\* The end of an iteration: the next one, the end of the loop, or too many events.
EndIteration ==
  /\ AtEnd("loop")
  /\ \E op \in {Inner.op} : \E outer \in {frames[Below]} :
       IF Len(events) > MaxEvents THEN progress' = "failed" /\ UNCHANGED <<frames, origin>>
       ELSE /\ origin' = Carry(IF Inner.turn + 1 < Inner.trips THEN op.args ELSE op.outs, op.yields)
            /\ frames' = IF Inner.turn + 1 < Inner.trips
                 THEN [frames EXCEPT ![Below].made = @ \cup Inner.made,
                         ![Below + 1] = [Inner EXCEPT !.pc = 1, !.made = {}, !.turn = @ + 1,
                                           !.st = IterationState(op, outer.st, Inner.turn + 1, Inner.made)]]
                 ELSE Append(SubSeq(frames, 1, Below - 1),
                        [outer EXCEPT !.pc = @ + 1, !.made = @ \cup Inner.made,
                                      !.st.pending = Inner.made, !.st.has = FALSE])
            /\ UNCHANGED progress
  /\ UNCHANGED <<micro, events, producers, planned, claimed, routeOf, occurrences, shared, sited, live, missing,
                 complete, schedState>>

\* A pipeline multiplies the buffers of its body.
EnterPipeline ==
  /\ AtOp /\ Here.op = "pipeline"
  /\ frames' = Append(frames, Frame("pipeline", Here, Here.body,
                                    [Inner.st EXCEPT !.factor = @ * Max2(1, Here.stages),
                                                   !.path = Append(@, [loop |-> Here.id, k |-> 0, op |-> "pipeline", staged |-> FALSE])]))
  /\ UNCHANGED <<micro, progress, events, producers, planned, claimed, routeOf, occurrences, shared, sited, live, missing,
                 origin, complete, schedState>>

AfterPipeline(st, made) == [st EXCEPT !.pending = made, !.has = FALSE]

EndPipeline ==
  /\ AtEnd("pipeline")
  /\ origin' = Carry(Inner.op.outs, Inner.op.yields)
  /\ frames' = Append(SubSeq(frames, 1, Below - 1),
                 [frames[Below] EXCEPT !.pc = @ + 1, !.made = @ \cup Inner.made, !.st = AfterPipeline(@, Inner.made)])
  /\ UNCHANGED <<micro, progress, events, producers, planned, claimed, routeOf, occurrences, shared, sited, live, missing,
                 complete, schedState>>

\* applyMeasuredConnections: cumulative rounding in the proportion of the
\* static cycles, or evenly when they are all zero.
Weight(ids) == FoldLeft(LAMBDA a, id : a + events[id].cycles, 0, ids)
Prefix(ids, i, cycles) ==
  IF i = Len(ids) THEN cycles
  ELSE IF Weight(ids) > 0 THEN (cycles * Weight(SubSeq(ids, 1, i))) \div Weight(ids)
  ELSE (cycles * i) \div Len(ids)
Share(ids, i, cycles) == Prefix(ids, i, cycles) - (IF i = 1 THEN 0 ELSE Prefix(ids, i - 1, cycles))

Distributed ==
  [id \in DOMAIN events |->
     LET keys == {key \in DOMAIN shared : id \in Range(shared[key])}
     IN  IF keys = {} THEN events[id]
         ELSE LET key == CHOOSE key \in keys : TRUE
              IN  [events[id] EXCEPT !.cycles =
                     Share(shared[key], CHOOSE i \in DOMAIN shared[key] : shared[key][i] = id,
                           Ceil(micro.timed.conn[key[1]]))]]

\* DAGBuilder::run after the walk, and the strict caller's refusal.
FinishWalk ==
  /\ AtEnd("kernel")
  /\ events' = Distributed
  /\ frames' = <<>>
  /\ progress' = IF micro.coverage = "strict" /\ missing # {} THEN "failed" ELSE "built"
  /\ UNCHANGED <<micro, producers, planned, claimed, routeOf, occurrences, shared, sited, live, missing, origin,
                 complete, schedState>>

-----------------------------------------------------------------------------
(* The analysis of the stream *)

CostKind(kind) == IF kind \in {"mma", "vector", "reduce", "gather"} THEN "compute"
                  ELSE IF kind \in {"copy", "load", "store"} THEN "transfer"
                  ELSE IF kind \in {"view", "transform"} THEN "transform" ELSE "sync"

\* normalizedPlanEvent; the scheduler numbers events from 0.
Normalized == [id \in 0 .. Len(events) - 1 |->
                 [kind |-> CostKind(events[id + 1].kind), resource |-> events[id + 1].name,
                  owner |-> IF events[id + 1].pool = "" THEN events[id + 1].owner ELSE events[id + 1].pool,
                  cycles |-> events[id + 1].cycles, deps |-> {d - 1 : d \in events[id + 1].deps}]]

\* validateEventResources on the normalized stream.
Valid(s) ==
  /\ \A id \in DOMAIN s : Sched!ResourceModelled(s[id]) /\ s[id].deps \subseteq DOMAIN s \ {id}
  /\ \A S \in SUBSET DOMAIN s : S # {} => \E id \in S : s[id].deps \cap S = {}

\* analyzeSelectedDag up to the schedule: an incomplete stream is refused when
\* completeness is required, and scheduled with its reasons otherwise.
Analyze ==
  /\ progress = "built"
  /\ \E s \in {Normalized} :
       /\ complete' = (missing = {} /\ Valid(s))
       /\ IF micro.strict /\ ~complete'
            THEN progress' = "failed" /\ UNCHANGED schedState
            ELSE /\ progress' = "schedule" /\ turn' = "place"
                 /\ stream' = s /\ placed' = {}
                 /\ waiting' = [id \in DOMAIN s |-> s[id].deps]
                 /\ start' = [id \in DOMAIN s |-> 0] /\ finish' = [id \in DOMAIN s |-> 0]
                 /\ free' = [p \in Sched!Pools |-> [k \in Sched!Slots(p) |-> 0]]
                 /\ slot' = [id \in DOMAIN s |-> [p \in Sched!Pools |-> 1]]
                 /\ spent' = 0 /\ predicted' = 0 /\ criticalId' = 0
  /\ UNCHANGED <<micro, walkState>>

\* scheduleNormalizedEvents
Schedule ==
  /\ progress = "schedule"
  /\ Sched!Report \/ \E id \in DOMAIN stream : Sched!Place(id)
  /\ progress' = IF turn' = "done" THEN "reported" ELSE progress
  /\ UNCHANGED <<micro, walkState, complete>>

EmptySchedule ==
  /\ stream = <<>> /\ turn = "place" /\ placed = {} /\ waiting = <<>> /\ start = <<>> /\ finish = <<>>
  /\ free = <<>> /\ slot = <<>> /\ spent = 0 /\ predicted = 0 /\ criticalId = 0

DagInit ==
  /\ micro \in MicroKernels
  /\ progress = "walk"
  /\ frames = <<Frame("kernel", <<>>, micro.body, FreshState)>>
  /\ events = <<>> /\ producers = <<>> /\ origin = <<>>
  /\ planned = LoadRoutes(micro.routes) /\ claimed = {} /\ routeOf = <<>>
  /\ occurrences = <<>> /\ shared = <<>> /\ sited = {} /\ live = <<>> /\ missing = {}
  /\ complete = FALSE
  /\ EmptySchedule

DagNext == BuildOp \/ EnterLoop \/ EndIteration \/ EnterPipeline \/ EndPipeline \/ FinishWalk
             \/ Analyze \/ Schedule

DagSpec == DagInit /\ [][DagNext]_dagVars

-----------------------------------------------------------------------------
(* Reports *)

Cycles(kinds, res) ==
  FoldLeft(LAMBDA a, e : a + (IF e.kind \in kinds /\ e.res = res THEN e.cycles ELSE 0), 0, events)

\* MUTANT of EngineSlots: the machine's first engine of the kind stands for all.
EngineSlotsFirst(kind) == SlotsOf[ComputesOf(kind)[1].id]

\* totalSlots
EngineSlots(kind) == Max2(1, FoldLeft(LAMBDA a, c : a + SlotsOf[c.id], 0, ComputesOf(kind)))

\* computeL0StaticBound without its synchronization term: work over the slots
\* of the pools the schedule draws on.
Bound(kind) == CeilDiv(Cycles({"mma", "vector", "reduce", "gather", "transform", "view"}, kind), EngineSlots(kind))

-----------------------------------------------------------------------------
(* Properties *)

\* What an event has to wait for, directly or not.
Before == FoldLeft(LAMBDA acc, e : Append(acc, e.deps \cup UNION {acc[d] : d \in e.deps}), <<>>, events)

Under(path) == {id \in DOMAIN events : IsPrefix(path, events[id].path)}
Regions == UNION {{SubSeq(events[id].path, 1, n) : n \in 1 .. Len(events[id].path)} : id \in DOMAIN events}
Sibling(path, k) == [path EXCEPT ![Len(path)].k = k]

\* A serial iteration, and whatever comes first after a pipeline or a serial
\* loop, starts after all of it; iterations that are independent stay so, and
\* nothing an iteration did orders another one.
RegionsOrdered(before) ==
  \A path \in Regions : \E here \in {Under(path)} :
    LET outer == SubSeq(path, 1, Len(path) - 1)
        later == UNION {Under(Sibling(path, k)) : k \in path[Len(path)].k + 1 .. path[Len(path)].k + 3}
        next == {id \in Under(outer) \ here : id > Max(here)}
    IN  IF Last(path).op = "spatial_for" \/ Last(path).staged
          THEN \A e \in later : before[e] \cap here = {}
          ELSE next # {} => here \subseteq before[Min(next)]

\* The dependency rules of the extraction (MicroDAG.h): order is kept across
\* pipelines and serial loops, and is not invented across spatial or pipelined
\* iterations, however they are nested.
DagSound == progress = "built" => \E before \in {Before} : RegionsOrdered(before)

\* A reference for the walk: how often an op is reached, and the storage its
\* site holds, by the static structure alone.
RECURSIVE Sites(_, _, _)
Sites(body, times, factor) ==
  UNION {LET op == body[i] IN
         IF op.op = "pipeline" THEN Sites(op.body, times, factor * Max2(1, op.stages))
         ELSE IF op.op \in {"for", "spatial_for"}
           THEN Sites(op.body,
                      times * (IF StaticBounds(op) THEN Cardinality({k \in 0 .. op.ub.n : op.lb.n + k * op.step.n < op.ub.n})
                               ELSE 1),
                      factor * (IF KnownOwner(op) THEN Max2(1, Machine.owners[op.map]) ELSE 1))
         ELSE {[op |-> op, times |-> times, factor |-> factor]} : i \in DOMAIN body}

Moved(op) == Bytes(IF Elements(op.to) > 0 THEN op.to ELSE op.from)
Holds(op) == CASE op.op \in {"load", "copy"} -> [memory |-> op.dst, bytes |-> Moved(op)]
               [] op.op = "alloc" /\ MemoriesOf(op.dst) # <<>> -> [memory |-> op.dst, bytes |-> Bytes(op.to)]
               [] op.op = "view" /\ Cardinality({"", op.to.layout, op.from.layout}) = 3 ->
                    [memory |-> op.to.memory, bytes |-> Bytes(op.to)]
               [] op.op = "transform" -> [memory |-> IF op.dst # "" THEN op.dst ELSE op.to.memory, bytes |-> Bytes(op.to)]
               [] OTHER -> [memory |-> "", bytes |-> 0]

Held(sites, m) == FoldLeft(LAMBDA a, s : a + (IF s.times > 0 /\ Holds(s.op).memory = m THEN Holds(s.op).bytes * s.factor ELSE 0),
                           0, SetToSeq(sites))

\* Every occurrence of a movement is charged the same links, routes taken whole
\* belong to one op each, the events of a measured connection take together
\* exactly what was measured, and a buffer is counted once for its site however
\* often its loop runs.
ChargesSound ==
  progress = "built" =>
    /\ \A o \in DOMAIN routeOf :
         Cardinality({id \in DOMAIN events : events[id].op = o}) = occurrences[o] * Max2(1, Len(routeOf[o]))
    /\ \A id \in DOMAIN events : events[id].op \in DOMAIN routeOf /\ routeOf[events[id].op] # <<>> =>
         \E l \in Range(routeOf[events[id].op]) : KindOf(l.dst) = events[id].mem /\ KindOf(l.src) = events[id].src
    /\ Cardinality(claimed) <= Cardinality({o \in DOMAIN routeOf : routeOf[o] # <<>>})
    /\ \A key \in DOMAIN shared :
         Weight(shared[key]) = Ceil(micro.timed.conn[key[1]])
    /\ \E sites \in {Sites(micro.body, 1, 1)} :
         \A m \in {"sram", "acc"} : Held(sites, m) = IF m \in DOMAIN live THEN live[m] ELSE 0

\* A complete analysis has charged every iteration of every leaf, values are
\* computed before they are read unless a loop or a pipeline carries them, and
\* no schedule beats the static bound of a kind of engine.
ReportSound ==
  progress = "reported" =>
    /\ complete => \A s \in Sites(micro.body, 1, 1) :
         /\ s.times = IF s.op.id \in DOMAIN occurrences THEN occurrences[s.op.id] ELSE 0
         /\ s.op.op \notin {"view", "alloc", "constant", "shape_only"} =>
              Cardinality({id \in DOMAIN events : events[id].op = s.op.id}) >= s.times
    /\ origin = producers =>
         \A id \in DOMAIN events : \A d \in events[id].reads : finish[d - 1] <= start[id - 1]
    /\ \A kind \in {"matrix_engine", "vector_engine"} : Bound(kind) <= predicted

\* What an analysis charges and what it reports: every movement is charged
\* once on links of its own, also where loops repeat it, the report has every
\* iteration, and its schedule keeps the order of the data.
AnalysisSound == ChargesSound /\ ReportSound

\* "Data: an op depends on the event that produced each operand" (MicroDAG.h):
\* also when a loop or a pipeline hands the operand on.
CarriedValuesOrdered ==
  progress = "built" => \E before \in {Before} : \A id \in DOMAIN events : events[id].reads \subseteq before[id]
=============================================================================
