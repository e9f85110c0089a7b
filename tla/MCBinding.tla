------------------------------ MODULE MCBinding ------------------------------
(* What is bound to Micro IR: a covering plan to a mapped kernel, and the   *)
(* candidates of a tuning session to kernels.  Each is walked while the     *)
(* other rests.                                                             *)
EXTENDS PlanBinding, TuningSession

(* Small kernels and plans for PlanBinding, and what a binding promises.     *)

MCMemories == {"dram", "l2", "l1", "spad"}
MCLinks == {<<"dram", "l2">>, <<"l2", "l1">>, <<"l2", "dram">>}

N(cls, args) == [Blank EXCEPT !.cls = cls, !.args = args,
                              !.derives = (cls = 2), !.needs = (cls = 3)]
V(offset, arg) == [Blank EXCEPT !.kind = "view", !.offset = offset, !.args = <<arg>>]

C(kind, value, ports, route) ==
    [kind |-> kind, value |-> value, ports |-> ports, route |-> route, hops |-> <<>>,
     transform |-> IF kind \in {"both", "transform"} THEN "t" ELSE "",
     feeds |-> <<>>, semantics |-> "none", axis |-> FALSE, typed |-> TRUE]
G(feeds, ports, route, semantics) ==
    [C("reduce", feeds[1], ports, route) EXCEPT
        !.feeds = feeds, !.semantics = semantics, !.axis = (semantics = "concat")]

Hop(i, from, to, s, d) == [index |-> i, from |-> from, to |-> to, storage |-> <<s, d>>]
Near == <<"dram", "l2">>
Far == <<"dram", "l2", "l1">>
Sync(waits) == {[waits |-> waits, barrier |-> TRUE]}

Base == [kernel |-> <<>>, rank |-> <<>>, instance |-> <<>>, conns |-> <<>>, sync |-> {},
         allocations |-> {1, 2, 3}, tile |-> FALSE, contract |-> "executable",
         resolved |-> TRUE, materializer |-> TRUE]
On(kernel, conns) ==
    [Base EXCEPT !.kernel = kernel, !.conns = conns,
                 !.rank = [o \in DOMAIN kernel |-> 1], !.instance = [o \in DOMAIN kernel |-> o]]

\* A producer with a consumer of two inputs and another consumer, all direct.
Fan == <<N(1, <<0>>), N(2, <<1, 1>>), N(3, <<1>>)>>
\* Two consumers behind one view.
Shared == <<N(1, <<0>>), V(0, 1), N(2, <<2>>), N(3, <<2>>)>>
\* A consumer behind two views, the inner one at an offset.
Nested == <<N(1, <<0>>), V(1, 1), V(0, 2), N(2, <<3>>)>>
\* Two structurally identical producers and their consumer.
Twins == <<N(1, <<0>>), N(1, <<0>>), N(2, <<1, 2>>)>>
\* Two producers of different structure and a consumer of both.
Mixed == <<N(1, <<0>>), N(2, <<0>>), N(3, <<1, 2>>)>>

\* Plans for one fan-out: movements, transforms and their combinations.
FanPlans ==
    { <<C("direct", 1, <<<<2, 1>>>>, <<"dram">>), C("transfer", 1, <<<<3, 1>>>>, Far)>>,
      <<C("transfer", 1, <<<<2, 1>>, <<2, 2>>>>, Near), C("transfer", 1, <<<<3, 1>>>>, Far)>>,
      <<C("both", 1, <<<<2, 2>>>>, Far), C("replicate", 1, <<<<3, 1>>>>, Near)>>,
      <<C("transfer", 1, <<<<2, 1>>>>, Near), C("replicate", 1, <<<<3, 1>>, <<2, 1>>>>, Near)>>,
      <<C("transform", 1, <<<<2, 1>>>>, <<"dram">>), C("both", 1, <<<<3, 1>>>>, Near)>>,
      <<C("transfer", 1, <<<<2, 3>>>>, Near)>>,
      <<C("transfer", 2, <<<<3, 1>>>>, Near)>>,
      <<C("transfer", 9, <<<<3, 1>>>>, Near)>>,
      <<C("transform", 9, <<<<3, 1>>>>, <<>>)>>,
      <<C("transfer", 1, <<<<3, 1>>>>, <<"dram">>)>>,
      <<C("transfer", 1, <<<<3, 1>>>>, <<"dram", "gone">>)>>,
      <<C("transfer", 1, <<<<3, 1>>>>, <<"dram", "l2", "dram">>)>>,
      <<C("transfer", 1, <<<<3, 1>>>>, <<"dram", "l2", "spad">>)>>,
      <<[C("both", 1, <<<<3, 1>>>>, Near) EXCEPT !.transform = ""]>>,
      <<[C("transfer", 1, <<<<3, 1>>>>, Far) EXCEPT
            !.hops = <<Hop(1, "dram", "l2", 1, 2), Hop(2, "l2", "l1", 2, 3)>>]>>,
      <<[C("transfer", 1, <<<<3, 1>>>>, Far) EXCEPT
            !.hops = <<Hop(1, "dram", "l2", 1, 2), Hop(2, "l2", "l1", 2, 7)>>]>>,
      <<[C("transfer", 1, <<<<3, 1>>>>, Far) EXCEPT
            !.hops = <<Hop(1, "dram", "l2", 1, 2), Hop(2, "dram", "l1", 2, 7)>>]>>,
      <<[C("transfer", 1, <<<<3, 1>>>>, Far) EXCEPT !.hops = <<Hop(1, "dram", "l2", 1, 2)>>]>> }

Barriers == {{}, Sync({1}), Sync({2}), Sync({1, 2}), Sync({})}

GatherPlans ==
    { <<G(<<1, 2>>, <<<<3, 1>>>>, <<"dram">>, "sum")>>,
      <<G(<<1, 2>>, <<<<3, 1>>>>, <<"dram">>, "concat")>>,
      <<G(<<2, 1>>, <<<<3, 1>>, <<3, 2>>>>, <<"dram">>, "sum")>>,
      <<G(<<1, 2>>, <<<<3, 2>>>>, Near, "sum")>>,
      <<G(<<1, 2>>, <<<<3, 2>>>>, <<"dram", "l2", "spad">>, "sum")>>,
      <<G(<<1, 2>>, <<<<3, 2>>>>, <<"dram">>, "none")>>,
      <<G(<<1>>, <<<<3, 1>>>>, <<"dram">>, "sum")>>,
      <<[G(<<1, 2>>, <<<<3, 1>>>>, <<"dram">>, "sum") EXCEPT !.axis = TRUE]>>,
      <<[G(<<1, 2>>, <<<<3, 1>>>>, Near, "sum") EXCEPT !.typed = FALSE]>>,
      <<C("transfer", 2, <<<<3, 2>>>>, Near)>>,
      <<C("both", 1, <<<<3, 1>>>>, Near), C("transfer", 2, <<<<3, 2>>>>, Far)>> }

Binding(kernel, plan, sync) == [On(kernel, plan) EXCEPT !.sync = sync]
\* Barriers wait for connections of the plan.
Fits(b) == \A s \in b.sync : s.waits \subseteq DOMAIN b.conns

FanSetups == {b \in {Binding(Fan, plan, sync) : plan \in FanPlans, sync \in Barriers} : Fits(b)}
ContractSetups ==
    {[On(Fan, plan) EXCEPT !.contract = how[1], !.resolved = how[2], !.materializer = how[3]] :
        plan \in FanPlans,
        how \in {<<"executable", FALSE, TRUE>>, <<"executable", TRUE, FALSE>>,
                 <<"partial", FALSE, TRUE>>, <<"partial", TRUE, FALSE>>}}
ViewSetups ==
    {[On(kernel, <<conn>>) EXCEPT !.tile = tile] :
        kernel \in {Shared, Nested}, tile \in BOOLEAN,
        conn \in {C("transfer", 1, <<<<2, 1>>>>, Far), C("transform", 1, <<<<2, 1>>>>, <<>>)}}
    \cup {On(Shared, <<C("transfer", 1, <<<<2, 1>>>>, Near), C(kind, 1, <<<<3, 1>>>>, Far)>>) :
            kind \in {"direct", "transfer"}}
    \cup {On(Shared, <<C("transfer", 1, <<<<2, 1>>, <<3, 1>>>>, Near)>>)}
\* The twins may share an instance, and their records may sort either way.
GatherSetups ==
    {[On(kernel, plan) EXCEPT !.rank = how[1], !.instance = how[2]] :
        kernel \in {Twins, Mixed}, plan \in GatherPlans,
        how \in {<<<<1, 2, 1>>, <<1, 2, 3>>>>, <<<<2, 1, 1>>, <<1, 2, 3>>>>,
                 <<<<1, 2, 1>>, <<1, 1, 3>>>>}}
    \cup {[Binding(kernel, plan, Sync({1})) EXCEPT !.tile = TRUE] :
            kernel \in {Twins, Mixed}, plan \in GatherPlans}
MCSetups == FanSetups \cup ContractSetups \cup ViewSetups \cup GatherSetups

----------------------------------------------------------------------------
\* How a value reached an operand: where it started, the memories it was
\* copied to and the transforms it went through.
Delivery(v) ==
    Walk(LAMBDA d :
            IF d.at = 0 THEN d
            ELSE IF ops[d.at].kind = "copy"
                 THEN [d EXCEPT !.at = Root(ops[d.at].args[1]), !.path = <<ops[d.at].to>> \o @]
            ELSE IF ops[d.at].kind = "transform"
                 THEN [d EXCEPT !.at = Root(ops[d.at].args[1]),
                                !.transforms = <<ops[d.at].transform>> \o @]
            ELSE d,
         [at |-> Root(v), path |-> <<>>, transforms |-> <<>>])

Path(c) == IF Len(c.route) < 2 THEN <<>> ELSE Tail(c.route)
PortRead(port) == ops[MappedOp(port[1])].args[port[2]]

\* What connection c promises the operand v.
Keeps(c, v) ==
    IF c.kind = "reduce"
    THEN /\ Root(v) # 0 /\ ops[Root(v)].kind = "gather"
         /\ [i \in DOMAIN ops[Root(v)].args |-> Delivery(ops[Root(v)].args[i])]
              = [i \in DOMAIN c.feeds |->
                    [at |-> MappedOp(c.feeds[i]), path |-> Path(c), transforms |-> <<>>]]
    ELSE Delivery(v) = [at |-> MappedOp(c.value),
                        path |-> IF c.kind = "transform" THEN <<>> ELSE Path(c),
                        transforms |-> IF c.kind \in {"both", "transform"}
                                       THEN <<c.transform>> ELSE <<>>]

Moved == {c \in Range(setup.conns) : c.kind # "direct"}
MovedPorts == UNION {Range(c.ports) : c \in Moved}
\* Views an emitted chain's endpoint reads through.
SharedViews == {PortRead(p) : p \in MovedPorts} \cap {o \in InKernel : IsView(o)}

\* A copy's result is only read behind its wait, but for the transform, the
\* gather and the barrier of its own connection.
AwaitedReads ==
    \A o \in InKernel : \A i \in DOMAIN ops[o].args :
        LET v == ops[o].args[i]
        IN  (v # 0 /\ ops[v].kind = "copy" /\ ops[o].kind \notin {"wait", "barrier"}
                   /\ ~(ops[o].kind \in {"transform", "gather"} /\ ops[o].conn = ops[v].conn))
            => \E w \in InKernel : /\ ops[w].kind = "wait" /\ ops[w].args = <<v>>
                                   /\ Position(w) < Position(o)

\* The feeds of a gather in program order, none of them staged.
PlainGather(c) == Len(c.route) < 2 /\ \A i, j \in DOMAIN c.feeds :
                     i < j => Position(MappedOp(c.feeds[i])) < Position(MappedOp(c.feeds[j]))
OnlyPlainGathers == \A c \in Range(setup.conns) : c.kind = "reduce" => PlainGather(c)

BoundAsPlanned == phase = "bound" /\ edits = {} /\ Executable

\* A binding under the executable contract (bindPlan with the canonical
\* materializer) leaves every recorded endpoint of every connection reading
\* its own value, over exactly the memories of its route and through its
\* transform, whichever connection's copies it shares; it changes no operand
\* the plan does not name, except the ones behind a view it redirected for a
\* named one; no copy is read before it was awaited except by its own
\* connection's transform or gather; and every operand is defined before its
\* use unless a gather is staged or lists its feeds out of order.
BindingSound ==
    BoundAsPlanned =>
        /\ \A c \in Moved : \A p \in Range(c.ports) : Keeps(c, PortRead(p))
        /\ \A o \in Mapped : \A i \in DOMAIN ops[o].args :
              <<ops[o].node, i>> \notin MovedPorts
              => /\ ops[o].args[i] = setup.kernel[o].args[i]
                 /\ ~(ops[o].args[i] \in SharedViews)
                       => Root(ops[o].args[i]) = 0 \/ IsMapped(Root(ops[o].args[i]))
        /\ AwaitedReads
        /\ OnlyPlainGathers => Structural

\* The twins whose records sort against program order.
SwappedTwins ==
    \E o, p \in Mapped : /\ ops[o].cls = ops[p].cls /\ Position(o) < Position(p)
                         /\ ops[p].rank < ops[o].rank
\* A required barrier none of whose waited connections emitted one.
LostBarrier == ~BarriersPresent
\* An endpoint of a gather whose operand was a feed of another structure.
ForeignFeed ==
    \E c \in Moved : c.kind = "reduce" /\ \E p \in Range(c.ports) :
        LET was == setup.kernel[MappedOp(p[1])].args[p[2]]
        IN  ops[was].cls # ops[MappedOp(c.feeds[1])].cls
\* An endpoint behind two views.
NestedView == \E o \in DOMAIN setup.kernel :
                 /\ setup.kernel[o].kind = "view"
                 /\ setup.kernel[setup.kernel[o].args[1]].kind = "view"
Readable == OnlyPlainGathers /\ ~SwappedTwins /\ ~ForeignFeed /\ ~NestedView

\* Whatever was changed in the kernel after binding, an accepted kernel's
\* movements deliver what they claim: every endpoint their connection still
\* declares reads, over a beginning of its route, the value its record names
\* (through a transform at least a structural twin of it).
MovementsGenuine ==
    \A o \in Movements : \A p \in Range(routes[ops[o].conn].ports) :
        LET c == routes[ops[o].conn]
            d == Delivery(PortRead(p))
        IN  /\ d.path # <<>> => IsPrefix(d.path, Path(c))
            /\ d.at # 0
            /\ d.transforms = <<>> => ops[d.at].node = c.value
            /\ ops[d.at].cls = ops[MappedOp(c.value)].cls

\* verifyMappedMicroIR and decodeSelectedPlan against the binder: an untouched
\* executable binding is accepted and decodes to the plan it was made from,
\* unless a barrier was lost with a merged connection or the projection cannot
\* tell the kernel apart (Readable); an accepted kernel, changed or not, has
\* only genuine movements, and still has the source graph the plan was
\* selected for unless version, plan fields and record markers were all
\* removed; and what decodes after it was accepted places every node of the
\* kernel on a compute node its instance agrees on.
VerifiedSound ==
    /\ (phase = "decoded" /\ edits = {} /\ Executable /\ Readable) =>
          /\ ~LostBarrier => verdict = "accepted"
          /\ decoded # <<>> /\ decoded.conns = setup.conns
          /\ DOMAIN decoded.placed = {ops[o].node : o \in Mapped}
    /\ (phase \in {"verified", "decoded"} /\ verdict = "accepted") =>
          /\ MovementsGenuine
          /\ ~({"version", "hashes", "markers"} \subseteq edits) => meta.hash = SourceGraphHash
    /\ (phase = "decoded" /\ verdict = "accepted" /\ decoded # <<>>) =>
          \A o \in DOMAIN setup.kernel : setup.kernel[o].kind = "node" =>
              /\ ops[o].node \in DOMAIN decoded.placed
              /\ decoded.placed[ops[o].node] \in {"e1", "e2"}
-----------------------------------------------------------------------------
(* Small spaces on one machine with a vector and a matrix engine.            *)

I(s) == [i \in DOMAIN s |-> <<"i", s[i]>>]
S(s) == [i \in DOMAIN s |-> <<"s", s[i]>>]
Param(name, kind, choices, role) == [name |-> name, kind |-> kind, choices |-> choices, role |-> role]
Rule(kind, names) == [kind |-> kind, params |-> names]
OpOf(workload, params, rules, objectives) ==
  [name |-> "space", workload |-> workload, singleton |-> FALSE, params |-> params,
   constraints |-> rules, objectives |-> objectives, candidates |-> <<>>]

NoLanes == [t \in {} |-> 0]
MCTuningMachine ==
  [memories |-> <<[kind |-> "sram", capacity |-> 50, layouts |-> {"row_major"}],
                  [kind |-> "acc", capacity |-> 24, layouts |-> {}]>>,
   computes |-> <<[kind |-> "vector_engine", types |-> {"f16"}, accumulators |-> {"f32"},
                   lanes |-> [f32 |-> 2, f16 |-> 4], shapes |-> <<>>],
                  [kind |-> "matrix_engine", types |-> {"f16"}, accumulators |-> {"f32"},
                   lanes |-> NoLanes, shapes |-> <<<<1, 1, 1>>, <<2, 1, 1>>>>]>>,
   executors |-> <<[id |-> "c0", kind |-> "core", refines |-> {"worker"}, parent |-> ""],
                   [id |-> "l0", kind |-> "lane", refines |-> {}, parent |-> "c0"]>>,
   workerThreads |-> 2, maxOutstanding |-> <<1>>]

Extents(m, n, k) ==
  [extent |-> <<m, n, k>>, input |-> "f16", weight |-> "f16", accumulator |-> "f32", output |-> "f16"]

TileParams(bm, bn, bk) ==
  <<Param("BM", "integer", I(bm), ""), Param("BN", "integer", I(bn), ""), Param("BK", "integer", I(bk), "")>>
TileNames == <<"BM", "BN", "BK">>
TailParam == Param("tail", "tail_policy", S(<<<<"none">>, <<"pad">>, <<"bounded">>>>), "")
StagesParam == Param("pipeline_stages", "integer", I(<<1, 2>>), "")
TileRules ==
  <<Rule("sram_capacity", TileNames), Rule("acc_capacity", <<"BM">>), Rule("mma_compatible", TileNames),
    Rule("tail_supported", <<"tail">>), Rule("pipeline_live_tiles", <<"BK">>)>>
Objective(d, p, s) == [direction |-> d, primary |-> p, secondary |-> s]

\* Tiles that divide, overhang or exceed the workload, with every tail policy.
Tiles == OpOf("matmul", TileParams(<<1, 2, 4>>, <<1, 2>>, <<1, 2>>) \o <<TailParam, StagesParam>>, TileRules,
              <<Objective("minimize", "latency_cycles", <<"matrix_utilization">>)>>)
\* The same tiles of a fused workload, without any rule but the staged bytes.
Fused == OpOf("fused_swiglu", TileParams(<<1, 2, 4>>, <<2>>, <<1, 2>>) \o <<TailParam, StagesParam>>,
              <<Rule("pipeline_live_tiles", <<"BK">>)>>, <<>>)
\* Fragments, layouts, owners and paths, by name and by role.
Named ==
  OpOf("matmul",
       TileParams(<<2, 4>>, <<2>>, <<2>>)
       \o <<Param("frag", "fragment_shape", S(<<<<2, 1, 1>>, <<3, 1, 1>>, <<1, 1, 1>>>>), ""),
            Param("lay", "layout", S(<<<<"row_major">>, <<"blocked">>>>), "lhs"),
            Param("own", "owner_mapping", S(<<<<"worker", "lane">>, <<"lane", "worker">>, <<"core", "dsp">>>>), ""),
            Param("path", "memory_path", S(<<<<"dram", "sram">>, <<"sram", "dram">>, <<"dram", "sram", "acc">>>>), "")>>,
       <<Rule("tile_hierarchy_compatible", <<"frag">>), Rule("fragment_compatible", <<"frag">>),
         Rule("tail_supported", TileNames), Rule("layout_supported", <<"lhs">>), Rule("owner_supported", <<"own">>)>>,
       <<>>)
Threads == OpOf("matmul",
                TileParams(<<1>>, <<1>>, <<1>>)
                \o <<Param("num_threads", "integer", I(<<1, 3>>), ""),
                     Param("vector_width", "integer", I(<<2, 8>>), "")>>,
                <<Rule("mapping_extent", <<"num_threads">>), Rule("vector_width_supported", <<"vector_width">>)>>, <<>>)
Single == [OpOf("matmul", <<>>, <<>>, <<>>) EXCEPT !.singleton = TRUE]
Repeats == OpOf("matmul", <<Param("lay", "layout", S(<<<<"blocked">>, <<"blocked">>>>), "")>>, <<>>, <<>>)
Unsorted == OpOf("matmul", TileParams(<<2, 1>>, <<1>>, <<1>>), <<>>, <<>>)
Spills == OpOf("matmul", TileParams(<<1>>, <<1>>, <<1>>), <<>>, <<Objective("minimize", "capacity_spill_bytes", <<>>)>>)
Measurable == OpOf("matmul", TileParams(<<1, 2, 4>>, <<2>>, <<2>>), <<>>, <<>>)

StudyOf(spaces, symbol, shape, objective, mode, cap, provider, top, attempts, k) ==
  [ops |-> spaces, symbol |-> symbol, shape |-> shape, machine |-> MCTuningMachine, objective |-> objective,
   mode |-> mode, cap |-> cap, perfLevel |-> IF mode = "grid" THEN 1 ELSE 0, provider |-> provider,
   measureTop |-> top, maxAttempts |-> attempts, topK |-> k]
Static(op, shape) == StudyOf(<<op>>, "", shape, <<>>, "grid", <<>>, FALSE, 1, 0, 10)

MCStudies ==
  {Static(op, e) : op \in {Tiles, Fused}, e \in {Extents(4, 2, 2), Extents(3, 3, 2), Extents(4, 2, 3)}}
  \cup {Static(op, Extents(4, 2, 2)) : op \in {Named, Threads, Single, Repeats, Unsorted, Spills}}
  \cup {StudyOf(<<Tiles, Fused>>, s, Extents(4, 2, 2), <<>>, "grid", <<5>>, FALSE, 1, 0, 2) : s \in {"", "space"}}
  \cup {StudyOf(<<Measurable>>, "", Extents(4, 2, 2), <<>>, "random", cap, FALSE, 0, 0, 0) : cap \in {<<>>, <<0>>, <<2>>}}
  \cup {StudyOf(<<Measurable>>, "", Extents(4, 2, 2), <<o>>, "grid", <<>>, TRUE, top, a, k) :
          o \in {Objective("minimize", "measured_ns", <<>>), Objective("maximize", "measured_gflops", <<"measured_ns">>),
                 Objective("minimize", "latency_cycles", <<"dma_utilization">>)},
          top \in {0, 1, 2}, a \in {0, 2}, k \in {0, 1}}
  \cup {StudyOf(<<Measurable>>, "", Extents(4, 2, 2), <<Objective("minimize", "measured_ns", <<>>)>>, "grid", <<>>, FALSE, 1, 0, 0)}

\* A hash under which two tilings of Measurable collide.
MCId(c) ==
  IF "BM" \notin DOMAIN c THEN 0
  ELSE IF DOMAIN c = {"BM", "BN", "BK"} THEN c["BM"][2] % 3 ELSE c["BM"][2] + 3 * c["BK"][2]

\* Cheaper the larger the tile; a kernel with the widest tile and two stages
\* does not fit the analysis.
MCAnalyzeKernel(k, level) ==
  IF k.step[1] = 4 /\ k.stages = 2 THEN <<>>
  ELSE <<[l0 |-> [cycles |-> 20 \div k.step[1], dram |-> StagedBytes(k), sram |-> StagedBytes(k)],
          l1 |-> IF level = 0 THEN <<>>
                 ELSE <<[cycles |-> 24 \div k.step[1], matrix |-> k.step[3], dma |-> k.stages]>>]>>

Answer(kind, ns, gflops) == [kind |-> kind, ns |-> ns, gflops |-> gflops]
MCAnswers ==
  {Answer("error", <<>>, <<>>), Answer("miss", <<>>, <<>>), Answer("seen", <<0>>, <<>>),
   Answer("seen", <<1>>, <<0>>), Answer("seen", <<2>>, <<>>), Answer("seen", <<2>>, <<5>>)}
-----------------------------------------------------------------------------
IdleBinding ==
  /\ setup = (CHOOSE s \in Setups : TRUE) /\ phase = "idle"
  /\ order = <<>> /\ ops = <<>> /\ routes = <<>> /\ chains = <<>> /\ todo = <<>> /\ reports = <<>>
  /\ meta = [version |-> 0, hash |-> <<>>, materialized |-> TRUE, hashed |-> FALSE]
  /\ edits = {} /\ verdict = "none" /\ decoded = <<>>
IdleStudy ==
  /\ study = (CHOOSE s \in Studies : TRUE) /\ stage = "refused" /\ loaded = <<>> /\ odometer = <<>>
  /\ draws = 0 /\ points = <<>> /\ cursor = 1 /\ tally = EmptyTally

BindingInit == (Init /\ IdleStudy) \/ (IdleBinding /\ StudyInit)
BindingNext ==
  \/ Next /\ UNCHANGED studyVars
  \/ StudyNext /\ UNCHANGED vars
BindingSpec == BindingInit /\ [][BindingNext]_<<vars, studyVars>>
=============================================================================
