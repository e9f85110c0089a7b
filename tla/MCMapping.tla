------------------------------ MODULE MCMapping ------------------------------
(* The mapping layer: layout declarations, rules and the tables they give,   *)
(* the covering search over such tables, the tuning session that ranks its   *)
(* plans, the instantiation of a candidate's source, the evaluation of a     *)
(* proposal and the compilation of a plan.  Each part is walked from its own *)
(* initial states while the others rest, since they hand each other finished *)
(* results.                                                                  *)
EXTENDS CoveringSearch, MappedTuning, MCRules, MappedCompile, CandidateSource, PlanEvaluation, TLC

(* Four small workloads (a chain, a fan-out, a gather, and a value that      *)
(* enters a fused instance away from its lowest node) on a machine of three  *)
(* memories, under every mode and under caps that do and do not bite.        *)
CONSTANTS dram, sram, reg

MCCapacity == (dram :> 20) @@ (sram :> 6) @@ (reg :> 3)

Hop(c) == [via |-> {}, cost |-> c]
Over(m, c) == [via |-> {m}, cost |-> c]

MCReach ==
  (<<dram, sram>> :> <<Hop(2)>>) @@ (<<sram, dram>> :> <<Hop(2)>>)
  @@ (<<sram, reg>> :> <<Hop(1)>>) @@ (<<reg, sram>> :> <<Hop(1)>>)
  @@ (<<dram, reg>> :> <<Over(sram, 3), Hop(4)>>) @@ (<<reg, dram>> :> <<Over(sram, 3)>>)

MCSees == {<<dram, dram>>, <<sram, sram>>, <<reg, reg>>, <<dram, sram>>}

In1(ns, m, c, f) == [nodes |-> ns, mems |-> {m}, memory |-> m, cost |-> c, final |-> f]
V(ps, cs, b) == [producers |-> ps, consumers |-> cs, bytes |-> b]

Both(m) == [In1({3}, m, 1, 2) EXCEPT !.mems = {m, dram}]

Chain ==
  [values |-> <<V({1}, {2}, 2), V({2}, {2, 3}, 1)>>,
   table |-> << <<In1({1}, dram, 1, 3), In1({1}, sram, 2, 1), In1({1, 2}, sram, 2, 2)>>,
                <<In1({2}, sram, 1, 1), In1({2}, reg, 1, 1), In1({2, 3}, reg, 1, 4)>>,
                <<Both(sram)>> >>]

FanOut ==
  [values |-> <<V({1}, {2, 3}, 2), V({2}, {3}, 0), V({3}, {}, 1), V({3}, {}, 1)>>,
   table |-> << <<In1({1}, dram, 1, 2), In1({1}, reg, 1, 1)>>,
                <<In1({2}, sram, 1, 1), In1({2}, reg, 2, 1)>>,
                <<In1({3}, dram, 1, 1), In1({3}, reg, 1, 5), Both(sram)>> >>]

Gather ==
  [values |-> <<V({1, 2}, {3, 4}, 1), V({3}, {}, 1)>>,
   table |-> << <<In1({1}, dram, 1, 1), In1({1}, reg, 1, 2)>>, <<In1({2}, sram, 1, 1)>>,
                <<In1({3}, reg, 1, 1), In1({3}, sram, 1, 3)>>, <<In1({4}, reg, 1, 1)>> >>]

Inward ==
  [values |-> <<V({1}, {3}, 1), V({2}, {3}, 1)>>,
   table |-> << <<In1({1}, sram, 1, 1), In1({1, 3}, sram, 1, 2)>>,
                <<In1({2}, dram, 1, 2), In1({2, 3}, dram, 1, 1)>>,
                <<In1({3}, dram, 1, 1)>> >>]

Options ==
  {[mode |-> m, evaluator |-> j[1], refused |-> j[2], broken |-> j[3], budget |-> 12,
    maxRoutes |-> 3, maxChoices |-> c, beamWidth |-> w, topK |-> k] :
     m \in {"deterministic", "exact", "beam"},
     j \in {<<FALSE, {}, {}>>, <<TRUE, {<<1, 1>>}, {}>>, <<TRUE, {}, {<<3, 1>>}>>,
            <<TRUE, {<<2, 1>>, <<1, 2>>, <<1, 3>>}, {}>>},
     c \in {2, 20}, w \in {2, 40}, k \in {0, 2}}

Call(g, o) == g @@ o

MCSetups ==
  {Call(g, o) : g \in {Chain, FanOut, Gather, Inward}, o \in Options}
    \cup {[Call(g, o) EXCEPT !.budget = 5, !.maxRoutes = 1] :
            g \in {Chain, FanOut}, o \in {o \in Options : ~o.evaluator}}
-----------------------------------------------------------------------------
(* Two sessions over one store.  The third candidate's key collides with the   *)
(* first one's.                                                                *)
CONSTANTS k1, k2, k3

Plan(id, cycles, receipt, compiles) ==
  [id |-> id, cycles |-> cycles, receipt |-> receipt, compiles |-> compiles]
Cand(id, source, ps, key) == [id |-> id, source |-> source, plans |-> ps, key |-> key]

MCDigest == [k \in {k1, k2, k3} |-> IF k = k2 THEN 2 ELSE 1]

\* Three measurable candidates, one whose only valid plans come after the cut
\* or do not compile, and candidates that fail earlier.
Plain == <<Cand(3, "ok", <<Plan(1, 7, TRUE, TRUE)>>, k1),
           Cand(1, "ok", <<Plan(1, 5, TRUE, TRUE)>>, k2),
           Cand(2, "ok", <<Plan(1, 5, TRUE, TRUE)>>, k3)>>
Rough == <<Cand(3, "ok", <<Plan(1, 4, FALSE, TRUE), Plan(2, 5, TRUE, FALSE), Plan(3, 6, TRUE, TRUE)>>, k1),
           Cand(4, "legality", <<>>, k3), Cand(5, "source", <<>>, k3),
           Cand(6, "ok", <<Plan(1, 3, FALSE, TRUE)>>, k3),
           Cand(7, "ok", <<Plan(1, 3, TRUE, FALSE)>>, k3),
           Cand(1, "ok", <<Plan(1, 6, FALSE, TRUE), Plan(2, 8, TRUE, TRUE)>>, k2)>>

SessionOptions(metrics, provider, store, reuse, ps, attempts, top, k, backend) ==
  [metrics |-> metrics, provider |-> provider, store |-> store, reuse |-> reuse, plans |-> ps,
   maxAttempts |-> attempts, measureTop |-> top, topK |-> k, backend |-> backend]
Session(c, o) == [candidates |-> c, options |-> o]

MCSessions ==
  {Session(Plain, SessionOptions(<<"ns">>, "detailed", TRUE, TRUE, 2, a, t, k, TRUE)) :
     a \in {0, 2}, t \in {1, 3}, k \in {0, 1}}
  \cup {Session(Rough, SessionOptions(<<"ns", "rate">>, "detailed", TRUE, TRUE, p, 0, 2, 0, TRUE)) : p \in 0 .. 2}
  \cup {Session(c, SessionOptions(<<"cycles">>, p, FALSE, FALSE, 1, 0, 1, 0, b)) :
          c \in {Plain, Rough}, p \in {"none", "aggregate"}, b \in BOOLEAN}
  \cup {Session(Plain, SessionOptions(m, "aggregate", TRUE, FALSE, 1, 2, 2, 2, TRUE)) :
          m \in {<<"rate">>, <<"cycles", "rate">>}}
-----------------------------------------------------------------------------
(* Instances of CandidateSource: contracts at the edges of the validator,    *)
(* kernels that bind them well and badly, and a function whose roots two     *)
(* adapters share.                                                           *)

Const(n) == <<"constant", n>>
Sym(s) == <<"symbol", s>>
PortOf(n, dir, eff, shape) ==
  [name |-> n, direction |-> dir, effect |-> eff, shape |-> shape, element_type |-> "f32"]
V1 ==
  [version |-> 1, axes |-> ("m" :> Const(4)), symbols |-> <<>>, numerical_contract |-> "",
   required_primitives |-> <<"mma", "tile_load">>,
   ports |-> <<PortOf("a", "input", "read", <<Const(4), Const(8)>>), PortOf("d", "input", "none", <<Const(4), Const(8)>>),
               PortOf("o", "output", "write", <<Const(4), Const(8)>>)>>]
Within(min, max, multiple) == [min |-> min, max |-> max, multiple_of |-> multiple]
V2 ==
  [V1 EXCEPT !.version = 2, !.axes = ("m" :> Sym("M")), !.symbols = ("M" :> Within(0, <<>>, 1)),
             !.ports = <<PortOf("a", "input", "read", <<Sym("M"), Const(8)>>), PortOf("d", "input", "none", <<Const(0), Const(8)>>),
                         PortOf("o", "output", "write", <<Sym("M"), Const(8)>>)>>]
WithSymbol(b) == [V2 EXCEPT !.symbols = ("M" :> b)]
MCContracts ==
  {V1, V2, [V1 EXCEPT !.numerical_contract = "ulp2"],
   \* equal but for the order and repetition of the primitives
   [V1 EXCEPT !.required_primitives = <<"tile_load", "mma", "mma">>],
   [V1 EXCEPT !.required_primitives = <<"mma">>], [V1 EXCEPT !.version = 3], [V1 EXCEPT !.version = 0],
   [V1 EXCEPT !.ports[2].name = "a"], [V1 EXCEPT !.ports[1].shape = <<>>],
   [V1 EXCEPT !.ports[1].shape[1] = Const(0)], [V1 EXCEPT !.ports[1].shape[1] = Sym("M")],
   [V1 EXCEPT !.ports[1].shape[1] = Const(DynamicExtent)], [V1 EXCEPT !.ports[1].element_type = "f8"],
   [V1 EXCEPT !.axes = ("m" :> Const(-1))], [V1 EXCEPT !.symbols = ("M" :> Within(0, <<>>, 1))],
   [V2 EXCEPT !.axes = ("m" :> Const(-1))], [V2 EXCEPT !.axes = ("m" :> Sym(""))],
   [V2 EXCEPT !.axes = ("m" :> Sym("N")), !.symbols = ("M" :> Within(0, <<>>, 1)) @@ ("N" :> Within(0, <<>>, 1))],
   [V2 EXCEPT !.symbols = <<>>], WithSymbol(Within(-1, <<>>, 1)), WithSymbol(Within(4, <<3>>, 1)),
   WithSymbol(Within(4, <<>>, 0)), WithSymbol(Within(5, <<7>>, 4)), WithSymbol(Within(5, <<8>>, 4)),
   WithSymbol(Within(MaxInt, <<>>, 2)), WithSymbol(Within(MaxInt, <<>>, 1))}

Type(d1, dt) == [shape |-> <<d1, <<"static", 8>>>>, element_type |-> dt]
Static == Type(<<"static", 4>>, "f32")
Dynamic == Type(<<"dynamic">>, "f32")
Positional ==
  [inputs |-> <<Static, Static>>, results |-> <<Static>>, argument_bindings |-> <<>>, result_bindings |-> <<>>,
   used |-> {1}, numerical |-> <<>>, operations |-> {"mma", "tile_load", "add"}, nodes |-> {"mma", "tile_load"},
   retained |-> <<>>, original |-> <<"4x8">>, contractions |-> TRUE]
Arg(role, port) == [role |-> role, port |-> port]
ByName ==
  [Positional EXCEPT !.inputs = <<Static, Static, Static>>, !.used = {1, 2}, !.result_bindings = <<<<2>>>>,
     !.argument_bindings = <<<<Arg("input", 0), Arg("output", 2), Arg("input", 1)>>>>]
Args(k, args) == [k EXCEPT !.argument_bindings = <<args>>]
MCKernels ==
  {Positional, ByName,
   [Positional EXCEPT !.inputs = <<Dynamic, Type(<<"static", 0>>, "f32")>>, !.results = <<Dynamic>>],
   [Positional EXCEPT !.used = {1, 2}], [Positional EXCEPT !.results = <<>>],
   [Positional EXCEPT !.inputs[1] = Type(<<"static", 4>>, "i32")], [Positional EXCEPT !.inputs[1].shape = <<<<"static", 4>>>>],
   [Positional EXCEPT !.numerical = <<"ulp2">>], [Positional EXCEPT !.operations = {"mma"}],
   [Positional EXCEPT !.nodes = {"mma", "tile_load", "store"}],
   [Positional EXCEPT !.retained = EncodeContract(V1)], [Positional EXCEPT !.retained = EncodeContract(V2)],
   [Positional EXCEPT !.retained = <<[EncodeContract(V1)[1] EXCEPT !.version = VersionModulus + 1]>>],
   [Positional EXCEPT !.retained = <<("version" :> 1)>>], [Positional EXCEPT !.original = <<"2x2">>],
   Args(ByName, <<Arg("input", 0), Arg("input", 2), Arg("input", 1)>>),
   Args(ByName, <<Arg("input", 0), Arg("output", 2), Arg("input", 0)>>),
   Args(ByName, <<Arg("input", 0), Arg("output", 3), Arg("input", 1)>>),
   Args(ByName, <<Arg("input", 0), Arg("inout", 2), Arg("input", 1)>>),
   Args(ByName, <<Arg("input", 0), Arg("output", 2)>>),
   [ByName EXCEPT !.result_bindings = <<>>], [ByName EXCEPT !.result_bindings = <<<<0>>>>],
   [ByName EXCEPT !.result_bindings = <<<<7>>>>],
   [ByName EXCEPT !.result_bindings = <<<<2, 2>>>>, !.results = <<Static, Static>>]}

(* Search spaces and candidates. *)
Param(n, kind, role, choices) == [name |-> n, kind |-> kind, role |-> role, choices |-> choices]
TileM == Param("tm", "integer", <<>>, {<<"integer", 2>>, <<"integer", 4>>})
Layout == Param("lay", "layout", <<>>, {<<"symbol", "row">>})
NoBindings == [id |-> "c", values |-> <<>>, symbols |-> <<>>]
Tiled(n) == [id |-> "c", values |-> ("tm" :> n), symbols |-> ("lay" :> "row")]
TiledSpace == <<TileM, Layout>>
MCCandidates ==
  {Tiled(2), Tiled(4), Tiled(3), NoBindings, [Tiled(2) EXCEPT !.symbols = ("lay" :> "row") @@ ("tm" :> "x")],
   [Tiled(2) EXCEPT !.values = ("tm" :> 2) @@ ("tk" :> 1)]}

(* A module: a kernel, or a function of roots, with its tuning directives. *)
KernelItem(s, k) == [kind |-> "kernel", symbol |-> s, kernel |-> k, roots |-> <<>>]
FuncItem(s, roots) == [kind |-> "func", symbol |-> s, kernel |-> Positional, roots |-> roots]
ModuleOf(items) == [items |-> items, search_spaces |-> 1, verifies |-> TRUE]
BoundTo(p, owner, role) == [parameter |-> p, owner |-> owner, role |-> role]
Answers ==
  [contract |-> <<V1>>, kernel |-> <<Positional>>, inside |-> TRUE, is_kernel |-> TRUE,
   schema |-> <<<<BoundTo("tm", "source", <<"axis", "m">>), BoundTo("lay", "mapping", <<"kind", "layout">>)>>>>,
   receipt |-> [source |-> <<"tm">>, mapping |-> <<>>]]
Root(id, keys, answers) ==
  [id |-> id, terminator |-> FALSE, shape |-> IF "contraction" \in keys THEN <<"4x8">> ELSE <<>>,
   by |-> [k \in keys |-> answers]]
Return == [Root("return", {"elementwise"}, Answers) EXCEPT !.terminator = TRUE]
Mixed(answers) ==
  <<Root("matmul", {"contraction"}, answers), Root("add", {"elementwise"}, answers),
    Root("mul", {"elementwise"}, answers), Root("both", {"contraction", "elementwise"}, answers), Return>>

Ask ==
  [by |-> "contract", mode |-> "concrete", module |-> ModuleOf(<<KernelItem("k", Positional)>>), space |-> <<>>,
   candidate |-> NoBindings, contract |-> V1, shape |-> "4x8", symbol |-> "", ordinal |-> 0, key |-> "",
   registry |-> {"contraction", "elementwise"}, machine |-> TRUE, constrained |-> TRUE, facts |-> TRUE,
   legal |-> TRUE, synthetic |-> <<Positional>>]
Semantic == [Ask EXCEPT !.mode = "semantic", !.module = ModuleOf(<<FuncItem("f", Mixed(Answers))>>),
                        !.space = TiledSpace, !.candidate = Tiled(2)]
Answering(a) == [Semantic EXCEPT !.module = ModuleOf(<<FuncItem("f", Mixed(a))>>)]
Schema(s) == [Answers EXCEPT !.schema = <<s>>]
MCAsks ==
  {[Ask EXCEPT !.contract = c] : c \in MCContracts}
  \cup {[Ask EXCEPT !.module = ModuleOf(<<KernelItem("k", k)>>), !.contract = c] : k \in MCKernels, c \in {V1, V2}}
  \cup {[Ask EXCEPT !.module = ModuleOf(<<KernelItem("k", Positional), KernelItem("l", ByName)>>), !.symbol = s, !.ordinal = o] :
          s \in {"", "k", "l", "x"}, o \in {0, 1}}
  \cup {[Ask EXCEPT !.module.search_spaces = 0], [Ask EXCEPT !.module.verifies = FALSE], [Ask EXCEPT !.space = TiledSpace, !.candidate = Tiled(2)],
        [Ask EXCEPT !.mode = "synthetic"]}
  \* by shape
  \cup {[Ask EXCEPT !.by = "shape", !.mode = m, !.shape = s] : m \in {"concrete", "synthetic"}, s \in {"4x8", "2x2"}}
  \cup {[Semantic EXCEPT !.by = "shape", !.ordinal = o, !.shape = s] : o \in {0, 1}, s \in {"4x8", "2x2"}}
  \cup {[Ask EXCEPT !.by = "shape", !.module = ModuleOf(<<KernelItem("l", [ByName EXCEPT !.contractions = FALSE]), KernelItem("k", Positional)>>)],
        [Ask EXCEPT !.by = "shape", !.mode = "synthetic", !.synthetic = <<>>]}
  \* roots
  \cup {[Semantic EXCEPT !.ordinal = o, !.key = k] : o \in 0 .. 4, k \in {"", "contraction", "elementwise", "other"}}
  \cup {[Semantic EXCEPT !.candidate = c] : c \in MCCandidates}
  \cup {[Semantic EXCEPT !.symbol = s, !.module = ModuleOf(<<FuncItem("f", Mixed(Answers)), FuncItem("g", <<Return>>), KernelItem("k", Positional)>>)] :
          s \in {"", "f", "g", "k", "x"}}
  \cup {[Semantic EXCEPT !.module.search_spaces = 0], [Semantic EXCEPT !.machine = FALSE], [Semantic EXCEPT !.legal = FALSE],
        [Semantic EXCEPT !.facts = FALSE], [Semantic EXCEPT !.contract = V2], [Semantic EXCEPT !.space = <<TileM, TileM, Layout>>],
        [Semantic EXCEPT !.contract.required_primitives = <<"tile_load", "mma", "mma">>]}
  \* what an adapter may answer
  \cup {Answering(a) :
          a \in {[Answers EXCEPT !.contract = <<>>], [Answers EXCEPT !.schema = <<>>], [Answers EXCEPT !.kernel = <<>>],
                 [Answers EXCEPT !.inside = FALSE], [Answers EXCEPT !.is_kernel = FALSE], [Answers EXCEPT !.kernel = <<ByName>>],
                 [Answers EXCEPT !.kernel = <<[Positional EXCEPT !.used = {1, 2}]>>],
                 [Answers EXCEPT !.receipt = [source |-> <<"tm">>, mapping |-> <<"lay">>]],
                 [Answers EXCEPT !.receipt = [source |-> <<"tm", "lay">>, mapping |-> <<>>]],
                 [Answers EXCEPT !.receipt = [source |-> <<"tm", "tm">>, mapping |-> <<>>]],
                 [Answers EXCEPT !.receipt = [source |-> <<>>, mapping |-> <<"tm">>]],
                 Schema(<<BoundTo("tm", "source", <<"axis", "m">>)>>),
                 Schema(<<BoundTo("tm", "source", <<"axis", "">>), BoundTo("lay", "mapping", <<"kind", "layout">>)>>),
                 Schema(<<BoundTo("tm", "mapping", <<"kind", "integer">>), BoundTo("lay", "mapping", <<"kind", "layout">>)>>),
                 Schema(<<BoundTo("tm", "source", <<"axis", "m">>), BoundTo("lay", "source", <<"axis", "n">>)>>),
                 Schema(<<BoundTo("tm", "source", <<"axis", "m">>), BoundTo("lay", "mapping", <<"port", "o">>)>>)}}
  \cup {[Semantic EXCEPT !.space = <<TileM, [Layout EXCEPT !.role = <<<<"port", "o">>>>]>>,
                         !.module = ModuleOf(<<FuncItem("f", Mixed(Schema(<<BoundTo("tm", "source", <<"axis", "m">>),
                                                                          BoundTo("lay", "mapping", <<"port", "o">>)>>)))>>)]}
-----------------------------------------------------------------------------
(* Instances of MappedCompile, beside those of CandidateSource: a gated       *)
(* product whose three vector operations form a group, compiled to every      *)
(* stop by either backend, with one thing wrong at a time.                    *)
(* Operations, in the order of the walk; node 0 is not in the graph. *)
Op(n, op, args) ==
  [node |-> n, op |-> op, args |-> args, results |-> 1, pure |-> TRUE, block |-> 1, valid |-> <<>>,
   capacity |-> <<>>, mapping |-> <<>>]
Tile(o, v, c) == [o EXCEPT !.valid = <<v>>, !.capacity = <<c>>]
Load(n, v) == Tile(Op(n, "tile_load", <<<<0, 1>>>>), v, 8)
Store(n, args) == [Op(n, "tile_store", args) EXCEPT !.results = 0, !.pure = FALSE]
Gated(valid) ==
  <<Load(1, valid), Load(2, <<"constant", 8>>), Op(3, "convert", <<<<1, 1>>>>), Op(4, "silu", <<<<3, 1>>>>),
    Op(5, "mul", <<<<4, 1>>, <<2, 1>>>>), Store(6, <<<<5, 1>>>>)>>
Full == Gated(<<"constant", 8>>)
Bodies ==
  {Full, Gated(<<"constant", 3>>), Gated(<<"runtime">>),
   \* the converted value is read twice; the last two are swapped; a store comes between
   [Full EXCEPT ![5].args = <<<<4, 1>>, <<3, 1>>>>],
   [Full EXCEPT ![4] = [Store(4, <<<<3, 1>>>>) EXCEPT !.op = "silu"], ![5].args = <<<<3, 1>>, <<2, 1>>>>],
   [Full EXCEPT ![3].block = 2], [Full EXCEPT ![6].valid = <<<<"runtime">>>>, ![6].capacity = <<8>>],
   \* an asynchronous load whose token is awaited between the members, or before them
   <<Load(1, <<"constant", 8>>), [Load(2, <<"constant", 8>>) EXCEPT !.results = 2], Store(0, <<<<2, 2>>>>),
     Op(3, "convert", <<<<1, 1>>>>), Op(4, "silu", <<<<4, 1>>>>), Op(5, "mul", <<<<5, 1>>, <<2, 1>>>>),
     Store(6, <<<<6, 1>>>>)>>,
   <<Load(1, <<"constant", 8>>), [Load(2, <<"constant", 8>>) EXCEPT !.results = 2], Op(3, "convert", <<<<1, 1>>>>),
     Store(0, <<<<2, 2>>>>), Op(4, "silu", <<<<3, 1>>>>), Op(5, "mul", <<<<5, 1>>, <<2, 1>>>>), Store(6, <<<<6, 1>>>>)>>,
   \* a short contraction
   <<Load(1, <<"constant", 8>>), Load(2, <<"constant", 8>>), Tile(Op(3, "mma", <<<<1, 1>>, <<2, 1>>>>), <<"runtime">>, 8),
     Op(4, "silu", <<<<3, 1>>>>), Op(5, "mul", <<<<4, 1>>, <<2, 1>>>>), Store(6, <<<<5, 1>>>>)>>}

(* Plans. *)
Bundle(name) == [name |-> name, emitter |-> name, parameters |-> "integer"]
Put(n, i, b) == [node |-> n, instance |-> i, bundle |-> Bundle(b), rule |-> b]
Assigned(assign) == [n \in 1 .. 6 |-> Put(n, assign[n][1], assign[n][2])]
FusedPlan == Assigned(<<<<1, "copy">>, <<2, "copy">>, <<3, "vec">>, <<3, "vec">>, <<3, "vec">>, <<4, "store">>>>)
MCPlans ==
  {FusedPlan, Assigned(<<<<1, "copy">>, <<2, "copy">>, <<3, "vec">>, <<4, "vec">>, <<5, "vec">>, <<6, "store">>>>),
   \* the outer two together, the middle one apart; everything on one instance
   Assigned(<<<<1, "copy">>, <<2, "copy">>, <<3, "vec">>, <<5, "vec">>, <<3, "vec">>, <<4, "store">>>>),
   Assigned(<<<<4, "copy">>, <<3, "copy">>, <<2, "vec">>, <<2, "vec">>, <<1, "vec">>, <<5, "store">>>>),
   [FusedPlan EXCEPT ![6].node = 5], [FusedPlan EXCEPT ![6].node = 7], SubSeq(FusedPlan, 1, 5),
   [FusedPlan EXCEPT ![4].bundle.parameters = "string"], [FusedPlan EXCEPT ![4].rule = "other"],
   [FusedPlan EXCEPT ![6].bundle.parameters = "other"], [FusedPlan EXCEPT ![6].bundle = Bundle("missing")]}

(* Targets. *)
Emitter(ops, bounded) == [covers |-> ops, lowers |-> ops, bounded |-> bounded]
FullTarget ==
  [requirements |-> TRUE, pipeline |-> TRUE, fails |-> {},
   emitters |-> [copy |-> Emitter({"tile_load"}, {"bounded_load"}), store |-> Emitter({"tile_store"}, {}),
                 vec |-> Emitter({"convert", "silu", "mul", "mma"}, {"partial_k"})]]
MCTargets ==
  {FullTarget, [FullTarget EXCEPT !.requirements = FALSE], [FullTarget EXCEPT !.pipeline = FALSE], [FullTarget EXCEPT !.fails = {3}],
   [FullTarget EXCEPT !.emitters.store.lowers = {}], [FullTarget EXCEPT !.emitters.vec.lowers = {"mul"}],
   [FullTarget EXCEPT !.emitters.copy.bounded = {}], [FullTarget EXCEPT !.emitters.store.bounded = {"bounded_store"}],
   [FullTarget EXCEPT !.emitters.vec.covers = {"convert"}]}

AllOk == {"bind", "hash", "verify", "passes", "prepare", "late", "create"}
Abi(c) == EncodeContract(c)
WithShape(shape) == [V1 EXCEPT !.ports[1].shape = shape]
KernelsWith(entry, other) == <<[symbol |-> "helper", contract |-> other], [symbol |-> "k", contract |-> entry]>>
MCKernelLists ==
  {KernelsWith(<<>>, <<>>), KernelsWith(Abi(V1), Abi(WithShape(<<Const(4)>>))), KernelsWith(Abi(WithShape(<<Const(4)>>)), Abi(V1)),
   KernelsWith(<<>>, Abi(WithShape(<<Const(4)>>))), KernelsWith(Abi(V2), <<>>),
   KernelsWith(Abi([V1 EXCEPT !.ports[1].element_type = "f64"]), Abi(V1)),
   KernelsWith(Abi([V1 EXCEPT !.ports[1].effect = "read_write"]), Abi(V1)),
   KernelsWith(Abi([V1 EXCEPT !.ports[3].effect = "read_write"]), Abi(V1)),
   KernelsWith(Abi([V1 EXCEPT !.ports = @ \o <<PortOf("b", "input", "read", <<Const(4), Const(8)>>)>>]), Abi(V1)),
   KernelsWith(<<("version" :> 1)>>, Abi(V1))}

Compile ==
  [entry |-> "mapped", ops |-> Full, plan |-> FusedPlan, target |-> FullTarget, stop |-> "executable", backend |-> "selected",
   symbol |-> "k", functions |-> {"semantic"}, kernels |-> KernelsWith(Abi(V1), <<>>), ok |-> AllOk,
   connections |-> <<[consumers |-> {3}, ports |-> {1}], [consumers |-> {}, ports |-> {5, 9}]>>]
AllStops == {"mapped_micro", "target_lowered", "lowered", "executable"}
Stamped(plan, ops) ==
  [i \in DOMAIN ops |->
     IF ops[i].node = 0 THEN ops[i]
     ELSE [ops[i] EXCEPT !.mapping = <<[node |-> ops[i].node, instance |-> plan[ops[i].node].instance,
                                        bundle |-> plan[ops[i].node].bundle]>>]]
Hook == [Compile EXCEPT !.entry = "hook", !.ops = Stamped(FusedPlan, Full)]
MCTasks ==
  {[Compile EXCEPT !.ops = b, !.plan = p, !.target = t] : b \in Bodies, p \in MCPlans, t \in MCTargets}
  \cup {[Compile EXCEPT !.backend = "reference", !.target = t, !.plan = p] : t \in MCTargets, p \in MCPlans}
  \cup {[Compile EXCEPT !.entry = e, !.stop = s, !.backend = b, !.symbol = y, !.ok = AllOk \ {f}] :
          e \in {"mapped", "concrete"}, s \in AllStops, b \in {"selected", "reference"}, y \in {"", "k"},
          f \in AllOk \cup {"nothing"}}
  \cup {[Compile EXCEPT !.entry = e, !.kernels = ks, !.stop = s, !.backend = "reference"] :
          e \in {"mapped", "concrete"}, ks \in MCKernelLists, s \in {"lowered", "executable"}}
  \* modules that were mapped before: as they were, and changed since
  \cup {[Hook EXCEPT !.ops = Stamped(p, b), !.plan = p] :
          b \in Bodies, p \in {q \in MCPlans : Len(q) = 6 /\ \A n \in 1 .. 6 : q[n].node = n}}
  \cup {[Hook EXCEPT !.ops[3].mapping[1].instance = 1], [Hook EXCEPT !.ops[3].mapping[1].node = 9],
        [Hook EXCEPT !.ops[3].mapping[1].bundle = Bundle("copy")], [Hook EXCEPT !.ops[3].mapping[1].node = 4],
        [Hook EXCEPT !.ops[3].mapping = <<>>], [Hook EXCEPT !.plan = Append(FusedPlan, Put(3, 3, "vec"))]}
-----------------------------------------------------------------------------
(* Instances of PlanEvaluation: every combination of contract, requirement   *)
(* and answer that reaches a ruling of its own, peaks at and over the        *)
(* capacities, the budget and the word, and profiles whose text, samples or  *)
(* kernel are at the edge of what is accepted.                               *)

MCNodeCapacity == ("hbm" :> 15) @@ ("spm" :> 4)
PeaksOf(hbm, spm) == ("hbm" :> hbm) @@ ("spm" :> spm)
Block(memory, bytes, simultaneous, begin, end, alias) ==
  [memory |-> memory, bytes |-> bytes, simultaneous |-> simultaneous, begin |-> begin, end |-> end,
   alias_of |-> alias, borrowed |-> FALSE]
Shared == <<Block("spm", 2, 1, 1, 2, 0), Block("spm", 2, 1, 3, 4, 1), Block("hbm", 3, 2, 1, 4, 0)>>
MCAllocations ==
  {<<>>, Shared, [Shared EXCEPT ![3].simultaneous = 8], [Shared EXCEPT ![2].bytes = 3], [Shared EXCEPT ![2].memory = "hbm"],
   [Shared EXCEPT ![1].borrowed = TRUE], [Shared EXCEPT ![1].alias_of = 2], [Shared EXCEPT ![2].alias_of = 9],
   [Shared EXCEPT ![1].end = 0], [Shared EXCEPT ![1].end = 3], Append(Shared, Block("hbm", 8, 1, 2, 2, 0)),
   Append(Shared, Block("hbm", 15, 1, 2, 2, 0))}

Port2(n, dir, shape) == [name |-> n, direction |-> dir, effect |-> "read", shape |-> shape, element_type |-> "f32"]
Dim(n) == <<"constant", n>>
Var(s) == <<"symbol", s>>
Shape ==
  [version |-> 2, axes |-> <<>>, numerical_contract |-> "", required_primitives |-> <<>>,
   symbols |-> ("M" :> [min |-> 2, max |-> <<8>>, multiple_of |-> 2]) @@ ("N" :> [min |-> 0, max |-> <<>>, multiple_of |-> 1]),
   ports |-> <<Port2("a", "input", <<Var("M"), Dim(4)>>), Port2("b", "input", <<Var("N"), Var("M")>>),
               Port2("o", "output", <<Var("M"), Var("N")>>)>>]
InOrder == [queries |-> <<<<0, 1>>, <<0>>>>, bindings |-> <<>>, kernels |-> 1]
Binds(role, port) == [role |-> role, port |-> port]
Bound3 ==
  [queries |-> <<<<0>>, <<1>>, <<0, 1>>>>, kernels |-> 1,
   bindings |-> <<<<Binds("output", 2), Binds("input", 0), Binds("input", 1)>>>>]
MCEvalKernels ==
  {InOrder, Bound3, [InOrder EXCEPT !.kernels = 2], [InOrder EXCEPT !.queries = <<<<0>>, <<0>>, <<0>>, <<0>>>>],
   [InOrder EXCEPT !.queries[1] = <<2>>], [InOrder EXCEPT !.queries[1] = <<-1>>],
   [Bound3 EXCEPT !.bindings[1][1].role = "input"], [Bound3 EXCEPT !.bindings[1][1].role = "inout"],
   [Bound3 EXCEPT !.bindings[1][1].port = 3], [Bound3 EXCEPT !.bindings[1] = Tail(@)]}

JsonEntry(n, v) == [text |-> n, name |-> n, value |-> v]
Escaped(n, v) == [text |-> "u004d", name |-> n, value |-> v]
JsonInt(n) == <<"integer", n>>
ValuesOf(m, n) == JsonEntry("values", <<"object", <<JsonEntry("M", JsonInt(m)), JsonEntry("N", JsonInt(n))>>>>)
SampleOf(entries) == <<"object", entries>>
Sampled(m, n, w) == SampleOf(<<ValuesOf(m, n), JsonEntry("weight", JsonInt(w))>>)
ProfileOf(samples) == <<"object", <<JsonEntry("version", JsonInt(1)), JsonEntry("samples", <<"array", samples>>)>>>>
OfValues(entries) == ProfileOf(<<SampleOf(<<JsonEntry("values", <<"object", entries>>)>>)>>)
With(json, entry) == <<"object", Append(json[2], entry)>>
Two == ProfileOf(<<Sampled(4, 3, 1), Sampled(8, 0, 2)>>)
MCProfiles ==
  {Two, ProfileOf(<<Sampled(2, 1, 1)>>), ProfileOf(<<SampleOf(<<ValuesOf(4, 3)>>)>>), ProfileOf(<<Sampled(4, 3, 3), Sampled(4, 3, 1), Sampled(6, 5, 1)>>),
   ProfileOf(<<>>), <<"array", <<>>>>, With(Two, JsonEntry("extra", JsonInt(1))), With(Two, JsonEntry("version", JsonInt(1))),
   <<"object", Tail(Two[2])>>, <<"object", SubSeq(Two[2], 1, 1)>>, <<"object", <<JsonEntry("version", JsonInt(2)), Two[2][2]>>>>,
   <<"object", <<JsonEntry("version", JsonInt(VersionModulus)), Two[2][2]>>>>, <<"object", <<Two[2][1], JsonEntry("samples", JsonInt(1))>>>>,
   With(Two, JsonEntry("aggregation", <<"string", "weighted_mean">>)), With(Two, JsonEntry("aggregation", <<"string", "max">>)),
   With(Two, JsonEntry("aggregation", JsonInt(1))), With(Two, JsonEntry("max_variants", JsonInt(0))), With(Two, JsonEntry("max_variants", JsonInt(2))),
   ProfileOf(<<JsonInt(1)>>), ProfileOf(<<SampleOf(<<>>)>>), ProfileOf(<<SampleOf(<<JsonEntry("values", JsonInt(1))>>)>>),
   ProfileOf(<<SampleOf(<<ValuesOf(4, 3), JsonEntry("note", JsonInt(1))>>)>>), ProfileOf(<<SampleOf(<<ValuesOf(4, 3), JsonEntry("weight", <<"string", "1">>)>>)>>),
   ProfileOf(<<Sampled(4, 3, 0)>>), ProfileOf(<<SampleOf(<<ValuesOf(4, 3), JsonEntry("weight", <<"number", Infinite>>)>>)>>),
   ProfileOf(<<Sampled(1, 3, 1)>>), ProfileOf(<<Sampled(3, 3, 1)>>), ProfileOf(<<Sampled(10, 3, 1)>>), ProfileOf(<<Sampled(4, -1, 1)>>),
   ProfileOf(<<Sampled(2, 1, 1), Sampled(10, 3, 1)>>),
   \* weighted bytes at the largest double, beyond it, and beyond it together
   ProfileOf(<<Sampled(4, 3, MaxDouble \div 57)>>), ProfileOf(<<Sampled(4, 3, 1 + MaxDouble \div 57)>>),
   ProfileOf(<<Sampled(4, 3, MaxDouble \div 60), Sampled(2, 1, 20)>>), ProfileOf(<<Sampled(4, 3, MaxDouble)>>),
   OfValues(<<JsonEntry("M", JsonInt(4))>>), OfValues(<<JsonEntry("M", <<"string", "4">>), JsonEntry("N", JsonInt(1))>>),
   OfValues(<<JsonEntry("M", JsonInt(4)), JsonEntry("N", JsonInt(1)), JsonEntry("K", JsonInt(1))>>),
   OfValues(<<JsonEntry("M", JsonInt(4)), JsonEntry("N", JsonInt(1)), JsonEntry("M", JsonInt(8))>>),
   \* M given twice, the second time with an escape
   OfValues(<<JsonEntry("M", JsonInt(4)), JsonEntry("N", JsonInt(1)), Escaped("M", JsonInt(8))>>)}

Offer ==
  [strict |-> TRUE, complete |-> TRUE, budget |-> <<>>, profile |-> <<>>, contract |-> Shape, kernel |-> InOrder,
   finalize |-> "ok", retry |-> "ok", physical |-> TRUE, bind |-> TRUE, dropped |-> FALSE, covered |-> TRUE,
   analysis |-> "complete", live |-> TRUE, peaks |-> PeaksOf(6, 2), extracted |-> ("hbm_kind" :> 5), allocations |-> Shared,
   attaches |-> TRUE, events |-> TRUE, probe |-> "same", trouble |-> {}, peaksAt |-> <<PeaksOf(6, 2), PeaksOf(5, 3), PeaksOf(1, 1)>>]
Modes(e) == {[e EXCEPT !.strict = s, !.complete = c] : s, c \in BOOLEAN}
Profiled == [Offer EXCEPT !.profile = <<Two>>]
Budgets == {<<>>, <<8>>, <<7>>, <<MaxBytes>>}
MCEvaluations ==
  UNION {Modes([Offer EXCEPT !.finalize = f, !.retry = r, !.physical = p]) :
           f, r \in {"ok", "capacity", "structural"}, p \in BOOLEAN}
  \cup UNION {Modes([e EXCEPT !.bind = b, !.dropped = u, !.covered = c, !.probe = p]) :
                e \in {Offer, Profiled}, b, u, c \in BOOLEAN, p \in {"same", "other", "fails"}}
  \cup UNION {Modes([e EXCEPT !.analysis = a, !.live = l, !.budget = b]) :
                e \in {Offer, Profiled}, a \in {"complete", "incomplete", "refused"}, l \in BOOLEAN, b \in Budgets}
  \cup UNION {Modes([e EXCEPT !.peaks = p, !.budget = b]) :
                e \in {Offer, Profiled}, b \in Budgets, p \in {PeaksOf(15, 4), PeaksOf(15, 1), PeaksOf(3, 5), PeaksOf(4, 4)}}
  \cup {[Offer EXCEPT !.strict = FALSE, !.complete = FALSE, !.analysis = "refused", !.live = FALSE, !.budget = b, !.allocations = a, !.events = v] :
          b \in Budgets, a \in MCAllocations, v \in BOOLEAN}
  \cup {[Offer EXCEPT !.strict = FALSE, !.complete = FALSE, !.live = FALSE, !.extracted = x, !.budget = b, !.attaches = FALSE] :
          b \in Budgets, x \in {<<>>, "hbm_kind" :> 8, "spm" :> 5}}
  \cup {[Profiled EXCEPT !.profile = <<p>>, !.strict = s, !.attaches = a] : p \in MCProfiles, s, a \in BOOLEAN}
  \cup {[Profiled EXCEPT !.kernel = k] : k \in MCEvalKernels}
  \cup {[Profiled EXCEPT !.trouble = {t}] : t \in 1 .. 2}
  \cup {[Profiled EXCEPT !.peaksAt[2] = p, !.budget = b] : b \in Budgets, p \in {PeaksOf(15, 1), PeaksOf(1, 5), PeaksOf(5, 2)}}
  \cup {[Profiled EXCEPT !.contract = c] :
          c \in {[Shape EXCEPT !.ports[2].name = "a"], [Shape EXCEPT !.ports[1].shape[2] = Dim(-1)],
                 [Shape EXCEPT !.ports[1].shape[2] = Var("K")], [Shape EXCEPT !.ports[1].shape = <<>>],
                 [Shape EXCEPT !.symbols = @ @@ ("K" :> [min |-> 0, max |-> <<>>, multiple_of |-> 1])]}}
-----------------------------------------------------------------------------
AnySearch == CHOOSE s \in Setups : s.mode # "beam"
IdleSearch ==
  /\ setup = AnySearch /\ phase = "failed" /\ stack = <<>> /\ beam = <<>> /\ depth = 0
  /\ truncated = FALSE /\ retained = <<>> /\ plans = <<>> /\ judged = {}
IdleTuning ==
  /\ inputs = CHOOSE s \in Sessions : TRUE
  /\ files = [d \in {Digest[k] : k \in DOMAIN Digest} |-> Absent]
  /\ temps = {} /\ evidence = {} /\ session = MaxSessions /\ pc = "idle" /\ at = 1 /\ job = NoJob
  /\ report = EmptyReport
IdleSource == ask = Ask /\ sstep = "idle" /\ chosen = Unset /\ made = <<>>
IdleCompile ==
  /\ task = Compile /\ cstep = "idle" /\ clone = <<>> /\ funcs = {} /\ groups = <<>> /\ handed = <<>>
  /\ tally = NoTally /\ outcome = NoOutcome
IdleEvaluation == eval = Offer /\ estep = "idle" /\ shapes = <<>> /\ eplan = NoPlan /\ ruling = <<>>

MappingInit ==
  \/ InitLayout /\ IdleRules /\ IdleSearch /\ IdleTuning /\ IdleSource /\ IdleCompile /\ IdleEvaluation
  \/ IdleLayout /\ InitRules /\ IdleSearch /\ IdleTuning /\ IdleSource /\ IdleCompile /\ IdleEvaluation
  \/ IdleLayout /\ IdleRules /\ Init /\ IdleTuning /\ IdleSource /\ IdleCompile /\ IdleEvaluation
  \/ IdleLayout /\ IdleRules /\ IdleSearch /\ InitTuning /\ IdleSource /\ IdleCompile /\ IdleEvaluation
  \/ IdleLayout /\ IdleRules /\ IdleSearch /\ IdleTuning /\ SourceInit /\ IdleCompile /\ IdleEvaluation
  \/ IdleLayout /\ IdleRules /\ IdleSearch /\ IdleTuning /\ IdleSource /\ CompileInit /\ IdleEvaluation
  \/ IdleLayout /\ IdleRules /\ IdleSearch /\ IdleTuning /\ IdleSource /\ IdleCompile /\ EvalInit

MappingNext ==
  \/ NextLayout /\ UNCHANGED <<rvars, vars, tuningVars, sourceVars, compileVars, evalVars>>
  \/ NextRules /\ UNCHANGED <<layoutVars, vars, tuningVars, sourceVars, compileVars, evalVars>>
  \/ Next /\ UNCHANGED <<layoutVars, rvars, tuningVars, sourceVars, compileVars, evalVars>>
  \/ NextTuning /\ UNCHANGED <<layoutVars, rvars, vars, sourceVars, compileVars, evalVars>>
  \/ SourceNext /\ UNCHANGED <<layoutVars, rvars, vars, tuningVars, compileVars, evalVars>>
  \/ CompileNext /\ UNCHANGED <<layoutVars, rvars, vars, tuningVars, sourceVars, evalVars>>
  \/ EvalNext /\ UNCHANGED <<layoutVars, rvars, vars, tuningVars, sourceVars, compileVars>>

MappingSpec ==
  MappingInit /\ [][MappingNext]_<<layoutVars, rvars, vars, tuningVars, sourceVars, compileVars, evalVars>>
=============================================================================
