----------------------------- MODULE MCMicroDag -----------------------------
(* Kernels for MicroDag on a machine with two scratchpads of one kind, two    *)
(* transfer engines, a matrix engine and two vector engines on two executors. *)
EXTENDS MicroDag

MemNode(id, kind, latency, rate, cap) ==
  [id |-> id, kind |-> kind, latency |-> latency, rate |-> rate, capacity |-> cap, seen |-> {"x0", "x1"}]
Wire(s, d, latency, rate, engines) == [src |-> s, dst |-> d, latency |-> latency, rate |-> rate, engines |-> engines]
Engine(id, kind, at, throughput, shapes, lanes) ==
  [id |-> id, kind |-> kind, at |-> at, throughput |-> throughput, shapes |-> shapes, issue |-> 1, lanes |-> lanes,
   types |-> {"i8", "f32"}, accs |-> {"f32"}]

MCTarget ==
  [memories |-> << MemNode("dram.0", "dram", 3, 2, 99), MemNode("sram.0", "sram", 1, 4, 16),
                   MemNode("sram.1", "sram", 1, 4, 16), MemNode("acc.0", "acc", 1, 4, 8) >>,
   links |-> << Wire("dram.0", "sram.0", 2, 4, <<"d0">>), Wire("dram.0", "sram.1", 2, 4, <<"d1">>),
                Wire("sram.0", "sram.1", 1, 4, <<"d1">>), Wire("sram.0", "acc.0", 0, 0, <<>>),
                Wire("sram.1", "acc.0", 1, 2, <<"d1">>) >>,
   computes |-> << Engine("m0", "matrix_engine", "x0", 0, << <<1, 1, 1>>, <<2, 2, 2>> >>, [f32 |-> 1]),
                   Engine("v0", "vector_engine", "x0", 0, <<>>, [f32 |-> 2]),
                   Engine("v1", "vector_engine", "x1", 4, <<>>, [f32 |-> 2]) >>,
   setup |-> 1, wait |-> 1, barrier |-> 2, owners |-> [worker |-> 2, lane |-> 0]]
MCSlotsOf == [m0 |-> 2, v0 |-> 2, v1 |-> 1, d0 |-> 1, d1 |-> 1, worker |-> 2, x0 |-> 1, x1 |-> 1, lane |-> 0]

Tile(mem, layout) == [tile |-> TRUE, shape |-> <<2, 2>>, dtype |-> "f32", width |-> 1, raw |-> 1,
                      layout |-> layout, memory |-> mem, owner |-> ""]
Plain == [Tile("", "") EXCEPT !.tile = FALSE]
Const(n) == [n |-> n, iv |-> "", of |-> 0]
Edge(n, of, iv) == [n |-> n, iv |-> iv, of |-> of]

Op(id, op, ins, outs) ==
  [id |-> id, op |-> op, ins |-> ins, outs |-> outs, from |-> Plain, to |-> NoType, dst |-> "", srcMem |-> "",
   sizes |-> <<>>, shape |-> <<2, 2, 2>>, mapped |-> FALSE, exec |-> "", vec |-> "", mat |-> "", engine |-> "",
   inst |-> 0, conn |-> 0, hop |-> 0, value |-> 0, srcNode |-> "", dstNode |-> "", owner |-> "",
   known |-> TRUE, identity |-> FALSE, body |-> <<>>, stages |-> 0, lb |-> Const(0), ub |-> Const(0),
   step |-> Const(1), iv |-> "", map |-> "", inits |-> <<>>, args |-> <<>>, yields |-> <<>>]

CopyOp(id, v, out, dst) == [Op(id, "copy", <<v>>, <<out, id>>) EXCEPT !.dst = dst, !.to = Tile(dst, "")]
Store(id, v, mem) == [Op(id, "store", <<v>>, <<>>) EXCEPT !.dst = "dram", !.from = Tile(mem, "")]
Wait(id, ts) == Op(id, "wait", ts, <<>>)
Vector(id, v, out) == [Op(id, "vector", <<v>>, <<out>>) EXCEPT !.to = Tile("acc", "")]
MmaOp(id, ins, out) == [Op(id, "mma", ins, <<out>>) EXCEPT !.to = Tile("acc", "")]
Loop(id, kind, ub, step, iv, body) ==
  [Op(id, kind, <<>>, <<>>) EXCEPT !.ub = ub, !.step = step, !.iv = iv, !.body = body, !.map = "worker"]
Pipe(id, stages, body) == [Op(id, "pipeline", <<>>, <<>>) EXCEPT !.stages = stages, !.body = body]

NoTimes == [inst |-> <<>>, conn |-> <<>>]
Kernel(body, routes, timed, coverage, strict) ==
  [body |-> body, routes |-> routes, timed |-> timed, coverage |-> coverage, strict |-> strict]
Audit(body) == Kernel(body, <<>>, NoTimes, "audit", FALSE)

\* A reduction over k tiles: two staged operands, and an epilogue.
Bounds == {Const(0), Const(1), Const(3), Const(5), [n |-> 0, iv |-> "n", of |-> 0]}
Gemms ==
  {Audit(<< Loop("k", "for", ub, Const(2), "k",
              << Pipe("p", stages, << CopyOp("ca", "A", "a", "sram"), CopyOp("cb", "B", "b", "sram"),
                                      Wait("w", <<"ca", "cb">>), MmaOp("mm", <<"a", "b", "C">>, "c") >>) >>),
            Vector("ep", "c", "o"), Store("st", "o", "acc") >>) :
     ub \in Bounds, stages \in {0, 1, 2}}

\* The same with the accumulator carried by the loop and the pipeline.
Carried(stages) ==
  Audit(<< [Loop("k", "for", Const(3), Const(2), "k",
              << [Pipe("p", stages, << CopyOp("ca", "A", "a", "sram"), Wait("w", <<"ca">>),
                                       MmaOp("mm", <<"a", "b", "acc">>, "next") >>)
                    EXCEPT !.yields = <<"next">>, !.outs = <<"piped">>] >>)
              EXCEPT !.inits = <<"zero">>, !.args = <<"acc">>, !.yields = <<"piped">>, !.outs = <<"sum">>],
           Vector("ep", "sum", "o"), Store("st", "o", "acc") >>)

\* Spatial loops around and inside serial ones, with boundary tiles.
Clipped(id, v, out, sizes) ==
  [Op(id, "load", <<v>>, <<out, id>>) EXCEPT !.dst = "sram", !.to = Tile("sram", ""), !.sizes = sizes]
Spatials ==
  {Audit(<< [Op("al", "alloc", <<>>, <<"buf">>) EXCEPT !.dst = where, !.to = Tile(where, "")],
            [Loop("i", outer, Const(3), Const(2), "i",
               << Loop("j", inner, Const(2), Const(1), "j",
                    << Clipped("ld", "A", "a", <<Edge(2, 3, "i"), Const(2)>>), Vector("ve", "a", "o"),
                       [Store("st", "o", "sram") EXCEPT !.sizes = <<Edge(2, 3, "i"), Const(2)>>] >>),
                  [Op("ba", "barrier", <<"ld">>, <<>>) EXCEPT !.known = TRUE] >>)
               EXCEPT !.map = map] >>) :
     outer \in {"for", "spatial_for"}, inner \in {"for", "spatial_for"},
     map \in {"worker", "lane", "ghost"}, where \in {"sram", "none"}}

\* Routed copies: by stamp, by landing node, by value, or in the plan's order.
Route(id, value, kind, nodes) == [id |-> id, value |-> value, kind |-> kind, nodes |-> nodes]
RoutePlans == { << Route(1, 5, "transfer", <<"dram.0", "sram.0", "sram.1">>), Route(2, 6, "transfer", <<"dram.0", "sram.1">>) >>,
                << Route(1, 5, "transfer", <<"dram.0", "sram.1">>), Route(2, 6, "", <<"dram.0", "sram.0">>),
                   Route(3, 5, "reduce", <<"sram.0", "acc.0">>), Route(4, 5, "transfer", <<"acc.0", "sram.0">>) >> }
Stamps == { <<0, 0, 0, "">>, <<1, 1, 5, "sram.0">>, <<1, 2, 5, "sram.1">>, <<2, 1, 0, "">>, <<0, 0, 6, "">>,
            <<0, 0, 6, "sram.1">>, <<1, 9, 5, "acc.0">> }
Stamp(op, s) == [op EXCEPT !.conn = s[1], !.hop = s[2], !.value = s[3], !.dstNode = s[4]]
Times == {NoTimes, [inst |-> (7 :> 3), conn |-> (1 :> 9) @@ (2 :> 3)]}
Routeds ==
  {Kernel(<< Loop("i", "for", Const(2), Const(1), "i",
               << Stamp([CopyOp("c1", "A", "a", "sram") EXCEPT !.mapped = mapped], s1),
                  Stamp(CopyOp("c2", "B", "b", "sram"), s2),
                  Stamp([CopyOp("c3", "a", "x", "acc") EXCEPT !.from = Tile("sram", "")], <<0, 0, 0, "">>),
                  [MmaOp("mm", <<"a", "b", "x">>, "c") EXCEPT !.inst = inst],
                  Store("st", "c", "acc") >>) >>, plan, t, cover, FALSE) :
     s1 \in Stamps, s2 \in Stamps, plan \in RoutePlans, t \in Times, mapped \in BOOLEAN, inst \in {0, 7},
     cover \in {"audit"}}

\* Copies within one kind, layout changes, conversions and odd leaves.
Odd(op) == {Kernel(<< CopyOp("c1", "A", "a", "sram"), op, Vector("ve", "r", "o"), Store("st", "o", "acc") >>,
                   <<>>, NoTimes, cover, strict) : cover \in {"audit", "legacy", "strict"}, strict \in BOOLEAN}
Within(s, d) == [CopyOp("cc", "a", "r", "sram") EXCEPT !.from = Tile("sram", ""), !.srcNode = s, !.dstNode = d]
View(l1, l2, vec) == [Op("vw", "view", <<"a">>, <<"r">>) EXCEPT !.from = Tile("sram", l1), !.to = Tile("sram", l2), !.vec = vec]
Convert(mem, engine, dst, to) ==
  [Op("tr", "transform", <<"a">>, <<"r">>) EXCEPT !.from = Tile(mem, ""), !.to = to, !.engine = engine, !.dst = dst]
Contracted(mapped, exec, vec, mat, engine, k) ==
  [MmaOp("m2", <<"a">>, "r") EXCEPT !.from = Tile("sram", ""), !.mapped = mapped, !.exec = exec, !.vec = vec,
                                    !.mat = mat, !.engine = engine, !.sizes = k]
Sized(s, w) == [Tile("sram", "") EXCEPT !.shape = s, !.width = w]
Odds ==
  UNION { Odd(op) : op \in
    {Within("sram.0", "sram.1"), Within("", ""), Within("sram.0", "sram.0")}
    \cup {View(l1, l2, vec) : l1 \in {"", "row"}, l2 \in {"", "row", "col"}, vec \in {"", "v1", "none"}}
    \cup {[View("row", "col", "") EXCEPT !.owner = "lane", !.to.tile = FALSE]}
    \cup {Convert(mem, e, d, to) : mem \in {"sram", ""}, e \in {"", "v1", "m0"}, d \in {"", "sram.1", "none"},
                                   to \in {Tile("sram", ""), [Tile("sram", "") EXCEPT !.shape = <<DynamicExtent, 2>>]}}
    \cup {[Convert("sram", "", "", Tile("acc", "")) EXCEPT !.identity = TRUE]}
    \cup {Contracted(m, x, v, t, e, k) : m \in BOOLEAN, x \in {"x0", "x1"}, v \in {"", "v1"}, t \in {"", "m0"}, e \in {"", "m0"},
                                       k \in {<<>>, <<Const(1)>>, <<Const(3)>>, <<Const(0)>>, <<Edge(1, 1, "q")>>}}
    \cup {[Contracted(FALSE, "", "", "", "", <<>>) EXCEPT !.shape = <<9, 9, 9>>],
          [Contracted(TRUE, "x1", "v1", "", "", <<>>) EXCEPT !.to.dtype = "i32"]}
    \cup {[Op("g", kind, <<"a">>, <<"r">>) EXCEPT !.known = k, !.from = Tile("sram", ""), !.to = Tile("acc", ""), !.exec = x] :
            kind \in {"reduce", "gather", "barrier", "constant", "shape_only", "other"}, k \in BOOLEAN, x \in {"", "x1"}}
    \cup {[CopyOp("cc", "a", "r", "acc") EXCEPT !.from = Sized(s, w), !.to = NoType, !.mapped = m, !.dst = d] :
            s \in {<<2, 2>>, <<DynamicExtent, 2>>, <<0, 2>>}, w \in {0, 1}, m \in BOOLEAN, d \in {"acc", "none"}}
    \cup {[Clipped("ld", "A", "r", z) EXCEPT !.to = Sized(s, w)] :
            z \in {<<Const(2), Const(1)>>, <<Const(3), Const(2)>>, <<Const(1)>>, <<Edge(2, 2, "q"), Const(2)>>},
            s \in {<<2, 2>>, <<DynamicExtent, 2>>}, w \in {0, 1}}
    \cup {[Op("al", "alloc", <<>>, <<"r">>) EXCEPT !.to = Sized(s, w), !.dst = "sram"] :
            s \in {<<2, 2>>, <<DynamicExtent, 2>>, <<4, 5>>}, w \in {0, 1}} }

\* Work of one kind side by side, in a pipeline or not.
Sides == {Audit(<< Pipe("p", 1, << CopyOp("ca", "A", "a", "sram"), CopyOp("cb", "B", "b", "sram"), CopyOp("cc", "C", "c", "sram") >>),
                   Store("st", "b", "sram") >>)}
         \cup {Audit(<< Vector("e1", "A", "a"), Vector("e2", "B", "b"), [Vector("e3", "C", "c") EXCEPT !.exec = x] >>) : x \in {"", "x1"}}

CarriedKernels == {Carried(1), Carried(2)}

MCMicroKernels == Gemms \cup Spatials \cup Routeds \cup Odds \cup Sides \cup {Carried(0)}
=============================================================================
