------------------------------ MODULE MCImport ------------------------------
(* Captured programs: an add over a grid that divides the tensor or rounds   *)
(* up, and a contraction with one or two arms, each with one thing changed   *)
(* at a time.                                                                *)
EXTENDS FrontendImport, TLC

O(id, code, in, dt, shape, a) == [id |-> id, code |-> code, in |-> in, dt |-> dt, shape |-> shape, a |-> a]
Index(id, code, in, shape) == O(id, code, in, "index", shape, 0)
Const(id, k) == O(id, "constant", <<>>, "index", <<>>, k)
Port(name, dir, m, n) == [name |-> name, dir |-> dir, shape |-> <<m, n>>]
Put(list, id, new) ==
  LET i == CHOOSE i \in DOMAIN list : list[i].id = id IN SubSeq(list, 1, i - 1) \o new \o SubSeq(list, i + 1, Len(list))
Less(id, a, b, shape, predicate) == O(id, "compare", <<a, b>>, "i1", shape, predicate)
Choose(id, a, b, c, shape) == O(id, "select", <<a, b, c>>, "i1", shape, 0)

\* Block B0 x B1 of an M x N tensor.
ElementOps(m, n, b0, b1) ==
  << O("p0", "program_id", <<>>, "index", <<>>, 0), O("p1", "program_id", <<>>, "index", <<>>, 1),
     Const("w0", b0), Const("w1", b1), Const("m", m), Const("n", n),
     O("t", "constant", <<>>, "i1", <<>>, TRUE), O("f", "constant", <<>>, "i1", <<>>, FALSE),
     O("z", "constant", <<>>, "f32", <<>>, 0),
     Index("s0", "mul", <<"p0", "w0">>, <<>>), Index("s1", "mul", <<"p1", "w1">>, <<>>),
     O("r0", "range", <<>>, "index", <<b0>>, 0), O("r1", "range", <<>>, "index", <<b1>>, 0),
     Index("i0", "add", <<"s0", "r0">>, <<b0>>), Index("i1", "add", <<"s1", "r1">>, <<b1>>),
     O("row", "expand_dims", <<"i0">>, "index", <<b0, 1>>, 1),
     O("col", "expand_dims", <<"i1">>, "index", <<1, b1>>, 0),
     Less("rm", "row", "m", <<b0, 1>>, "lt"), Less("cm", "col", "n", <<1, b1>>, "lt"),
     Choose("mask", "rm", "cm", "f", <<b0, b1>>),
     O("pa", "address", <<"A", "row", "col">>, "ptr", <<b0, b1>>, 0),
     O("pb", "address", <<"B", "row", "col">>, "ptr", <<b0, b1>>, 0),
     O("a", "load", <<"pa", "mask", "z">>, "f32", <<b0, b1>>, 0),
     O("b", "load", <<"pb", "mask", "z">>, "f32", <<b0, b1>>, 0),
     O("sum", "add", <<"a", "b">>, "f32", <<b0, b1>>, 0),
     O("pc", "address", <<"C", "row", "col">>, "ptr", <<b0, b1>>, 0),
     O("st", "store", <<"pc", "sum", "mask">>, "none", <<>>, 0) >>
Blocks(m, b) == (m + b - 1) \div b
Elementwise(m, n, b0, b1) ==
  [tensors |-> <<Port("A", "input", m, n), Port("B", "input", m, n), Port("C", "output", m, n)>>,
   grid |-> <<Blocks(m, b0), Blocks(n, b1), 1>>, block |-> <<b0, b1, 1>>,
   ops |-> ElementOps(m, n, b0, b1), before |-> 27, loop |-> Nothing, numerics |-> "strict"]
Edit(p, id, new) == LET list == Put(p.ops, id, new) IN [p EXCEPT !.ops = list, !.before = Len(list)]

\* The address from one row-major index.
RowMajor(p, stride) ==
  LET b == <<p.block[1], p.block[2]>>
      linear == << Const("ld", stride), Index("rs", "mul", <<"row", "ld">>, <<b[1], 1>>),
                   Index("lin", "add", <<"rs", "col">>, b),
                   Index("ri", "div", <<"lin", "ld">>, b), Index("ci", "rem", <<"lin", "ld">>, b) >>
      both(q, id, tensor) == Edit(q, id, <<O(id, "address", <<tensor, "ri", "ci">>, "ptr", b, 0)>>)
  IN  both(both(both(Edit(p, "rm", linear \o <<Less("rm", "row", "m", <<b[1], 1>>, "lt")>>), "pa", "A"), "pb", "B"),
           "pc", "C")

\* One change of a program with blocks of b0 x b1.
Changes(p) ==
  LET b == <<p.block[1], p.block[2]>>
      m == p.tensors[1].shape[1]
      n == p.tensors[1].shape[2]
      all == O("mask", "broadcast", <<"t">>, "i1", b, <<>>)
      mask(new) == Edit(p, "mask", new)
  IN  << p, RowMajor(p, n), RowMajor(p, n + 1), RowMajor(p, Max({1, n - 1})), mask(<<all>>),
         mask(<<O("mask", "broadcast", <<"rm">>, "i1", b, <<0, 1>>)>>),
         mask(<<Choose("mask", "cm", "rm", "f", b)>>), mask(<<Choose("mask", "rm", "t", "cm", b)>>),
         mask(<<Choose("both", "rm", "cm", "f", b), Choose("mask", "rm", "t", "both", b)>>),
         mask(<<Choose("both", "rm", "cm", "f", b), Choose("mask", "both", "both", "f", b)>>),
         mask(<<Choose("both", "rm", "cm", "f", b), Choose("mask", "both", "both", "both", b)>>),
         mask(<<Choose("both", "rm", "cm", "f", b), Choose("mask", "t", "both", "f", b)>>),
         mask(<<Choose("both", "rm", "cm", "f", b), Choose("mask", "both", "f", "t", b)>>),
         mask(<<Less("in0", "i0", "m", <<b[1]>>, "lt"), O("mask", "broadcast", <<"in0">>, "i1", b, <<0>>)>>),
         mask(<<Less("in0", "i0", "m", <<b[1]>>, "lt"), O("mask", "broadcast", <<"in0">>, "i1", b, <<1>>)>>),
         mask(<<Less("in0", "i0", "m", <<b[1]>>, "lt"), O("wide", "broadcast", <<"t">>, "i1", b, <<>>),
                Choose("mask", "in0", "wide", "f", b)>>),
         mask(<<Less("in1", "i1", "n", <<b[2]>>, "lt"), O("ex1", "expand_dims", <<"in1">>, "i1", <<1, b[2]>>, 0),
                Choose("mask", "rm", "ex1", "f", b)>>),
         Edit(p, "rm", <<Const("m1", m - 1), Less("rm", "row", "m1", <<b[1], 1>>, "le")>>),
         Edit(p, "rm", <<Less("rm", "row", "m", <<b[1], 1>>, "le")>>),
         Edit(p, "rm", <<Less("rm", "m", "row", <<b[1], 1>>, "gt")>>),
         Edit(p, "rm", <<Less("rm", "row", "m", <<b[1], 1>>, "ne")>>),
         Edit(p, "rm", <<Less("rm", "row", "m", <<b[1], 1>>, "eq")>>),
         Edit(p, "cm", <<Less("cm", "col", "m", <<1, b[2]>>, "ge")>>),
         Edit(p, "cm", <<Const("n1", n - 1), Less("cm", "col", "n1", <<1, b[2]>>, "lt")>>),
         Edit(p, "cm", <<Const("n1", n), Index("rc", "rem", <<"col", "n1">>, <<1, b[2]>>),
                         Less("cm", "rc", "n", <<1, b[2]>>, "lt")>>),
         Edit(p, "row", <<Const("neg", -2), Index("i2", "add", <<"i0", "neg">>, <<b[1]>>),
                          Index("i3", "sub", <<"i2", "neg">>, <<b[1]>>),
                          O("row", "expand_dims", <<"i3">>, "index", <<b[1], 1>>, 1)>>),
         Edit(p, "row", <<Const("neg", -2), Index("i2", "div", <<"i0", "neg">>, <<b[1]>>),
                          O("row", "expand_dims", <<"i2">>, "index", <<b[1], 1>>, 1)>>),
         Edit(p, "row", <<Const("neg", -1), Index("i2", "add", <<"i0", "neg">>, <<b[1]>>), Const("two", 2),
                          Index("i3", "div", <<"i2", "two">>, <<b[1]>>),
                          O("row", "expand_dims", <<"i3">>, "index", <<b[1], 1>>, 1)>>),
         Edit(p, "row", <<Const("two", 2), Index("i2", "mul", <<"i0", "two">>, <<b[1]>>),
                          Index("i3", "ceildiv", <<"i2", "two">>, <<b[1]>>),
                          O("row", "expand_dims", <<"i3">>, "index", <<b[1], 1>>, 1)>>),
         Edit(p, "row", <<Const("two", 2), Index("i2", "mul", <<"i0", "two">>, <<b[1]>>),
                          Index("i3", "add", <<"i2", "r0">>, <<b[1]>>), Index("i4", "ceildiv", <<"i3", "two">>, <<b[1]>>),
                          O("row", "expand_dims", <<"i4">>, "index", <<b[1], 1>>, 1)>>),
         Edit(p, "row", <<Const("two", 2), Index("i2", "mul", <<"i0", "two">>, <<b[1]>>), Const("one", 1),
                          Index("i3", "sub", <<"i2", "one">>, <<b[1]>>), Index("i4", "div", <<"i3", "two">>, <<b[1]>>),
                          O("row", "expand_dims", <<"i4">>, "index", <<b[1], 1>>, 1)>>),
         Edit(p, "row", <<Index("i2", "mul", <<"i0", "i0">>, <<b[1]>>),
                          O("row", "expand_dims", <<"i2">>, "index", <<b[1], 1>>, 1)>>),
         Edit(p, "row", <<Const("big", MaxInt), Index("i2", "add", <<"i0", "big">>, <<b[1]>>),
                          O("row", "expand_dims", <<"i2">>, "index", <<b[1], 1>>, 1)>>),
         Edit(p, "s0", <<Index("s0", "mul", <<"w0", "p1">>, <<>>)>>),
         Edit(p, "r0", <<O("r0", "range", <<>>, "index", <<b[1]>>, 1)>>),
         Edit(p, "pb", <<O("pb", "address", <<"B", "col", "row">>, "ptr", b, 0)>>),
         Edit(p, "pb", <<O("pb", "address", <<"A", "row", "col">>, "ptr", b, 0)>>),
         Edit(p, "sum", <<O("sum", "mul", <<"b", "a">>, "f32", b, 0)>>),
         Edit(p, "sum", <<O("sum", "sub", <<"a", "b">>, "f32", b, 0)>>),
         Edit(p, "sum", <<O("neg", "neg", <<"a">>, "f32", b, 0), O("sum", "add", <<"neg", "b">>, "f32", b, 0)>>),
         Edit(p, "sum", <<O("one", "add", <<"a", "b">>, "f32", b, 0), O("sum", "add", <<"one", "b">>, "f32", b, 0)>>),
         Edit(p, "sum", <<O("sum", "select", <<"mask", "a", "b">>, "f32", b, 0)>>),
         Edit(p, "sum", <<O("view", "broadcast", <<"a">>, "f32", b, <<0, 1>>), O("sum", "add", <<"view", "b">>, "f32", b, 0)>>),
         Edit(p, "sum", <<O("fm", "compare", <<"a", "b">>, "i1", b, "lt"), O("sum", "add", <<"a", "b">>, "f32", b, 0)>>),
         Edit(p, "st", <<O("st", "store", <<"pc", "a", "mask">>, "none", <<>>, 0)>>),
         Edit(p, "st", <<>>), Edit(p, "st", <<O("st", "store", <<"pc", "sum", "mask">>, "none", <<>>, 0),
                                              O("su", "store", <<"pc", "sum", "mask">>, "none", <<>>, 0)>>),
         Edit(p, "sum", <<O("sum", "add", <<"a", "gone">>, "f32", b, 0)>>),
         Edit(p, "sum", <<O("sum", "add", <<"a", "b">>, "f32", <<1, 1>>, 0)>>) >>

\* A column taken from a residue that the mask does not bound.
Residues(p) ==
  LET b == <<p.block[1], p.block[2]>>
      q == RowMajor(p, p.tensors[1].shape[2] - 1)
      zero == Const("nil", 0)
      addr(id, tensor) == O(id, "address", <<tensor, "ri", "cj">>, "ptr", b, 0)
  IN  Edit(Edit(Edit(Edit(q, "ci", <<Index("ci", "rem", <<"lin", "ld">>, b), zero, Index("cj", "add", <<"ci", "nil">>, b)>>),
       "pa", <<addr("pa", "A")>>), "pb", <<addr("pb", "B")>>), "pc", <<addr("pc", "C")>>)

Launches(p) ==
  << [p EXCEPT !.grid[1] = @ + 1], [p EXCEPT !.grid[3] = 2], [p EXCEPT !.numerics = "casts"],
     [p EXCEPT !.tensors[2].shape = <<9, 9>>], [p EXCEPT !.tensors[2].dir = "output"],
     [p EXCEPT !.tensors[2].name = "A"], Residues(p) >>

ElementPrograms ==
  { Elementwise(4, 4, 2, 2), Elementwise(3, 4, 2, 2), Elementwise(3, 3, 2, 2), Elementwise(2, 3, 2, 2),
    Elementwise(1, 3, 1, 2), Elementwise(3, 2, 4, 2), Elementwise(2, 2, 4, 2), Elementwise(5, 2, 4, 1) }
-----------------------------------------------------------------------------
RowMajorAddress(id, tensor, row, col, ld, rs, shape) ==
  << Index(id \o "s", "mul", <<row, ld>>, rs), Index(id \o "l", "add", <<id \o "s", col>>, shape),
     Index(id \o "r", "div", <<id \o "l", ld>>, shape), Index(id \o "c", "rem", <<id \o "l", ld>>, shape),
     O(id, "address", <<tensor, id \o "r", id \o "c">>, "ptr", shape, 0) >>
LoadOf(id, p, shape) == <<O(id, "load", <<p, "mask", "z">>, "f32", shape, 0)>>

\* An M x N output in 2 x 2 tiles, K in steps of 2.
AroundLoop(n, k) ==
  << O("p0", "program_id", <<>>, "index", <<>>, 0), O("p1", "program_id", <<>>, "index", <<>>, 1),
     Const("w", 2), Const("lo", 0), Const("hi", k), Const("ldn", n), Const("ldk", k),
     O("t", "constant", <<>>, "i1", <<>>, TRUE), O("z", "constant", <<>>, "f32", <<>>, 0),
     O("mask", "broadcast", <<"t">>, "i1", <<2, 2>>, <<>>), O("seed", "constant", <<>>, "f32", <<2, 2>>, 0),
     O("r", "range", <<>>, "index", <<2>>, 0),
     Index("s0", "mul", <<"p0", "w">>, <<>>), Index("s1", "mul", <<"p1", "w">>, <<>>),
     Index("i0", "add", <<"s0", "r">>, <<2>>), Index("i1", "add", <<"s1", "r">>, <<2>>),
     O("row", "expand_dims", <<"i0">>, "index", <<2, 1>>, 1),
     O("col", "expand_dims", <<"i1">>, "index", <<1, 2>>, 0) >>
  \o RowMajorAddress("pc", "C", "row", "col", "ldn", <<2, 1>>, <<2, 2>>)
ArmBody(arm, tensor, lhs) ==
  RowMajorAddress("pb" \o arm, tensor, "kr", "col", "ldn", <<2, 1>>, <<2, 2>>) \o LoadOf("b" \o arm, "pb" \o arm, <<2, 2>>)
    \o <<O("d" \o arm, "dot", <<lhs, "b" \o arm, "acc" \o arm>>, "f32", <<2, 2>>, 0)>>
LeftBody ==
  << Index("ki", "add", <<"k", "r">>, <<2>>), O("kr", "expand_dims", <<"ki">>, "index", <<2, 1>>, 1),
     O("kc", "expand_dims", <<"ki">>, "index", <<1, 2>>, 0) >>
  \o RowMajorAddress("pa", "A", "row", "kc", "ldk", <<2, 1>>, <<2, 2>>) \o LoadOf("a", "pa", <<2, 2>>)

Contraction(m, n, k) ==
  [tensors |-> <<Port("A", "input", m, k), Port("B", "input", k, n), Port("C", "output", m, n)>>,
   grid |-> <<m \div 2, n \div 2, 1>>, block |-> <<2, 2, 1>>, numerics |-> "strict", before |-> 23,
   ops |-> Append(AroundLoop(n, k), O("st", "store", <<"pc", "out1", "mask">>, "none", <<>>, 0)),
   loop |-> [results |-> <<"out1">>, args |-> <<"k", "acc1">>, in |-> <<"lo", "hi", "seed">>, step |-> 2,
             shape |-> <<2, 2>>, body |-> LeftBody \o ArmBody("1", "B", "a"), yield |-> <<"d1">>]]
Gate(m, n, k) ==
  LET p == Contraction(m, n, k)
  IN  [p EXCEPT !.tensors = <<p.tensors[1], p.tensors[2], Port("D", "input", k, n), p.tensors[3]>>,
                !.ops = AroundLoop(n, k) \o <<O("act", "silu", <<"out1">>, "f32", <<2, 2>>, 0),
                                              O("mul", "mul", <<"act", "out2">>, "f32", <<2, 2>>, 0),
                                              O("st", "store", <<"pc", "mul", "mask">>, "none", <<>>, 0)>>,
                !.loop = [@ EXCEPT !.results = <<"out1", "out2">>, !.args = <<"k", "acc1", "acc2">>,
                                   !.in = <<"lo", "hi", "seed", "seed">>,
                                   !.body = @ \o ArmBody("2", "D", "a"), !.yield = <<"d1", "d2">>]]

InBody(p, id, new) == [p EXCEPT !.loop.body = Put(@, id, new)]
OnTop(p, id, new) ==
  LET list == Put(p.ops, id, new) IN [p EXCEPT !.ops = list, !.before = @ + Len(new) - 1]
\* The caller's accumulator, read at the output tile.
Accumulated(p) ==
  LET q == OnTop(p, "seed", <<O("seed", "constant", <<>>, "f32", <<2, 2>>, 0)>>)
      loaded == RowMajorAddress("pi", "I", "row", "col", "ldn", <<2, 1>>, <<2, 2>>) \o LoadOf("init", "pi", <<2, 2>>)
  IN  [q EXCEPT !.ops = SubSeq(@, 1, 23) \o loaded \o SubSeq(@, 24, Len(@)), !.before = 23 + Len(loaded),
                !.loop.in[3] = "init", !.tensors = Append(@, Port("I", "input", q.tensors[1].shape[1], q.tensors[2].shape[2]))]

ContractionChanges(p) ==
  << p, Accumulated(p), [p EXCEPT !.numerics = "casts"], [p EXCEPT !.numerics = "relaxed"],
     OnTop(p, "hi", <<Const("hi", 2)>>), OnTop(p, "hi", <<Const("hi", 3)>>), OnTop(p, "lo", <<Const("lo", 2)>>),
     OnTop(p, "hi", <<O("hi", "program_id", <<>>, "index", <<>>, 0)>>),
     OnTop(p, "mask", <<O("f", "constant", <<>>, "i1", <<>>, FALSE), O("mask", "broadcast", <<"f">>, "i1", <<2, 2>>, <<>>)>>),
     OnTop(p, "mask", <<Less("c", "w", "lo", <<>>, "gt"), O("mask", "broadcast", <<"c">>, "i1", <<2, 2>>, <<>>)>>),
     OnTop(p, "seed", <<O("seed", "constant", <<>>, "f32", <<2, 2>>, 1)>>),
     OnTop(p, "seed", <<O("odd", "constant", <<>>, "f32", <<2, 2>>, 0), O("seed", "neg", <<"odd">>, "f32", <<2, 2>>, 0)>>),
     OnTop(p, "ldn", <<Const("ldn", 3)>>), OnTop(p, "ldk", <<Const("ldk", 3)>>),
     OnTop(p, "row", <<O("row", "expand_dims", <<"i1">>, "index", <<2, 1>>, 1)>>),
     OnTop(p, "s0", <<Index("s0", "ceildiv", <<"p0", "w">>, <<>>)>>),
     OnTop(p, "s0", <<Index("s0", "mul", <<"p0", "p1">>, <<>>)>>),
     OnTop(p, "r", <<Const("big", MaxInt), Index("bigger", "add", <<"big", "w">>, <<>>), O("r", "range", <<>>, "index", <<2>>, 0)>>),
     OnTop(p, "pc", <<O("pc", "address", <<"C", "row", "col">>, "ptr", <<2, 2>>, 0)>>),
     [p EXCEPT !.grid[1] = @ + 1], [p EXCEPT !.grid[3] = 2], [p EXCEPT !.loop.step = 1],
     [p EXCEPT !.ops = Append(@, O("su", "store", <<"pc", "out1", "mask">>, "none", <<>>, 0))],
     [p EXCEPT !.ops = Append(@, O("extra", "neg", <<"out1">>, "f32", <<2, 2>>, 0))],
     [p EXCEPT !.ops = Append(@, O("dd", "dot", <<"seed", "seed", "seed">>, "f32", <<2, 2>>, 0))],
     [p EXCEPT !.loop.yield[1] = "acc1"], [p EXCEPT !.loop.yield[1] = "k"],
     [p EXCEPT !.tensors = Append(@, Port("E", "input", 2, 2))],
     InBody(p, "kr", <<O("kr", "expand_dims", <<"r">>, "index", <<2, 1>>, 1)>>),
     InBody(p, "ki", <<Index("ki", "sub", <<"r", "k">>, <<2>>)>>),
     InBody(p, "a", <<O("neg", "neg", <<"seed">>, "f32", <<2, 2>>, 0), O("a", "neg", <<"neg">>, "f32", <<2, 2>>, 0)>>),
     InBody(p, "b1", LoadOf("b1", "pa", <<2, 2>>)),
     InBody(p, "a", LoadOf("a", "pa", <<2, 2>>) \o <<O("more", "neg", <<"a">>, "f32", <<2, 2>>, 0)>>),
     InBody(p, "d1", <<O("d1", "dot", <<"a", "b1", "seed">>, "f32", <<2, 2>>, 0)>>),
     InBody(p, "d1", <<O("d1", "dot", <<"b1", "a", "acc1">>, "f32", <<2, 2>>, 0)>>),
     InBody(p, "d1", <<O("d1", "add", <<"a", "acc1">>, "f32", <<2, 2>>, 0)>>) >>
GateChanges(p) ==
  << p, [p EXCEPT !.loop.yield = <<"d2", "d1">>],
     InBody(InBody(p, "d1", <<O("d1", "dot", <<"a", "b1", "acc2">>, "f32", <<2, 2>>, 0)>>),
            "d2", <<O("d2", "dot", <<"a", "b2", "acc1">>, "f32", <<2, 2>>, 0)>>),
     InBody(p, "d2", <<O("d2", "dot", <<"a", "b1", "acc2">>, "f32", <<2, 2>>, 0)>>),
     InBody(p, "d2", LoadOf("a2", "pa", <<2, 2>>) \o <<O("d2", "dot", <<"a2", "b2", "acc2">>, "f32", <<2, 2>>, 0)>>),
     OnTop(p, "mul", <<O("mul", "mul", <<"out2", "act">>, "f32", <<2, 2>>, 0)>>),
     OnTop(p, "mul", <<O("mul", "add", <<"act", "out2">>, "f32", <<2, 2>>, 0)>>),
     OnTop(p, "act", <<O("act", "neg", <<"out1">>, "f32", <<2, 2>>, 0)>>),
     [p EXCEPT !.loop.in[4] = "pcl"], Accumulated(p) >>

Contractions == {Contraction(4, 4, 4), Contraction(2, 4, 2), Contraction(4, 2, 6)}
-----------------------------------------------------------------------------
Requested(list) == \E i \in DOMAIN list : ImportInit(list[i])
MCImportInit ==
  \/ \E p \in ElementPrograms : Requested(Changes(p)) \/ Requested(Launches(p))
  \/ \E p \in Contractions : Requested(ContractionChanges(p))
  \/ \E p \in {Gate(4, 4, 4)} : Requested(GateChanges(p))
ImportSpec == MCImportInit /\ [][ImportNext]_importVars
=============================================================================
