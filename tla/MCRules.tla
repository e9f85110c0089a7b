------------------------------- MODULE MCRules -------------------------------
EXTENDS RuleTables

(* Layout files.  One machine models four lanes of f32 on its vector unit. *)
Q(s) == Str(s)
Lanes == <<Id("machine.compute"), P("("), Q("vec"), P(")"), P("."), Id("lanes"), P("("),
           Id("element_type"), P(")")>>
MCMachine ==
  [count |-> ("vec" :> 2), lanes |-> (<<"vec", "f32">> :> 4),
   capacity_bytes |-> ("sram" :> 64), alignment_bytes |-> ("sram" :> 8),
   executors |-> ("worker" :> <<Text("w0"), Text("w1")>>)]
MCContexts == {[rank |-> r, elem |-> e, machine |-> MCMachine] : r \in {0, 2}, e \in {"f32", "i8"}}

IntParam(x) == [name |-> x, symbolic |-> FALSE]
SymParam(x) == [name |-> x, symbolic |-> TRUE]
From(x, lo, hi) == [kw |-> "param", name |-> x, dom |-> [lower |-> lo, upper |-> hi]]
OneOf(x, vs) == [kw |-> "param", name |-> x, dom |-> [members |-> vs]]
Require(ts) == [kw |-> "require", expr |-> ts]
Decl(id, ps, stmts) == [id |-> id, params |-> ps, stmts |-> stmts]
Quantified(q, x, d, body) == <<P("("), Id(q), Id(x), Id("in")>> \o d \o <<P(":")>> \o body \o <<P(")")>>
DomainOf(x) == <<Id("domain"), P("("), Id(x), P(")")>>

Blocked ==
  Decl("blocked", <<IntParam("VW"), SymParam("order")>>,
       <<OneOf("order", <<Text("row"), Text("col")>>), From("VW", 1, 4),
         Require(<<Id("VW"), P("*"), Num(2), P("+"), Num(0), P("<=")>> \o Lanes),
         Require(<<P("!"), P("("), Id("order"), P("=="), Q("row"), P("&&"), Id("VW"), P("%"), Num(2), P("=="),
                   Num(1), P(")")>>),
         [kw |-> "map", dims |-> <<"i", "j">>,
          results |-> <<<<Id("i"), P("/"), Id("VW")>>, <<P("-"), Id("i"), P("-"), Id("VW"), P("*"), Id("j")>>>>],
         [kw |-> "implements", kind |-> "packed"]>>)

Wide ==
  Decl("wide", <<IntParam("N"), IntParam("M")>>,
       <<OneOf("N", <<Int64(2), Int64(1), Int64(3)>>), OneOf("M", <<Int64(0), Int64(2)>>),
         Require(<<P("!")>> \o Quantified("forall", "d", <<Id("dimensions")>>, <<Id("d"), P("<"), Id("M")>>)
                   \o <<P("||"), Id("max"), P("("), Id("N"), P(","), Id("M"), P(")"), P("=="), Num(2)>>),
         Require(Quantified("exists", "N", <<Id("executors"), P("("), Q("worker"), P(")")>>, <<Id("N"), P("!="), Q("w0")>>))>>)

\* Quantifies over a declared domain: N is the largest of it.
Largest ==
  Decl("largest", <<IntParam("N")>>,
       <<From("N", 1, 3), Require(Quantified("forall", "v", DomainOf("N"), <<Id("v"), P("<="), Id("N")>>))>>)

Every ==
  Decl("every", <<IntParam("N")>>,
       <<From("N", 2, 3), Require(Quantified("forall", "v", DomainOf("N"), <<Id("v"), P(">="), Num(2)>>))>>)

\* Declarations that fail to solve or to parse.
Divides == Decl("divides", <<IntParam("N")>>, <<From("N", 0, 1), Require(<<Num(4), P("/"), Id("N"), P(">"), Num(0)>>)>>)
Curved == Decl("curved", <<IntParam("N")>>,
               <<From("N", 1, 2), [kw |-> "map", dims |-> <<"i">>, results |-> <<<<Id("i"), P("*"), Id("i")>>>>]>>)
Unbounded == Decl("unbounded", <<IntParam("N")>>, <<>>)
Misnamed == Decl("misnamed", <<>>, <<Require(<<Id("N"), P(">"), Num(0)>>)>>)

MCLayoutFiles ==
  {<<Blocked, Wide>>, <<Every, Divides, Curved, Unbounded>>, <<Wide, Misnamed>>, <<Every, Every>>}
MCDomainFiles == {<<Largest>>}
MCLimits == {[assignments |-> a, solutions |-> s, quantifier |-> q] : a \in {3, 20}, s \in {1, 20}, q \in {2, 5, 40}}
MCStrangers == {Int64(9)}

(* Rule files and searches.  A convolution feeds two activations, one of    *)
(* which is added to itself.                                               *)
Port(v, elem, shape) == [value |-> v, elem |-> elem, shape |-> shape, map |-> NoMap]
Plane == <<4, 4>>
IdMap == [dims |-> <<"i">>, results |-> <<Ident("i")>>]
MCNodes ==
  <<[id |-> 1, op |-> "conv", attrs |-> ("stride" :> Int64(1)),
     ins |-> <<Port("x", "f32", Plane), Port("w", "i8", Plane)>>, outs |-> <<Port("y", "f32", Plane)>>],
    [id |-> 2, op |-> "act", attrs |-> ("fn" :> Text("relu")),
     ins |-> <<[Port("y", "f32", Plane) EXCEPT !.map = IdMap]>>, outs |-> <<Port("p", "f32", Plane)>>],
    [id |-> 3, op |-> "act", attrs |-> ("fn" :> Text("gelu")),
     ins |-> <<Port("y", "", NoPort)>>, outs |-> <<Port("q", "", NoPort)>>],
    [id |-> 4, op |-> "add", attrs |-> <<>>,
     ins |-> <<Port("p", "f32", Plane), Port("p", "f32", Plane)>>, outs |-> <<Port("r", "f32", Plane)>>]>>

Worker(id, alike, twin) ==
  [id |-> id, kind |-> "worker", classes |-> {"worker", "core"}, alike |-> alike, twin |-> twin]
Fabric(twins) ==

  [executors |-> <<Worker("w0", 0, {}), Worker("w1", 0, twins), Worker("w2", 0, {}),
                   [Worker("host", 1, {}) EXCEPT !.kind = "host", !.classes = {"host", "core"}]>>,
   computes |-> <<[id |-> "v1", kind |-> "vec", at |-> "w1"], [id |-> "v2", kind |-> "vec", at |-> "w2"],
                  [id |-> "s2", kind |-> "vec", at |-> "w2"], [id |-> "m", kind |-> "mat", at |-> "host"]>>,
   memories |-> <<[id |-> "dram", kind |-> "dram", seenBy |-> {"w0", "w1", "w2", "host"}],
                  [id |-> "a", kind |-> "sram", seenBy |-> {"w1", "w2"}], [id |-> "b", kind |-> "sram", seenBy |-> {"w1"}]>>,
   ownerKinds |-> {"worker", "host", "core"}, computeKinds |-> {"vec", "mat"}, memoryKinds |-> {"dram", "sram"}]

Pred(name, on, dim, value) == [name |-> name, on |-> on, dim |-> dim, value |-> value, map |-> NoMap]
Pattern(name, op, preds) == [name |-> name, op |-> op, preds |-> preds]
Feeds(from, r, to, o) == [from |-> from, result |-> r, to |-> to, operand |-> o]
Kind(role, kind, port) == [kw |-> "kind", role |-> role, kind |-> kind, port |-> port]
RulePort(x, in) == [kw |-> "port", name |-> [port |-> x], in |-> in]
On(x, in) == [name |-> [port |-> x], in |-> in]
Uses(x, layout) == [kw |-> "layout", port |-> x, layout |-> layout]
Closing == <<[kw |-> "bundle", name |-> "k", params |-> ("width" :> Text("VW"))], [kw |-> "emit", name |-> "llvm"]>>
RuleText(id, stmts) == [id |-> id, version |-> (id % 2) + 1, stmts |-> stmts \o Closing]

\* One operation: a width, a compute and two memories, one on a port.
ConvRule ==
  RuleText(4, <<[kw |-> "match", op |-> "conv",
                 preds |-> <<Pred("element_type", [in |-> TRUE, index |-> 0], 0, Text("f32")),
                             Pred("shape", NoPort, 1, Int64(4)), Pred("stride", NoPort, 0, Int64(1))>>],
                From("VW", 1, 3), RulePort("a", TRUE), RulePort("c", FALSE),
                Kind("executor", "worker", NoPort), Kind("compute", "vec", NoPort),
                Kind("memory", "dram", NoPort), Kind("memory", "sram", On("c", FALSE)),
                Require(<<Id("VW"), P("*"), Num(2), P("=="), Id("rank"), P("*"), Id("VW")>>),
                Require(<<Num(2), P("<="), Id("VW")>>), [kw |-> "cost", cost |-> 3]>>)
\* Any activation on a core; decided by the element type alone.
ActRule ==
  RuleText(2, <<[kw |-> "match", op |-> "act", preds |-> <<>>], Kind("executor", "core", NoPort),
                OneOf("mode", <<Text("fast"), Text("f32")>>), Require(<<Id("mode"), P("=="), Id("element_type")>>)>>)
\* An activation with a layout on its operand, and one with an access map.
LaidRule(layout) ==
  RuleText(5, <<[kw |-> "match", op |-> "act", preds |-> <<Pred("fn", NoPort, 0, Text("relu"))>>],
                RulePort("a", TRUE), Uses([port |-> "a"], layout), Uses([port |-> "a"], "wide")>>)
MapRule ==
  RuleText(6, <<[kw |-> "match", op |-> "act",
                 preds |-> <<[Pred("access_map", NoPort, 0, Int64(0)) EXCEPT
                                !.map = [dims |-> <<"i">>, results |-> <<<<Id("i")>>>>]]>>],
                Kind("memory", "sram", NoPort), RulePort("a", TRUE), Uses([port |-> "a"], "wide")>>)
\* Two memory kinds on one port.
TwiceRule ==
  RuleText(7, <<[kw |-> "match", op |-> "add", preds |-> <<>>], RulePort("a", TRUE),
                Kind("memory", "dram", On("a", TRUE)), Kind("memory", "sram", On("a", TRUE))>>)
\* A quantifier over more values than the bound of a rule allows.
LongRule ==
  RuleText(8, <<[kw |-> "match", op |-> "add", preds |-> <<>>], From("N", 1, 4),
                Require(<<P("!")>> \o Quantified("exists", "v", DomainOf("N"),
                                                 <<Id("v"), P(">"), Id("N"), P("&&"), Id("N"), P("<"), Num(0)>>)),
                Require(<<Id("N"), P(">"), Num(2)>>)>>)

\* A convolution and its activation, the consumer declared first; and an
\* activation added to itself.
FuseRule ==
  RuleText(1, <<[kw |-> "match", nodes |-> <<Pattern("s", "act", <<>>), Pattern("cv", "conv", <<>>)>>,
                 edges |-> <<Feeds("cv", 0, "s", 0)>>],
                Kind("executor", "worker", NoPort),
                Uses([node |-> "cv", dir |-> "operand", index |-> 0], "wide")>>)
TwinRule ==
  RuleText(3, <<[kw |-> "match", nodes |-> <<Pattern("s", "act", <<>>), Pattern("p", "add", <<>>)>>,
                 edges |-> <<Feeds("s", 0, "p", 0), Feeds("s", 0, "p", 1)>>],
                From("N", 1, 4),
                Require(Quantified("forall", "v", DomainOf("N"), <<Id("v"), P("<="), Id("N")>>))>>)
WideRule ==
  RuleText(9, <<[kw |-> "match", nodes |-> [i \in 1 .. 4 |-> Pattern(i, "act", <<>>)], edges |-> <<>>]>>)

\* Files a parser must refuse.
Wrong(stmts) == <<RuleText(2, <<[kw |-> "match", op |-> "add", preds |-> <<>>]>> \o stmts)>>
WrongFiles ==
  {Wrong(<<[kw |-> "match", op |-> "add", preds |-> <<>>]>>), Wrong(<<From("N", 1, 0)>>),
   Wrong(<<Kind("memory", "dram", NoPort), RulePort("a", TRUE), Kind("memory", "dram", On("a", TRUE))>>),
   Wrong(<<Kind("memory", "dram", On("a", TRUE))>>), Wrong(<<Require(<<Id("N")>>)>>), Wrong(Closing),
   <<RuleText(2, <<>>)>>, <<RuleText(2, <<[kw |-> "match", op |-> "call", preds |-> <<>>]>>)>>, <<ActRule, ActRule>>}

Defs(file) == [i \in DOMAIN file |-> ParseLayout(file[i])]
Unbound == [pins |-> <<>>, layouts |-> <<>>, owner |-> <<>>, path |-> <<>>]
Caps(fused, candidates, instances, reduce) ==
  [fused |-> fused, candidates |-> candidates, instances |-> instances, reduce |-> reduce,
   solutions |-> 4, assignments |-> 20, quantifier |-> 40]
RuleCase(text, twins, bound, caps) ==
  [text |-> text, nodes |-> MCNodes, fabric |-> Fabric(twins), defs |-> Defs(<<Blocked, Wide, Divides>>),
   ctx |-> [rank |-> 2, elem |-> "f32", machine |-> MCMachine], bound |-> bound, limits |-> caps]

Library == <<ConvRule, ActRule, TwiceRule, FuseRule, TwinRule, WideRule, MapRule>>
MCRuleCases ==
  {RuleCase(Library, {}, Unbound, Caps(f, 4, n, r)) : f \in {0, 1, 3, 9}, n \in {1, 30}, r \in BOOLEAN}
  \cup {RuleCase(Library, {"w0"}, Unbound, Caps(9, 4, 30, TRUE)), RuleCase(Library, {}, Unbound, Caps(0, 0, 30, TRUE)),
        RuleCase(<<LongRule, ActRule>>, {}, Unbound, Caps(9, 4, 30, TRUE)),
        RuleCase(<<LaidRule("wide"), ConvRule>>, {}, Unbound, Caps(9, 1, 30, FALSE)),
        RuleCase(<<LaidRule("blocked"), ConvRule>>, {}, Unbound, Caps(9, 4, 30, FALSE)),
        RuleCase(<<LaidRule("divides")>>, {}, Unbound, Caps(9, 4, 30, FALSE)),
        RuleCase(<<LaidRule("blocked"), MapRule, FuseRule>>, {},
                 [Unbound EXCEPT !.layouts = ("a" :> "wide"), !.owner = <<"worker", "vec">>, !.path = <<"dram", "sram">>],
                 Caps(9, 4, 30, FALSE)),
        RuleCase(Library, {}, [Unbound EXCEPT !.pins = ("VW" :> Int64(3))], Caps(9, 4, 30, FALSE))}
  \cup {RuleCase(f, {}, Unbound, Caps(9, 4, 30, FALSE)) : f \in WrongFiles}

\* No file, and no search, is being worked on.
IdleLayout ==
  /\ lfile = <<>> /\ layouts = <<>> /\ lphase = "idle" /\ lcall = NoCall /\ tried = 0 /\ lbudget = Fresh
  /\ solutions = <<>> /\ undecided = FALSE /\ ltruncated = FALSE /\ recorded = NoRecord /\ lverdict = FALSE
IdleRules ==
  /\ rcase = NoCall /\ rphase = "idle" /\ rules = <<>> /\ rread = 0 /\ rwalked = 0 /\ rmatches = <<>> /\ rfused = <<>>
  /\ tables = <<>> /\ rtruncated = FALSE /\ silent = FALSE /\ rselected = NoSelection /\ rverdict = FALSE

MCOperations == {"conv", "act", "add"}

SpecLayout == InitLayout /\ IdleRules /\ [][NextLayout /\ UNCHANGED rvars]_<<layoutVars, rvars>>

=============================================================================
