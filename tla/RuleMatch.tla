------------------------------ MODULE RuleMatch ------------------------------
(***************************************************************************)
(* Mapping rules (lib/Mapping/MappingRules.cpp): parsing a rule, matching  *)
(* it against one operation or a subgraph, and turning a match into a      *)
(* candidate.                                                              *)
(*                                                                         *)
(* A rule's text is its id and its statements.  Rule ids and workload node *)
(* ids are numbers, whose order stands for the order of the ids.  A port   *)
(* name is a record: [port] as a rule declares it, [node, dir, index] for  *)
(* an occurrence on a match's boundary.                                    *)
(***************************************************************************)
EXTENDS LayoutSolve

CONSTANTS
  Operations,       \* isWorkloadNodeOp
  MaxPatternNodes,  \* kMaxPatternNodes
  MaxAssignments,   \* kMaxRuleAssignments: assignments, and quantifier steps
  NoPort, NoPattern

NoRule == [ok |-> FALSE]
RuleStart(text) ==
  [ok |-> TRUE, id |-> text.id, version |-> text.version, op |-> "", preds |-> <<>>, pattern |-> NoPattern, params |-> <<>>,
   domains |-> <<>>, constraints |-> <<>>, kinds |-> <<>>, layouts |-> <<>>, ports |-> <<>>,
   bundle |-> "", bundleParams |-> <<>>, emit |-> "", cost |-> NoPort]

(* Parsing *)

RECURSIVE IsAffineSpecExpr(_)
IsAffineSpecExpr(e) ==
  CASE e.kind \in {"int", "id"} -> TRUE
    [] e.kind = "unary" -> e.text = "-" /\ IsAffineSpecExpr(e.args[1])
    [] e.kind = "binary" ->
         /\ e.text \in {"*", "+", "-", "/", "%"}
         /\ e.text = "*" => e.args[1].kind = "int" \/ e.args[2].kind = "int"
         /\ IsAffineSpecExpr(e.args[1]) /\ IsAffineSpecExpr(e.args[2])
    [] e.kind = "call" ->
         /\ e.text \in {"floordiv", "ceildiv", "mod"} /\ Len(e.args) = 2
         /\ IsAffineSpecExpr(e.args[1]) /\ IsAffineSpecExpr(e.args[2])
    [] OTHER -> FALSE

\* parsePredicate: what a predicate may say depends on its name; only the
\* three type facts may be asked of a port.  An access map's results are
\* affine in its own dimensions.
PredicateOk(p) ==
  CASE p.name = "element_type" -> IsText(p.value)
    [] p.name = "shape" -> IsInt(p.value)
    [] p.name = "access_map" ->
         \A i \in DOMAIN p.map.results :
           \E r \in {ParseAll(p.map.results[i], ToSet(p.map.dims))} : r.ok /\ IsAffineSpecExpr(r.e)
    [] OTHER -> p.on = NoPort

AffineMapSpec(m) == [m EXCEPT !.results = [i \in DOMAIN m.results |-> ParseExpression(m.results[i]).e]]
ParsePredicate(p) == IF p.name = "access_map" THEN [p EXCEPT !.map = AffineMapSpec(p.map)] ELSE p
ParsePredicates(ps) == [i \in DOMAIN ps |-> ParsePredicate(ps[i])]

\* Nodes are named once, edges are stated once and join declared nodes,
\* wherever those are declared.  The first node is the anchor.
ParseGraphMatch(def, st) ==
  LET names == {st.nodes[i].name : i \in DOMAIN st.nodes} IN
  IF /\ st.nodes # <<>>
     /\ ~HasDuplicates([i \in DOMAIN st.nodes |-> st.nodes[i].name])
     /\ \A i \in DOMAIN st.nodes : /\ st.nodes[i].op \in Operations
                                   /\ \A j \in DOMAIN st.nodes[i].preds : PredicateOk(st.nodes[i].preds[j])
     /\ ~HasDuplicates(st.edges)
     /\ \A i \in DOMAIN st.edges : {st.edges[i].from, st.edges[i].to} \subseteq names
    THEN [def EXCEPT !.op = st.nodes[1].op,
            !.pattern = [nodes |-> [i \in DOMAIN st.nodes |->
                                      [st.nodes[i] EXCEPT !.preds = ParsePredicates(st.nodes[i].preds)]],
                         edges |-> st.edges]]
    ELSE NoRule

ParseMatch(def, st) ==
  IF def.op # "" THEN NoRule
  ELSE IF "nodes" \in DOMAIN st THEN ParseGraphMatch(def, st)
  ELSE IF st.op \in Operations /\ \A i \in DOMAIN st.preds : PredicateOk(st.preds[i])
    THEN [def EXCEPT !.op = st.op, !.preds = ParsePredicates(st.preds)]
    ELSE NoRule

\* A param statement both declares and bounds the parameter.
ParseRuleDomain(def, st) ==
  LET values == DomainValues(st.dom) IN
  IF st.name \in DOMAIN def.domains \/ values = <<>> THEN NoRule
  ELSE [def EXCEPT !.domains = (st.name :> values) @@ def.domains,
                   !.params = Append(def.params,
                       [name |-> st.name, symbolic |-> \E i \in DOMAIN values : IsText(values[i])])]

\* Only memory may name a port.  Two requirements of one role and kind
\* collide unless they name two different ports.
ParseKindRequirement(def, st) ==
  IF \/ st.port # NoPort /\ st.role # "memory"
     \/ \E i \in DOMAIN def.kinds :
          LET k == def.kinds[i] IN
          k.role = st.role /\ k.kind = st.kind /\ (NoPort \in {k.port, st.port} \/ k.port = st.port)
    THEN NoRule
    ELSE [def EXCEPT !.kinds = Append(def.kinds, [role |-> st.role, kind |-> st.kind, port |-> st.port])]

\* A constraint may name the parameters declared above it.
Constrained(def, p) == IF p.ok THEN [def EXCEPT !.constraints = Append(def.constraints, p.e)] ELSE NoRule
ParseRuleRequire(def, st) == Constrained(def, ParseAll(st.expr, Names(def.params) \cup Facts))

ParseMetadata(def, st) ==
  CASE st.kw = "bundle" ->
         IF def.bundle # "" THEN NoRule
         ELSE [def EXCEPT !.bundle = st.name, !.bundleParams = st.params]
    [] st.kw = "emit" -> IF def.emit # "" THEN NoRule ELSE [def EXCEPT !.emit = st.name]
    [] st.kw = "cost" -> IF def.cost # NoPort THEN NoRule ELSE [def EXCEPT !.cost = Int64(st.cost)]

ParseRuleStatement(def, st) ==
  CASE ~def.ok -> def
    [] st.kw = "match" -> ParseMatch(def, st)
    [] st.kw = "param" -> ParseRuleDomain(def, st)
    [] st.kw = "kind" -> ParseKindRequirement(def, st)
    [] st.kw = "layout" -> [def EXCEPT !.layouts = Append(def.layouts, [port |-> st.port, layout |-> st.layout])]
    [] st.kw = "require" -> ParseRuleRequire(def, st)
    [] st.kw = "port" ->
         IF \E i \in DOMAIN def.ports : def.ports[i].name = st.name THEN NoRule
         ELSE [def EXCEPT !.ports = Append(def.ports, [name |-> st.name, in |-> st.in])]
    [] st.kw \in {"bundle", "emit", "cost"} -> ParseMetadata(def, st)
    [] OTHER -> NoRule

\* The whole body is read before ports are resolved and gaps reported.
CompleteRule(def) ==
  IF ~def.ok THEN NoRule
  ELSE IF def.op = "" \/ def.bundle = "" \/ def.emit = "" THEN NoRule
  ELSE IF \E i \in DOMAIN def.kinds :
            def.kinds[i].port # NoPort /\ def.kinds[i].port \notin ToSet(def.ports) THEN NoRule
  ELSE def
ParseRule(text) == CompleteRule(FoldLeft(ParseRuleStatement, RuleStart(text), text.stmts))

\* RuleRegistry::add keeps the rules in id order; a second rule of an id is
\* refused.
AddRule(defs, def) == SortSeq(Append(defs, def), LAMBDA a, b : a.id < b.id)
HasRule(defs, id) == \E i \in DOMAIN defs : defs[i].id = id

\* printRule: the match, then the parameters in declaration order, what is
\* required, the ports and the metadata, whatever order the file had.
PrintPredicate(p) ==
  IF p.name # "access_map" THEN p
  ELSE [p EXCEPT !.map.results = [i \in DOMAIN p.map.results |-> PrintExpr(p.map.results[i])]]
PrintPredicates(ps) == [i \in DOMAIN ps |-> PrintPredicate(ps[i])]
PrintMatch(def) ==
  IF def.pattern = NoPattern THEN [kw |-> "match", op |-> def.op, preds |-> PrintPredicates(def.preds)]
  ELSE [kw |-> "match", edges |-> def.pattern.edges,
        nodes |-> [i \in DOMAIN def.pattern.nodes |->
                     [def.pattern.nodes[i] EXCEPT !.preds = PrintPredicates(def.pattern.nodes[i].preds)]]]
PrintRequirements(def) ==
  [i \in DOMAIN def.constraints |-> [kw |-> "require", expr |-> PrintExpr(def.constraints[i])]]
  \o [i \in DOMAIN def.kinds |->
        [kw |-> "kind", role |-> def.kinds[i].role, kind |-> def.kinds[i].kind, port |-> def.kinds[i].port]]
  \o [i \in DOMAIN def.layouts |->
        [kw |-> "layout", port |-> def.layouts[i].port, layout |-> def.layouts[i].layout]]
PrintMetadata(def) ==
  <<[kw |-> "bundle", name |-> def.bundle, params |-> def.bundleParams], [kw |-> "emit", name |-> def.emit]>>
  \o (IF def.cost = NoPort THEN <<>> ELSE <<[kw |-> "cost", cost |-> def.cost.int]>>)
PrintRule(def) ==
  [id |-> def.id, version |-> def.version,
   stmts |-> <<PrintMatch(def)>>
             \o [i \in DOMAIN def.params |->
                   [kw |-> "param", name |-> def.params[i].name, dom |-> PrintDomain(def.domains[def.params[i].name])]]
             \o PrintRequirements(def)
             \o [i \in DOMAIN def.ports |-> [kw |-> "port", name |-> def.ports[i].name, in |-> def.ports[i].in]]
             \o PrintMetadata(def)]
-----------------------------------------------------------------------------
(* Matching one operation *)

SubjectPorts(p, n) ==
  IF p.on # NoPort
    THEN LET ports == IF p.on.in THEN n.ins ELSE n.outs IN
         IF p.on.index < Len(ports) THEN {ports[p.on.index + 1]} ELSE {}
    ELSE ToSet(IF p.name = "shape" THEN n.outs ELSE n.ins)

\* A fact predicate holds when some subject exposes the fact and every subject
\* that exposes it has the value.
PredicateMatches(p, n) ==
  LET ports == SubjectPorts(p, n)
      typed == {q \in ports : q.elem # ""}
      shaped == {q \in ports : q.shape # NoPort}
      deep == {q \in shaped : p.dim < Len(q.shape)}
      mapped == {q \in ports : q.map # NoMap}
  IN  CASE p.name = "element_type" -> typed # {} /\ \A q \in typed : Text(q.elem) = p.value
        [] p.name = "shape" -> deep # {} /\ \A q \in deep : Int64(q.shape[p.dim + 1]) = p.value
        [] p.name = "access_map" -> mapped # {} /\ \A q \in mapped : q.map = BuildAffineMap(p.map, <<>>)
        [] OTHER -> p.name \in DOMAIN n.attrs /\ n.attrs[p.name] = p.value

PredicatesHold(ps, n) == \A i \in DOMAIN ps : PredicateMatches(ps[i], n)

\* matchRules: a graph rule is never offered for one operation.
MatchRules(n, rules) ==
  SelectSeq(rules, LAMBDA r : r.pattern = NoPattern /\ r.op = n.op /\ PredicatesHold(r.preds, n))
-----------------------------------------------------------------------------
(* Matching a subgraph: the pattern's nodes are bound in declaration order *)

EdgeHolds(producer, consumer, e) ==
  /\ e.result < Len(producer.outs) /\ e.operand < Len(consumer.ins)
  /\ producer.outs[e.result + 1].value = consumer.ins[e.operand + 1].value

PatternIndex(pattern, name) == CHOOSE i \in DOMAIN pattern.nodes : pattern.nodes[i].name = name

\* The edges between the candidate and what is already bound; an edge to a
\* later node, or from a node to itself, waits for the final check.
PartialEdgesHold(pattern, bound, n) ==
  LET name == pattern.nodes[Len(bound) + 1].name IN
  \A k \in DOMAIN pattern.edges :
    LET e == pattern.edges[k]
        from == PatternIndex(pattern, e.from)
        to == PatternIndex(pattern, e.to)
    IN  CASE e.to = name -> from \in DOMAIN bound => EdgeHolds(bound[from], n, e)
          [] e.from = name -> to \in DOMAIN bound => EdgeHolds(n, bound[to], e)
          [] OTHER -> TRUE

AllEdgesHold(pattern, bound) ==
  \A k \in DOMAIN pattern.edges :
    LET e == pattern.edges[k] IN
    EdgeHolds(bound[PatternIndex(pattern, e.from)], bound[PatternIndex(pattern, e.to)], e)

RECURSIVE Bindings(_, _, _)
\* recurse: candidates in node order, no node twice.
Bindings(pattern, nodes, bound) ==
  IF Len(bound) = Len(pattern.nodes)
    THEN IF AllEdgesHold(pattern, bound) THEN <<bound>> ELSE <<>>
    ELSE LET want == pattern.nodes[Len(bound) + 1]
             fits(n) == /\ n.op = want.op /\ PredicatesHold(want.preds, n)
                        /\ n \notin ToSet(bound) /\ PartialEdgesHold(pattern, bound, n)
         IN  FlattenSeq([i \in DOMAIN nodes |->
                           IF fits(nodes[i]) THEN Bindings(pattern, nodes, Append(bound, nodes[i])) ELSE <<>>])

\* The occurrences of matched nodes that no pattern edge ends at.
Boundary(pattern, bound) ==
  UNION {{[node |-> pattern.nodes[i].name, dir |-> "operand", index |-> k - 1, at |-> bound[i].id] :
            k \in {k \in DOMAIN bound[i].ins :
                     ~\E e \in ToSet(pattern.edges) : e.to = pattern.nodes[i].name /\ e.operand = k - 1}}
         \cup {[node |-> pattern.nodes[i].name, dir |-> "result", index |-> k - 1, at |-> bound[i].id] :
            k \in {k \in DOMAIN bound[i].outs :
                     ~\E e \in ToSet(pattern.edges) : e.from = pattern.nodes[i].name /\ e.result = k - 1}} :
         i \in DOMAIN bound}
-----------------------------------------------------------------------------
(* From a match to a candidate *)

FirstFact(ports, fact, none, default) ==
  LET i == SelectInSeq(ports, LAMBDA q : q[fact] # none) IN IF i = 0 THEN default ELSE ports[i][fact]

\* ruleLayoutContext: the operation's own element type and rank, before the
\* caller's.
RuleLayoutContext(n, ctx) ==
  LET shape == FirstFact(n.outs \o n.ins, "shape", NoPort, NoPort) IN
  [ctx EXCEPT !.elem = FirstFact(n.ins \o n.outs, "elem", "", ctx.elem),
              !.rank = IF shape = NoPort THEN ctx.rank ELSE Len(shape)]

Referenced(rule) == UNION {CollectIdentifiers(rule.constraints[i], {}) : i \in DOMAIN rule.constraints}
PinnedDomains(rule, pins) ==
  [x \in Names(rule.params) |-> IF x \in DOMAIN pins THEN <<pins[x]>> ELSE rule.domains[x]]
PinsOutside(rule, pins) ==
  \E x \in Names(rule.params) \cap DOMAIN pins : pins[x] \notin ToSet(rule.domains[x])
RuleSpace(rule, pins) == Assignments(NamesOf(rule), PinnedDomains(rule, pins))
RuleEnv(rule, n, ctx, values) == Env(values, rule.domains, RuleLayoutContext(n, ctx), MaxAssignments)

Resolution(matched, truncated, params) == [matched |-> matched, truncated |-> truncated, params |-> params]

\* A satisfying assignment is refused once a quantifier ran out of budget, and
\* otherwise records the parameters a constraint reads.
AcceptAssignment(rule, values, b) ==
  IF b.exhausted THEN Resolution(FALSE, TRUE, <<>>)
  ELSE Resolution(TRUE, FALSE, [x \in DOMAIN values \cap Referenced(rule) |-> values[x]])

\* The walk over the assignments that may be tried, up to the first that
\* satisfies every constraint; one that cannot be evaluated does not.
WalkAssignments(rule, n, ctx, tries) ==
  FoldLeft(LAMBDA acc, values :
             IF acc.done THEN acc
             ELSE CHOOSE r \in {IF j.v = "yes" THEN [done |-> TRUE, b |-> j.b, r |-> AcceptAssignment(rule, values, j.b)]
                                ELSE [acc EXCEPT !.b = j.b] :
                                j \in {Judge(rule.constraints, RuleEnv(rule, n, ctx, values), acc.b)}} : TRUE,
           [done |-> FALSE, b |-> Fresh, r |-> <<>>], tries)
WalkResult(walk, cut) == IF walk.done THEN walk.r ELSE Resolution(FALSE, cut \/ walk.b.exhausted, <<>>)
ResolveIn(rule, n, ctx, space) ==
  WalkResult(WalkAssignments(rule, n, ctx, SubSeq(space, 1, Min({Len(space), MaxAssignments}))),
             Len(space) > MaxAssignments)

ResolveRuleConstraints(rule, n, ctx, pins) ==
  IF rule.constraints = <<>> THEN Resolution(TRUE, FALSE, <<>>)
  ELSE IF PinsOutside(rule, pins) THEN Resolution(FALSE, FALSE, <<>>)
  ELSE ResolveIn(rule, n, ctx, RuleSpace(rule, pins))

\* The occurrence a rule port stands for: its place among the ports of its
\* direction; NoPort when the operation has none there.
PortRef(rule, n, name) ==
  LET i == SelectInSeq(rule.ports, LAMBDA q : q.name = name)
      same == SelectSeq(SubSeq(rule.ports, 1, i), LAMBDA q : q.in = rule.ports[i].in)
      there == IF rule.ports[i].in THEN n.ins ELSE n.outs
  IN  IF i = 0 THEN NoPort
      ELSE IF Len(same) > Len(there) THEN NoPort
      ELSE [node |-> n.id, dir |-> IF rule.ports[i].in THEN "operand" ELSE "result", index |-> Len(same) - 1]

PortAt(n, ref) == (IF ref.dir = "operand" THEN n.ins ELSE n.outs)[ref.index + 1]

\* A bound layout vetoes a rule that takes on an obligation it cannot meet; a
\* role the rule does not mention, or a rule without obligations, is no veto.
LayoutsAdmit(rule, bound) ==
  rule.layouts # <<>> =>
    \A role \in DOMAIN bound :
      LET there == {r \in ToSet(rule.layouts) : role = "" \/ r.port = [port |-> role]} IN
      (role = "" \/ there # {}) => \E r \in there : r.layout = bound[role]

\* Of the declared layouts, the one the binding selects for the port, or for
\* every port.
LayoutKept(r, bound) ==
  LET role == IF "port" \in DOMAIN r.port THEN r.port.port ELSE "" IN
  CASE role # "" /\ role \in DOMAIN bound -> r.layout = bound[role]
    [] "" \in DOMAIN bound -> r.layout = bound[""]
    [] OTHER -> TRUE

\* projectBoundAxes: the owner chain must be modelled and agree with the rule;
\* its head becomes an executor requirement and its compute kinds compute
\* requirements.  The memory path must hold every memory the rule requires.
KindsOf(rule, role) == LET of == SelectSeq(rule.kinds, LAMBDA k : k.role = role) IN [i \in DOMAIN of |-> of[i].kind]
ChainComputes(chain, fabric) == SelectSeq(Tail(chain), LAMBDA k : k \in fabric.computeKinds)
OwnerAdmits(rule, chain, fabric) ==
  chain # <<>> =>
    /\ Head(chain) \in fabric.ownerKinds
    /\ ToSet(KindsOf(rule, "executor")) \subseteq {Head(chain)}
    /\ ToSet(Tail(chain)) \subseteq fabric.ownerKinds \cup fabric.computeKinds
    /\ LET cs == ToSet(ChainComputes(chain, fabric)) IN
       cs # {} => ToSet(KindsOf(rule, "compute")) \subseteq cs
PathAdmits(rule, path, fabric) ==
  path # <<>> => /\ ToSet(path) \subseteq fabric.memoryKinds
                 /\ ToSet(KindsOf(rule, "memory")) \subseteq ToSet(path)
Extended(s, more) == FoldLeft(LAMBDA acc, x : IF x \in ToSet(acc) THEN acc ELSE Append(acc, x), s, more)

NoCandidate(truncated) == [ok |-> FALSE, truncated |-> truncated]

\* The layout requirements of a candidate, each on the occurrence its port
\* stands for (NoPort when the port is not the rule's).
LayoutRequirements(rule, n, bound) ==
  LET kept == SelectSeq(rule.layouts, LAMBDA r : LayoutKept(r, bound)) IN
  [i \in DOMAIN kept |->
     LET ref == PortRef(rule, n, kept[i].port) IN
     [layout |-> kept[i].layout, port |-> ref,
      elem |-> IF ref = NoPort THEN "" ELSE PortAt(n, ref).elem,
      shape |-> IF ref = NoPort THEN NoPort ELSE PortAt(n, ref).shape]]

\* buildBundleParameters: a symbolic parameter that names a resolved integer
\* takes its value.
BundleParameters(rule, params) ==
  [x \in DOMAIN rule.bundleParams |->
     IF IsText(rule.bundleParams[x])
       THEN IF rule.bundleParams[x].str \in {y \in DOMAIN params : IsInt(params[y])}
              THEN params[rule.bundleParams[x].str] ELSE rule.bundleParams[x]
       ELSE rule.bundleParams[x]]

MemoriesOf(rule, n) ==
  LET mems == SelectSeq(rule.kinds, LAMBDA k : k.role = "memory") IN
  [i \in DOMAIN mems |-> [kind |-> mems[i].kind, named |-> mems[i].port # NoPort,
                          port |-> IF mems[i].port = NoPort THEN NoPort ELSE PortRef(rule, n, mems[i].port.name)]]

\* bound: [pins, layouts, owner, path], what the search-space point fixes; res
\* is what the constraints resolved to.
CandidateOf(rule, n, fabric, bound, res, mems) ==
  IF ~res.matched THEN NoCandidate(res.truncated)
  ELSE IF \/ ~LayoutsAdmit(rule, bound.layouts)
          \/ \E i \in DOMAIN mems : mems[i].named /\ mems[i].port = NoPort
          \/ ~OwnerAdmits(rule, bound.owner, fabric)
          \/ ~PathAdmits(rule, bound.path, fabric) THEN NoCandidate(FALSE)
  ELSE [ok |-> TRUE, truncated |-> FALSE, rule |-> rule.id, nodes |-> <<n.id>>, params |-> res.params,
        bundle |-> BundleParameters(rule, res.params),
        ports |-> {[name |-> rule.ports[i].name, at |-> PortRef(rule, n, rule.ports[i].name)] : i \in DOMAIN rule.ports},
        execs |-> IF bound.owner = <<>> THEN KindsOf(rule, "executor")
                  ELSE Extended(KindsOf(rule, "executor"), <<Head(bound.owner)>>),
        computes |-> IF bound.owner = <<>> THEN KindsOf(rule, "compute")
                     ELSE Extended(KindsOf(rule, "compute"), ChainComputes(bound.owner, fabric)),
        mems |-> [i \in DOMAIN mems |-> [kind |-> mems[i].kind, port |-> mems[i].port]],
        layouts |-> LayoutRequirements(rule, n, bound.layouts)]

ToMappingCandidate(rule, n, fabric, ctx, bound) ==
  CandidateOf(rule, n, fabric, bound, ResolveRuleConstraints(rule, n, ctx, bound.pins), MemoriesOf(rule, n))

NameOf(p) == [node |-> p.node, dir |-> p.dir, index |-> p.index]
RefOf(p) == [node |-> p.at, dir |-> p.dir, index |-> p.index]
Occurrence(edge, name) == {p \in edge : NameOf(p) = name}
OnBoundary(req, n, p) == [req EXCEPT !.port = RefOf(p), !.elem = PortAt(n, RefOf(p)).elem,
                                     !.shape = PortAt(n, RefOf(p)).shape]

\* The candidate of the anchor is given the match's nodes and boundary; a
\* layout requirement moves to the boundary occurrence it names, and one that
\* names none refuses the match.
FuseCandidate(rule, found, c, edge) ==
  IF ~c.ok THEN c
  ELSE IF \/ Len(c.layouts) # Len(rule.layouts)
          \/ \E i \in DOMAIN rule.layouts : Occurrence(edge, rule.layouts[i].port) = {} THEN NoCandidate(FALSE)
  ELSE [c EXCEPT !.nodes = [i \in DOMAIN found |-> found[i].id],
          !.ports = {[name |-> NameOf(p), at |-> RefOf(p)] : p \in edge},
          !.layouts = [i \in DOMAIN rule.layouts |->
             CHOOSE r \in {OnBoundary(c.layouts[i], found[PatternIndex(rule.pattern, p.node)], p) :
                             p \in Occurrence(edge, rule.layouts[i].port)} : TRUE]]

ToFusedMappingCandidate(rule, found, fabric, ctx, bound) ==
  FuseCandidate(rule, found, ToMappingCandidate(rule, found[1], fabric, ctx, bound), Boundary(rule.pattern, found))
=============================================================================
