----------------------------- MODULE RuleTables ------------------------------
(***************************************************************************)
(* From a rule file to the tables the covering search walks: the rules are *)
(* parsed into a registry, graph rules are matched against the workload    *)
(* under one shared budget, and each node's rules and matches are placed   *)
(* on the machine (CoveringSearch.cpp, enumeratePlacements of              *)
(* Placement.cpp).  A selection that a plan recorded is verified again     *)
(* later (verifyRuleSelection of MappingRules.cpp).                        *)
(***************************************************************************)
EXTENDS RuleMatch

CONSTANT RuleCases
\* one search: [text, nodes, fabric, defs, ctx, bound, limits]; fabric holds
\* executors [id, kind, classes, twin, alike], computes [id, kind, at] and
\* memories [id, kind, seenBy] in machine order; limits the caps of the search

VARIABLES
  rcase, rphase,
  rules,       \* RuleRegistry
  rread,       \* declarations of the file read so far
  rwalked,     \* registry entries whose pattern has been matched
  rmatches,    \* RulePatternMatch: [rule, nodes]
  rfused,      \* fusedByAnchor: the candidates, in match order
  tables,      \* per node, in id order, the sequence of instances
  rtruncated,  \* result.searchTruncated
  silent,      \* a fused rule's constraints were left undecided
  rselected, rverdict

rvars == <<rcase, rphase, rules, rread, rwalked, rmatches, rfused, tables, rtruncated, silent, rselected, rverdict>>

NoSelection == [exec |-> ""]
InitRules ==
  /\ rcase \in RuleCases
  /\ rphase = "parse" /\ rules = <<>> /\ rread = 0 /\ rwalked = 0 /\ rmatches = <<>> /\ rfused = <<>>
  /\ tables = <<>> /\ rtruncated = FALSE /\ silent = FALSE /\ rselected = NoSelection /\ rverdict = FALSE

ParseNextRule ==
  /\ rphase = "parse" /\ rread < Len(rcase.text)
  /\ rread' = rread + 1
  /\ \E def \in {ParseRule(rcase.text[rread + 1])} :
       IF ~def.ok THEN rphase' = "rejected" /\ UNCHANGED rules
       ELSE IF HasRule(rules, def.id) THEN rphase' = "rejected" /\ UNCHANGED rules
       ELSE rules' = AddRule(rules, def) /\ UNCHANGED rphase
  /\ UNCHANGED <<rcase, rwalked, rmatches, rfused, tables, rtruncated, silent, rselected, rverdict>>

EndOfRules ==
  /\ rphase = "parse" /\ rread = Len(rcase.text)
  /\ rphase' = IF rcase.limits.fused = 0 THEN "place" ELSE "match"
  /\ UNCHANGED <<rcase, rules, rread, rwalked, rmatches, rfused, tables, rtruncated, silent, rselected, rverdict>>
-----------------------------------------------------------------------------
(* Fused matches *)

Found(rule, nodes) ==
  IF rule.pattern = NoPattern THEN <<>>
  ELSE IF Len(rule.pattern.nodes) > MaxPatternNodes THEN <<>>
  ELSE Bindings(rule.pattern, nodes, <<>>)

\* What is left of the budget, which the library shares.
MatchesLeft(matches) == rcase.limits.fused - Len(matches)

\* One rule of the registry; a rule with a match more than the budget allows
\* ends the walk.
MatchNextRule ==
  /\ rphase = "match" /\ rwalked < Len(rules)
  /\ \E f \in {Found(rules[rwalked + 1], rcase.nodes)} :
       LET cut == Len(f) > MatchesLeft(rmatches)
           kept == SubSeq(f, 1, IF cut THEN MatchesLeft(rmatches) ELSE Len(f))
       IN  /\ rmatches' = rmatches \o [i \in DOMAIN kept |-> [rule |-> rules[rwalked + 1], nodes |-> kept[i]]]
           /\ rtruncated' = cut
           /\ rwalked' = IF cut THEN Len(rules) ELSE rwalked + 1
  /\ UNCHANGED <<rcase, rphase, rules, rread, rfused, tables, silent, rselected, rverdict>>

\* The matches become candidates; one that was cut short in its constraints is
\* dropped like one that does not apply.
FuseMatches ==
  /\ rphase = "match" /\ rwalked = Len(rules)
  /\ \E cs \in {[i \in DOMAIN rmatches |->
                   ToFusedMappingCandidate(rmatches[i].rule, rmatches[i].nodes, rcase.fabric, rcase.ctx,
                                           rcase.bound)]} :
       /\ rfused' = SelectSeq(cs, LAMBDA c : c.ok)
       /\ silent' = \E i \in DOMAIN cs : cs[i].truncated
  /\ rphase' = "place"
  /\ UNCHANGED <<rcase, rules, rread, rwalked, rmatches, tables, rtruncated, rselected, rverdict>>
-----------------------------------------------------------------------------
(* Placement of one candidate *)

\* One assignment of the bounded solver.
SolveStep(def, limits, acc, values, j, m) ==
  IF j.v = "error" \/ (j.v = "yes" /\ m = Err) THEN [acc EXCEPT !.err = TRUE]
  ELSE [acc EXCEPT !.b = j.b, !.found = IF j.v = "yes" THEN Append(@, [values |-> values, map |-> m]) ELSE @]

SolveIn(def, ctx, limits, space) ==
  FoldLeft(LAMBDA acc, values :
             IF acc.err \/ Len(acc.found) >= limits.solutions THEN acc
             ELSE SolveStep(def, limits, acc, values,
                            Judge(def.constraints, Env(values, def.domains, ctx, limits.quantifier), acc.b),
                            BuildAffineMap(def.map, values)),
           [err |-> FALSE, b |-> Fresh, found |-> <<>>], SubSeq(space, 1, Min({Len(space), limits.assignments})))
SolverAnswer(w) == [err |-> w.err, found |-> Withheld(w.found, w.b)]
Unsolved == [err |-> TRUE, found |-> <<>>]
SolveDef(def, ctx, limits) ==
  IF Names(def.params) \subseteq DOMAIN def.domains THEN SolverAnswer(SolveIn(def, ctx, limits, Space(def))) ELSE Unsolved

\* What the solver answers for one requirement, against the operand's own
\* element type and rank where the candidate knows them.
SolveRequirement(req, defs, ctx, limits) ==
  IF FindLayout(defs, req.layout) = 0 THEN Unsolved
  ELSE SolveDef(defs[FindLayout(defs, req.layout)],
                [ctx EXCEPT !.elem = IF req.elem = "" THEN ctx.elem ELSE req.elem,
                            !.rank = IF req.shape = NoPort THEN ctx.rank ELSE Len(req.shape)], limits)

\* Two requirements on one port must have been solved alike.
Agreeing(reqs, solved) ==
  \A i, j \in DOMAIN reqs :
    (reqs[i].port # NoPort /\ reqs[i].port = reqs[j].port) =>
      reqs[i].layout = reqs[j].layout /\ Head(solved[i].found) = Head(solved[j].found)

ComputesFor(fabric, e) == SelectSeq(fabric.computes, LAMBDA u : u.at = e)
SeenFrom(fabric, e) == SelectSeq(fabric.memories, LAMBDA m : e \in m.seenBy)

\* MUTANT of Interchangeable: the memories an executor sees are not compared.
InterchangeableKinds(fabric, a, b) == a.kind = b.kind /\ (b.id \in a.twin \/ a.id \in b.twin \/ a.alike = b.alike)

\* What the target declares equivalent, or cannot be told apart: alike stands
\* for parent, coordinates, concurrency and scheduling class.
Interchangeable(fabric, a, b) ==
  /\ a.kind = b.kind
  /\ \/ b.id \in a.twin \/ a.id \in b.twin
     \/ /\ a.alike = b.alike
        /\ ToSet(ComputesFor(fabric, a.id)) = ToSet(ComputesFor(fabric, b.id))
        /\ ToSet(SeenFrom(fabric, a.id)) = ToSet(SeenFrom(fabric, b.id))

ReduceSymmetric(fabric, es) ==
  FoldLeft(LAMBDA kept, e : IF \E i \in DOMAIN kept : Interchangeable(fabric, kept[i], e) THEN kept
                            ELSE Append(kept, e), <<>>, es)

Executors(c, fabric, reduce) ==
  LET es == SelectSeq(fabric.executors, LAMBDA e : ToSet(c.execs) \subseteq e.classes)
  IN  IF reduce THEN ReduceSymmetric(fabric, es) ELSE es

\* The attached computes of each kind required, then the visible memories.
AttachedChoices(c, fabric, e) ==
  [i \in DOMAIN c.computes |-> SelectSeq(ComputesFor(fabric, e.id), LAMBDA u : u.kind = c.computes[i])]
  \o [i \in DOMAIN c.mems |-> SelectSeq(SeenFrom(fabric, e.id), LAMBDA m : m.kind = c.mems[i].kind)]

\* One turn of the odometer.
Instance(c, e, layoutsOf, pick) ==
  LET n == Len(c.computes)
      named == {i \in DOMAIN c.mems : c.mems[i].port # NoPort}
      bare == DOMAIN c.mems \ named
  IN  [rule |-> c.rule, nodes |-> c.nodes, params |-> c.params, exec |-> e.id,
       computes |-> [k \in ToSet(c.computes) |-> pick[CHOOSE i \in DOMAIN c.computes : c.computes[i] = k].id],
       mems |-> [k \in {c.mems[i].kind : i \in bare} |-> pick[n + (CHOOSE i \in bare : c.mems[i].kind = k)].id],
       portMems |-> {[port |-> c.mems[i].port, memory |-> pick[n + i].id] : i \in named},
       layouts |-> layoutsOf]

InstancesOf(c, e, layoutsOf, picks) == [i \in DOMAIN picks |-> Instance(c, e, layoutsOf, picks[i])]
PlacementsFrom(c, e, layoutsOf, choices) ==
  InstancesOf(c, e, layoutsOf, Assignments([i \in DOMAIN choices |-> i], choices))
PlacementsOn(c, fabric, e, layoutsOf) == PlacementsFrom(c, e, layoutsOf, AttachedChoices(c, fabric, e))

\* Reaching the cap counts as truncation even when nothing was left.
Capped(all, cap) == [err |-> FALSE, instances |-> SubSeq(all, 1, Min({Len(all), cap})), truncated |-> Len(all) >= cap]
NoPlacement(err) == [err |-> err, instances |-> <<>>, truncated |-> FALSE]
SolvedLayouts(c, solved) ==
  [i \in DOMAIN solved |-> [layout |-> c.layouts[i].layout, port |-> c.layouts[i].port,
                            solution |-> Head(solved[i].found)]]
PlaceOver(c, fabric, es, layoutsOf) ==
  FlattenSeq([i \in DOMAIN es |-> PlacementsOn(c, fabric, es[i], layoutsOf)])

\* enumeratePlacements, once the requirements are solved.  The first that
\* fails to solve decides between an error and an empty answer.
EnumerateSolved(c, solved, k, bad) ==
  IF bad # 0 THEN NoPlacement(solved[bad].err)
  ELSE IF ~Agreeing(c.layouts, solved) THEN NoPlacement(FALSE)
  ELSE Capped(PlaceOver(c, k.fabric, Executors(c, k.fabric, k.limits.reduce), SolvedLayouts(c, solved)),
              k.limits.instances)

FirstUnsolved(solved) == SelectInSeq(solved, LAMBDA s : s.err \/ s.found = <<>>)
EnumerateWith(c, solved, k) == EnumerateSolved(c, solved, k, FirstUnsolved(solved))
EnumeratePlacements(c, k) ==
  EnumerateWith(c, [i \in DOMAIN c.layouts |-> SolveRequirement(c.layouts[i], k.defs, k.ctx, k.limits)], k)

Lowest(c) == Min(ToSet(c.nodes))

\* The table of one node: its rules up to the cap, then the fused candidates
\* whose lowest node it is.  A placement error ends the search.
BuildTable ==
  /\ rphase = "place" /\ Len(tables) < Len(rcase.nodes)
  /\ \E n \in {rcase.nodes[Len(tables) + 1]} :
     \E ms \in {MatchRules(n, rules)} :
     \E cs \in {[i \in 1 .. Min({Len(ms), rcase.limits.candidates}) |->
                   ToMappingCandidate(ms[i], n, rcase.fabric, rcase.ctx, rcase.bound)]} :
     \E all \in {SelectSeq(cs, LAMBDA c : c.ok) \o SelectSeq(rfused, LAMBDA c : Lowest(c) = n.id)} :
     \E ps \in {[i \in DOMAIN all |-> EnumeratePlacements(all[i], rcase)]} :
       IF \E i \in DOMAIN ps : ps[i].err
         THEN rphase' = "failed" /\ UNCHANGED <<tables, rtruncated>>
         ELSE /\ tables' = Append(tables, FlattenSeq([i \in DOMAIN ps |-> ps[i].instances]))
              /\ rtruncated' = (\/ rtruncated
                                \/ Len(ms) > rcase.limits.candidates
                                \/ \E i \in DOMAIN cs : cs[i].truncated
                                \/ \E i \in DOMAIN ps : ps[i].truncated)
              /\ rphase' = IF Len(tables) + 1 = Len(rcase.nodes) THEN "placed" ELSE "place"
  /\ UNCHANGED <<rcase, rules, rread, rwalked, rmatches, rfused, silent, rselected, rverdict>>
-----------------------------------------------------------------------------
(* Verification of a recorded selection *)

RecordedParametersLegal(rule, n, machine, params) ==
  /\ DOMAIN params \subseteq Names(rule.params)
  /\ \A x \in DOMAIN params : params[x] \in ToSet(rule.domains[x])
  /\ Names(rule.params) \cap Referenced(rule) \subseteq DOMAIN params
  /\ \E j \in {Judge(rule.constraints,
                     RuleEnv(rule, n, [rank |-> 0, elem |-> "", machine |-> machine], params), Fresh)} :
       j.v = "yes" /\ ~j.b.exhausted

\* MUTANT of ComputeLegal: whatever the executor has stands in for the record.
ComputeAttached(kind, fabric, sel) == \E u \in ToSet(ComputesFor(fabric, sel.exec)) : u.kind = kind

\* A recorded compute is authoritative; without any record the executor must
\* have some compute of the kind.
ComputeLegal(kind, fabric, sel) ==
  IF kind \in DOMAIN sel.computes
    THEN [id |-> sel.computes[kind], kind |-> kind, at |-> sel.exec] \in ToSet(fabric.computes)
    ELSE ~sel.recorded /\ \E u \in ToSet(ComputesFor(fabric, sel.exec)) : u.kind = kind

MemoryLegal(k, rule, n, fabric, sel) ==
  LET ref == IF k.port = NoPort THEN NoPort ELSE PortRef(rule, n, k.port.name)
      bound == IF k.port = NoPort
                 THEN IF k.kind \in DOMAIN sel.mems THEN {sel.mems[k.kind]} ELSE {}
                 ELSE {b.memory : b \in {b \in sel.portMems : ref # NoPort /\ b.port = ref}}
  IN  \* with two bindings of one port the first in an unstable sort is taken
      /\ bound # {}
      /\ \A b \in bound : \E m \in ToSet(fabric.memories) : m.id = b /\ m.kind = k.kind /\ sel.exec \in m.seenBy

\* The executor is one the machine knows: here an empty name would do for a rule
\* without executor kinds, but the plan's verification asks for a known one first
\* (PlanVerification.cpp:1134).
VerifyRuleSelection(rule, n, fabric, machine, sel) ==
  /\ rule.op = n.op /\ PredicatesHold(rule.preds, n)
  /\ IF DOMAIN sel.params # {} THEN RecordedParametersLegal(rule, n, machine, sel.params)
     ELSE rule.constraints # <<>> =>
            ResolveRuleConstraints(rule, n, [rank |-> 0, elem |-> "", machine |-> machine], <<>>).matched
  /\ \E e \in ToSet(fabric.executors) : e.id = sel.exec /\ ToSet(KindsOf(rule, "executor")) \subseteq e.classes
  /\ \A kind \in ToSet(KindsOf(rule, "compute")) : ComputeLegal(kind, fabric, sel)
  /\ \A k \in ToSet(SelectSeq(rule.kinds, LAMBDA k : k.role = "memory")) : MemoryLegal(k, rule, n, fabric, sel)

\* What a plan may record for a placed instance by the time it is verified:
\* what was placed, or one part of it replaced or lost.
Tampered(s, k) ==
  {[s EXCEPT !.exec = e.id] : e \in ToSet(k.fabric.executors)}
  \cup {[s EXCEPT !.computes = [x \in DOMAIN s.computes |-> u.id]] : u \in ToSet(k.fabric.computes)}
  \cup {[s EXCEPT !.computes = <<>>, !.recorded = r] : r \in BOOLEAN}
  \cup {[s EXCEPT !.mems = [x \in DOMAIN s.mems |-> m.id]] : m \in ToSet(k.fabric.memories)}
  \cup {[s EXCEPT !.params = [x \in DOMAIN s.params |-> v]] : v \in Strangers} \cup {[s EXCEPT !.params = <<>>]}

Recording(inst) == [params |-> inst.params, exec |-> inst.exec, computes |-> inst.computes, recorded |-> TRUE,
                    mems |-> inst.mems, portMems |-> inst.portMems]
RuleOf(id) == rules[CHOOSE i \in DOMAIN rules : rules[i].id = id]
NodeOf(id) == rcase.nodes[CHOOSE i \in DOMAIN rcase.nodes : rcase.nodes[i].id = id]

VerifySelection ==
  /\ rphase = "placed"
  /\ \E t \in DOMAIN tables : \E inst \in ToSet(tables[t]) :
     \E sel \in {Recording(inst)} \cup Tampered(Recording(inst), rcase) :
       /\ RuleOf(inst.rule).pattern = NoPattern
       /\ rselected' = [placed |-> inst, sel |-> sel]
       /\ rverdict' = VerifyRuleSelection(RuleOf(inst.rule), NodeOf(inst.nodes[1]), rcase.fabric,
                                          rcase.ctx.machine, sel)
  /\ rphase' = "checked"
  /\ UNCHANGED <<rcase, rules, rread, rwalked, rmatches, rfused, tables, rtruncated, silent>>

NextRules ==
  \/ ParseNextRule \/ EndOfRules \/ MatchNextRule \/ FuseMatches \/ BuildTable \/ VerifySelection
-----------------------------------------------------------------------------
(* Properties *)

Embeds(pattern, f) ==
  /\ \A i \in DOMAIN f : f[i].op = pattern.nodes[i].op /\ PredicatesHold(pattern.nodes[i].preds, f[i])
  /\ \A i, j \in DOMAIN f : i # j => f[i].id # f[j].id
  /\ AllEdgesHold(pattern, f)

Embeddings(rule) ==
  {f \in [1 .. Len(rule.pattern.nodes) -> ToSet(rcase.nodes)] : Embeds(rule.pattern, f)}

\* The matches are exactly the injective embeddings of the graph rules in the
\* workload, each found once; the shared cap drops some only when it says so,
\* and then keeps as many as it allows (PatternMatcher, matchRulePatterns).
MatchesExact ==
  rphase = "place" /\ rcase.limits.fused # 0 /\ tables = <<>> =>
    LET graph == {r \in ToSet(rules) : r.pattern # NoPattern /\ Len(r.pattern.nodes) <= MaxPatternNodes}
        all == {[rule |-> p[1], nodes |-> p[2]] : p \in UNION {{r} \X Embeddings(r) : r \in graph}}
    IN  /\ ToSet(rmatches) \subseteq all /\ ~HasDuplicates(rmatches)
        /\ Len(rmatches) = Min({Cardinality(all), rcase.limits.fused})
        /\ rtruncated <=> Cardinality(all) > rcase.limits.fused

\* Every legal assignment of a rule's parameters, and what a placement needs.
Satisfiable(rule, n) ==
  rule.constraints = <<>> \/
    \E v \in ToSet(RuleSpace(rule, rcase.bound.pins)) :
      /\ \A x \in DOMAIN v : v[x] \in ToSet(rule.domains[x])
      /\ Holds(rule.constraints, RuleEnv(rule, n, rcase.ctx, v))
Supports(rule, e) ==
  /\ ToSet(KindsOf(rule, "executor")) \subseteq e.classes
  /\ ToSet(KindsOf(rule, "compute")) \subseteq {u.kind : u \in ToSet(ComputesFor(rcase.fabric, e.id))}
  /\ ToSet(KindsOf(rule, "memory")) \subseteq {m.kind : m \in ToSet(SeenFrom(rcase.fabric, e.id))}

\* A search that does not call itself truncated offers, for every node, every
\* one-operation rule that applies to it on every executor that supports it,
\* or on one it cannot be told apart from.  Rules with layout obligations, and
\* searches that bind layouts or owners, may offer less; so may a target that
\* declares unlike executors equivalent (CoveringSearch node tables,
\* enumeratePlacements, reduceSymmetric).
TablesComplete ==
  rphase = "placed" /\ ~rtruncated /\ rcase.bound.owner = <<>> /\ rcase.bound.path = <<>> =>
    \A t \in DOMAIN tables : \A rule \in ToSet(MatchRules(rcase.nodes[t], rules)) :
      rule.layouts = <<>> /\ (\A k \in ToSet(rule.kinds) :
                                k.port # NoPort => PortRef(rule, rcase.nodes[t], k.port.name) # NoPort) =>
        \A e \in ToSet(rcase.fabric.executors) :
          e.twin = {} /\ Supports(rule, e) /\ Satisfiable(rule, rcase.nodes[t]) =>
            \E inst \in ToSet(tables[t]) :
              /\ inst.rule = rule.id
              /\ \E f \in ToSet(rcase.fabric.executors) :
                   /\ f.id = inst.exec /\ f.kind = e.kind /\ f.alike = e.alike /\ Supports(rule, f)
                   /\ {m.kind : m \in ToSet(SeenFrom(rcase.fabric, f.id))}
                        = {m.kind : m \in ToSet(SeenFrom(rcase.fabric, e.id))}

\* A printed rule parses back to itself, and a registry read from the printed
\* rules in another order holds the same rules in the same order, so that the
\* content hash and every table built from it are the file's, not the order's
\* (printRule, RuleRegistry::add, computeContentHash).
RulesPrint ==
  rphase = "place" /\ tables = <<>> =>
    /\ \A i \in DOMAIN rules : \E text \in {PrintRule(rules[i])} : \E def \in {ParseRule(text)} : def = rules[i]
    /\ rules = FoldLeft(AddRule, <<>>, Reverse(rules))

\* The tables hold every legal choice, for single operations and subgraphs,
\* whatever the order of the file.
TablesSound == MatchesExact /\ TablesComplete /\ RulesPrint

\* The facts of the operation that its rules' constraints may ask about.
Exposes(n) == LET x == RuleLayoutContext(n, [rank |-> -1, elem |-> "", machine |-> 0]) IN x.rank # -1 /\ x.elem # ""

\* Verification accepts what the search placed, and whatever else it accepts
\* is legal on the machine: parameters that satisfy the rule, an executor of
\* the kind, and computes and memories it really has.  A node that leaves its
\* type out is verified against no type at all, and two memory kinds on one
\* port never verify (verifyRuleSelection).
SelectionSound ==
  rphase = "checked" =>
    LET rule == RuleOf(rselected.placed.rule)
        n == NodeOf(rselected.placed.nodes[1])
        sel == rselected.sel
        onePerPort == \A a, b \in ToSet(rule.kinds) : a.port # NoPort /\ a.port = b.port => a = b
    IN  /\ sel = Recording(rselected.placed) /\ Exposes(n) /\ onePerPort => rverdict
        /\ rverdict =>
             /\ \E e \in ToSet(rcase.fabric.executors) : e.id = sel.exec /\ Supports(rule, e)
             /\ DOMAIN sel.params # {} /\ Exposes(n) =>
                  Holds(rule.constraints, RuleEnv(rule, n, rcase.ctx, sel.params))
             /\ \A kind \in DOMAIN sel.computes :
                  kind \in ToSet(KindsOf(rule, "compute")) =>
                    \E u \in ToSet(rcase.fabric.computes) :
                      u.id = sel.computes[kind] /\ u.kind = kind /\ u.at = sel.exec
             /\ \A kind \in DOMAIN sel.mems :
                  kind \in ToSet(KindsOf(rule, "memory")) =>
                    \E m \in ToSet(rcase.fabric.memories) :
                      m.id = sel.mems[kind] /\ m.kind = kind /\ sel.exec \in m.seenBy
=============================================================================
