---------------------------- MODULE CoveringSearch ----------------------------
(***************************************************************************)
(* CoveringSearch::search of lib/Mapping/CoveringSearch.cpp: it picks one  *)
(* instance for every workload node and one connection for every dataflow  *)
(* value, keeping a ledger of the bytes each memory holds, and hands the   *)
(* complete proposals to an evaluator before it ranks them.  The three     *)
(* modes are a depth-first walk that stops at the first accepted plan      *)
(* (deterministic) or never (exact), and a beam that expands level by      *)
(* level.                                                                  *)
(*                                                                         *)
(* A setup fixes the call: the node tables (what rule matching and         *)
(* placement enumeration produced), the values, the options and the        *)
(* evaluator, given by the instances it refuses or breaks on and the final *)
(* cost it charges for each.  An instance is named by <<node, index>>, its *)
(* place in the tables.  A node uses a value through one port; layouts,    *)
(* named-port memory bindings and the measured-latency lookups, which      *)
(* change bytes and costs but no decision, are left out, and so is the     *)
(* defensive branch for a memory no machine node names.                    *)
(***************************************************************************)
EXTENDS Integers, Sequences, FiniteSets, SequencesExt, FiniteSetsExt

CONSTANTS
  Capacity,   \* [memory -> bytes]
  Reach,      \* [<<a, b>>, a # b -> the routes, best first: [via, cost]]
  Sees,       \* the pairs <<a, b>>: an instance in memory b reads memory a directly
  Setups,
  None

Memories == DOMAIN Capacity

\* What the tables and the value links of a call look like: an instance is
\* filed under the lowest node it covers, one-op instances before fused ones.
IsSetup(s) ==
  /\ s.mode \in {"deterministic", "exact", "beam"}
  /\ \A n \in DOMAIN s.table : \A i \in DOMAIN s.table[n] :
       LET e == s.table[n][i] IN
       /\ e.nodes \subseteq DOMAIN s.table /\ n \in e.nodes /\ \A k \in e.nodes : n <= k
       /\ e.mems # {} /\ e.mems \subseteq Memories /\ e.memory \in e.mems
       /\ e.cost \in Nat /\ e.final \in Nat
       /\ i > 1 => Cardinality(s.table[n][i - 1].nodes) = 1 \/ Cardinality(e.nodes) > 1
  /\ \A v \in DOMAIN s.values : s.values[v].producers # {} /\ s.values[v].bytes \in Nat

ASSUME SearchAssumption ==
  /\ \A m \in Memories : Capacity[m] \in Nat
  /\ \A s \in Setups : IsSetup(s)

VARIABLES
  setup,      \* the call
  phase,      \* "search", "rank", "done", "failed"
  stack,      \* depth-first: the walk's continuation, next item first
  beam,       \* beam: the partial covers of the level
  depth,      \* beam: levels expanded
  truncated,  \* result.searchTruncated
  retained,   \* the accepted plans, in the order they were found
  plans,      \* result.plans
  judged      \* history: the proposals handed to retain()

vars == <<setup, phase, stack, beam, depth, truncated, retained, plans, judged>>

Nodes == DOMAIN setup.table
Values == DOMAIN setup.values
Entry(e) == setup.table[e[1]][e[2]]
EntriesOf(n) == {<<n, i>> : i \in DOMAIN setup.table[n]}

-----------------------------------------------------------------------------
(* Values and the links between nodes                                      *)

Bytes(v) == setup.values[v].bytes
Producers(v) == setup.values[v].producers

\* A node feeding itself is not a connection.
Consumers(v) ==
  IF Cardinality(Producers(v)) = 1 THEN setup.values[v].consumers \ Producers(v)
  ELSE setup.values[v].consumers

Ends(v) == Producers(v) \cup Consumers(v)
IsLink(v) == Consumers(v) # {}

Outputs(n) == {v \in Values : n \in Producers(v)}
Inputs(n) == {v \in Values : n \in setup.values[v].consumers}

\* The fallback size of a node without outputs: its first input, or the
\* assumed size of a node without ports, taken as one byte.
PortlessBytes(n) == IF Inputs(n) = {} THEN 1 ELSE Bytes(Min(Inputs(n)))

-----------------------------------------------------------------------------
(* The ledger                                                              *)

Nothing == [m \in Memories |-> 0]
Plus(a, b) == [m \in Memories |-> a[m] + b[m]]
Minus(a, b) == [m \in Memories |-> a[m] - b[m]]
In(ms, b) == [m \in Memories |-> IF m \in ms THEN b ELSE 0]
Total(a) == MapThenSumSet(LAMBDA m : a[m], Memories)
SumOver(S, f(_)) == [m \in Memories |-> MapThenSumSet(LAMBDA x : f(x)[m], S)]

Empty == [chosen |-> [n \in Nodes |-> None], linked |-> {}, mem |-> Nothing,
          live |-> [v \in Values |-> Nothing], cost |-> 0, conns |-> {}]

Uncovered(p) == {n \in Nodes : p.chosen[n] = None}

\* MUTANT of Free: only ask for the node the instance is offered at.
FreeAnchor(p, e) == p.chosen[e[1]] = None

\* A covering is a partition: none of the instance's nodes is covered yet.
Free(p, e) == Entry(e).nodes \subseteq Uncovered(p)

\* Several outputs and several memories: nothing says which output goes where.
Associated(e) == Cardinality(Entry(e).mems) = 1 \/ Cardinality(Outputs(e[1])) <= 1

\* placeInstance: the node at which the instance is offered pays for its
\* outputs, in every memory the instance binds.
PlaceInstance(p, e) ==
  LET out == Outputs(e[1])
      own == IF out = {} THEN In(Entry(e).mems, PortlessBytes(e[1]))
             ELSE SumOver(out, LAMBDA v : In(Entry(e).mems, Bytes(v)))
  IN  [p EXCEPT !.chosen = [n \in Nodes |-> IF n \in Entry(e).nodes THEN e ELSE @[n]],
                !.mem = Plus(@, own),
                !.live = [v \in Values |->
                            IF v \in out THEN Plus(@[v], In(Entry(e).mems, Bytes(v))) ELSE @[v]],
                !.cost = @ + Entry(e).cost]

\* The links that placing an instance at node n completes.
Completed(p, n) ==
  {v \in Values \ p.linked : IsLink(v) /\ n \in Ends(v) /\ Ends(v) \cap Uncovered(p) = {}}

\* All ends of the link lie in one instance, which implements it.
Internal(p, v) ==
  Cardinality(Ends(v)) > 1 /\ Cardinality({p.chosen[n] : n \in Ends(v)}) = 1

\* The completed links that need a connection.
Connected(p, n) == {v \in Completed(p, n) : ~Internal(p, v) /\ Bytes(v) > 0}

MemoryOf(p, n) == Entry(p.chosen[n]).memory

CapacityOk(p) ==
  setup.evaluator \/ (/\ \A m \in Memories : p.mem[m] <= Capacity[m]
                      /\ Total(p.mem) <= setup.budget)

\* The completed values have been read: subtract what they were charged.
ReleaseCompleted(p, vs) ==
  [p EXCEPT !.mem = Minus(@, SumOver(vs, LAMBDA v : p.live[v])),
            !.live = [v \in Values |-> IF v \in vs THEN Nothing ELSE @[v]]]

-----------------------------------------------------------------------------
(* Connections.  A choice is [conns, cost, live, staged]: the connections   *)
(* it adds and the bytes it charges to the value and for good.              *)

Room(mem, m, b) == Capacity[m] - (IF mem[m] < Capacity[m] THEN mem[m] ELSE Capacity[m]) >= b

\* What the router returns: the routes whose staging memories have room.
RoutesFor(mem, a, b, bytes) ==
  IF a = b THEN <<>>
  ELSE SelectSeq([i \in DOMAIN Reach[<<a, b>>] |-> [route |-> i, via |-> Reach[<<a, b>>][i].via,
                                                   cost |-> Reach[<<a, b>>][i].cost]],
                 LAMBDA r : \A m \in r.via : Room(mem, m, bytes))

Take(s, n) == SubSeq(s, 1, IF Len(s) < n THEN Len(s) ELSE n)

Direct == [route |-> 0, via |-> {}, cost |-> 0]

\* synthesizeConnections: read in place, move in one hop, or in several.
Connections(mem, a, b, bytes) ==
  LET routes == Take(RoutesFor(mem, a, b, bytes), setup.maxRoutes)
  IN  (IF <<a, b>> \in Sees THEN <<Direct>> ELSE <<>>)
        \o SelectSeq(routes, LAMBDA r : r.via = {}) \o SelectSeq(routes, LAMBDA r : r.via # {})

RouteCapHit(mem, a, b, bytes) == Len(RoutesFor(mem, a, b, bytes)) >= setup.maxRoutes

\* The product of a sequence of lists of options, the last varying fastest.
Product(lists) ==
  FoldLeft(LAMBDA acc, list :
             FlattenSeq([i \in DOMAIN acc |-> [j \in DOMAIN list |-> Append(acc[i], list[j])]]),
           << <<>> >>, lists)

\* A stable sort by a key.
SortedBy(s, key(_)) ==
  LET order == SortSeq([i \in DOMAIN s |-> <<key(s[i]), i>>],
                       LAMBDA x, y : x[1] < y[1] \/ (x[1] = y[1] /\ x[2] < y[2]))
  IN  [i \in DOMAIN s |-> s[order[i][2]]]

\* The nodes of a set grouped by their memory, in the order of their lowest node.
Groups(p, ns) ==
  LET group(n) == {k \in ns : MemoryOf(p, k) = MemoryOf(p, n)}
  IN  SetToSortSeq({group(n) : n \in ns}, LAMBDA x, y : Min(x) < Min(y))

\* The decisions a placement opens, in value order: <<value, destinations>>,
\* the destinations of a gather one group at a time.
Specs(p, n) ==
  FlattenSeq([i \in 1 .. Cardinality(Connected(p, n)) |->
    LET v == SetToSortSeq(Connected(p, n), <)[i]
    IN  IF Cardinality(Producers(v)) = 1 THEN << <<v, Consumers(v)>> >>
        ELSE LET gs == Groups(p, Consumers(v)) IN [g \in DOMAIN gs |-> <<v, gs[g]>>]])

Choice(v, to, route, cost, live, staged) ==
  [conns |-> {<<v, to, route>>}, cost |-> cost, live |-> live, staged |-> staged]

\* One producer, one consumer: a moved value fills a buffer at its destination.
PlainChoices(p, v, to) ==
  LET a == MemoryOf(p, CHOOSE n \in Producers(v) : TRUE)
      b == MemoryOf(p, CHOOSE n \in to : TRUE)
      cs == Connections(p.mem, a, b, Bytes(v))
  IN  [i \in DOMAIN cs |->
         Choice(v, to, cs[i].route, cs[i].cost,
                IF cs[i].route = 0 THEN Nothing ELSE In({b}, Bytes(v)), Nothing)]

\* One producer, several consumers: all read in place, or each group of
\* consumers does or gets a copy, which occupies every memory it passes.  The
\* routes of a group are collected once for each of its members.
GroupOptions(p, v, a, g) ==
  IF \A n \in g : <<a, MemoryOf(p, n)>> \in Sees THEN <<Direct>>
  ELSE LET copies == SelectSeq(Connections(p.mem, a, MemoryOf(p, Min(g)), Bytes(v)),
                               LAMBDA c : c.route # 0)
       IN  FlattenSeq([k \in 1 .. Cardinality(g) |-> copies])

Replicas(p, v, gs, combo) ==
  [conns  |-> {<<v, gs[g], combo[g].route>> : g \in DOMAIN gs},
   cost   |-> MapThenSumSet(LAMBDA g : combo[g].cost, DOMAIN gs),
   live   |-> Nothing,
   staged |-> SumOver({g \in DOMAIN gs : combo[g].route # 0},
                      LAMBDA g : In(combo[g].via \cup {MemoryOf(p, Min(gs[g]))}, Bytes(v)))]

GroupedChoices(p, v, a, gs) ==
  LET combos == Product([g \in DOMAIN gs |-> GroupOptions(p, v, a, gs[g])])
  IN  [i \in DOMAIN combos |-> Replicas(p, v, gs, combos[i])]

FanOutChoices(p, v, to) ==
  LET a == MemoryOf(p, CHOOSE n \in Producers(v) : TRUE)
  IN  GroupedChoices(p, v, a, IF \A n \in to : <<a, MemoryOf(p, n)>> \in Sees
                                THEN <<to>> ELSE Groups(p, to))

\* Several producers: their feeds are chosen together and the gathered tile is
\* staged with the consumer.  The code's plan keeps the feeds' cost and engines;
\* here the routes chosen stay visible.
GatherChoices(p, v, to) ==
  LET b == MemoryOf(p, Min(to))
      from == SetToSortSeq(Producers(v), <)
      combos == Product([i \in DOMAIN from |->
                           Connections(p.mem, MemoryOf(p, from[i]), b, Bytes(v))])
  IN  [i \in DOMAIN combos |->
         Choice(v, to, [k \in DOMAIN from |-> combos[i][k].route],
                MapThenSumSet(LAMBDA k : combos[i][k].cost, DOMAIN from),
                Nothing, In({b}, Bytes(v)))]

\* specAlternatives
Alternatives(p, spec) ==
  LET v == spec[1]  to == spec[2] IN
  IF Cardinality(Producers(v)) > 1 THEN GatherChoices(p, v, to)
  ELSE IF Cardinality(to) > 1 THEN FanOutChoices(p, v, to)
  ELSE PlainChoices(p, v, to)

\* A cap was reached while the choices of a decision were collected.
ChoicesCapped(p, spec) ==
  \/ Len(Alternatives(p, spec)) > setup.maxChoices
  \/ \E a \in Producers(spec[1]), b \in spec[2] :
       /\ MemoryOf(p, a) # MemoryOf(p, b)
       /\ ~(Cardinality(Producers(spec[1])) = 1 /\ Cardinality(spec[2]) > 1
            /\ <<MemoryOf(p, a), MemoryOf(p, b)>> \in Sees)
       /\ RouteCapHit(p.mem, MemoryOf(p, a), MemoryOf(p, b), Bytes(spec[1]))

ApplyChoice(p, v, c) ==
  [p EXCEPT !.conns = @ \cup c.conns, !.cost = @ + c.cost,
            !.mem = Plus(@, Plus(c.live, c.staged)),
            !.live = [@ EXCEPT ![v] = Plus(@, c.live)]]

\* The states one decision makes of a list of states, each state's choices
\* best first.
ApplyEach(p, v, cs) == [j \in DOMAIN cs |-> ApplyChoice(p, v, cs[j])]

Decide(states, spec) ==
  FlattenSeq([i \in DOMAIN states |->
    ApplyEach(states[i], spec[1],
              SortedBy(Take(Alternatives(states[i], spec), setup.maxChoices), LAMBDA c : c.cost))])

\* What the leaves of the joint choice become, given the states before each
\* decision: those within the cap that fit, with the read values released.
Leaves(before, specs, vs) ==
  LET leaves == before[Len(specs)]
      legal == SelectSeq(Take(leaves, setup.maxChoices), CapacityOk)
  IN  [states |-> [i \in DOMAIN legal |-> ReleaseCompleted(legal[i], vs)],
       capped |-> \/ Len(leaves) > setup.maxChoices
                  \/ \E k \in DOMAIN specs : \E s \in ToSet(before[k - 1]) :
                       ChoicesCapped(s, specs[k])]

JointChoices(placed, specs, vs) ==
  Leaves([k \in 0 .. Len(specs) |-> FoldLeft(Decide, <<placed>>, SubSeq(specs, 1, k))],
         specs, vs)

Link(q, n) == JointChoices([q EXCEPT !.linked = @ \cup Completed(q, n)],
                           Specs(q, n), Connected(q, n))

\* extendStates: every joint choice of the connections that placing e at its
\* lowest node completes, within the cap, that fits the memories.
Extend(p, e) ==
  IF Free(p, e) /\ Associated(e) THEN Link(PlaceInstance(p, e), e[1])
  ELSE [states |-> <<>>, capped |-> FALSE]

-----------------------------------------------------------------------------
(* Complete proposals                                                      *)

Proposal(p) == [chosen |-> p.chosen, conns |-> p.conns]
Chosen(p) == {p.chosen[n] : n \in Nodes}
Picks(p, es) == Chosen(p) \cap es # {}

\* The evaluator's final cost, or the scheduled one without an evaluator.
FinalCost(p) == MapThenSumSet(LAMBDA e : Entry(e).final, Chosen(p))

Verdict(p) ==
  IF ~setup.evaluator THEN "plan"
  ELSE IF Picks(p, setup.broken) THEN "error"
  ELSE IF Picks(p, setup.refused) THEN "rejection" ELSE "plan"

Retain(p) ==
  /\ judged' = judged \cup {Proposal(p)}
  /\ retained' = IF Verdict(p) = "plan"
                   THEN Append(retained, [plan |-> Proposal(p), cost |-> FinalCost(p)])
                   ELSE retained

-----------------------------------------------------------------------------
Visit(p) == [kind |-> "visit", partial |-> p, entry |-> 0]
Try(p, i) == [kind |-> "try", partial |-> p, entry |-> i]

Init ==
  /\ setup \in Setups
  /\ phase = "search"
  /\ stack = IF setup.mode = "beam" THEN <<>> ELSE <<Visit(Empty)>>
  /\ beam = IF setup.mode = "beam" THEN <<Empty>> ELSE <<>>
  /\ depth = 0 /\ truncated = FALSE
  /\ retained = <<>> /\ plans = <<>> /\ judged = {}

Walking == phase = "search" /\ setup.mode # "beam"

\* visit() on an incomplete cover: try the instances of its lowest free node.
Descend ==
  /\ Walking /\ stack # <<>> /\ Head(stack).kind = "visit"
  /\ Uncovered(Head(stack).partial) # {}
  /\ stack' = <<Try(Head(stack).partial, 1)>> \o Tail(stack)
  /\ UNCHANGED <<setup, phase, beam, depth, truncated, retained, plans, judged>>

\* One round of the loop over the node's instances.
TryInstance ==
  /\ Walking /\ stack # <<>> /\ Head(stack).kind = "try"
  /\ LET p == Head(stack).partial
         i == Head(stack).entry
         n == Min(Uncovered(p))
     IN  IF i > Len(setup.table[n])
           THEN stack' = Tail(stack) /\ UNCHANGED truncated
           ELSE \E x \in {Extend(p, <<n, i>>)} :
                /\ stack' = [k \in DOMAIN x.states |-> Visit(x.states[k])]
                              \o <<Try(p, i + 1)>> \o Tail(stack)
                /\ truncated' = (truncated \/ x.capped)
  /\ UNCHANGED <<setup, phase, beam, depth, retained, plans, judged>>

\* MUTANT of Stops: a rejection ends the deterministic walk too.
StopsAtFirst(p) == Verdict(p) = "error" \/ setup.mode = "deterministic"

\* After which proposal the walk stops.
Stops(p) == Verdict(p) = "error" \/ (setup.mode = "deterministic" /\ Verdict(p) = "plan")

\* visit() on a complete cover.
Complete ==
  /\ Walking /\ stack # <<>> /\ Head(stack).kind = "visit"
  /\ Uncovered(Head(stack).partial) = {}
  /\ Retain(Head(stack).partial)
  /\ stack' = IF Stops(Head(stack).partial) THEN <<>> ELSE Tail(stack)
  /\ phase' = IF Verdict(Head(stack).partial) = "error" THEN "failed" ELSE "search"
  /\ UNCHANGED <<setup, beam, depth, truncated, plans>>

\* boundCost: what a partial cover costs at least, or infinity.
Infinity == 1000

Bound(p) ==
  IF \E n \in Uncovered(p) : setup.table[n] = <<>> THEN Infinity
  ELSE p.cost + MapThenSumSet(LAMBDA n : Min({Entry(e).cost : e \in EntriesOf(n)}), Uncovered(p))

\* The beam's order: the better bound, then the more covered cover.
BeamKey(p) == Bound(p) * (Cardinality(Nodes) + 1) + Cardinality(Uncovered(p))

LevelExtensions ==
  LET open == SelectSeq(beam, LAMBDA p : Uncovered(p) # {})
      at(p) == [i \in DOMAIN setup.table[Min(Uncovered(p))] |->
                  Extend(p, <<Min(Uncovered(p)), i>>)]
  IN  FlattenSeq([k \in DOMAIN open |-> at(open[k])])

\* One level: every cover of the beam that still has a free node is extended
\* by each instance of its lowest one; the rest of the beam is dropped.
ExpandLevel ==
  /\ phase = "search" /\ setup.mode = "beam"
  /\ depth < Cardinality(Nodes) /\ beam # <<>>
  /\ \E exts \in {LevelExtensions} :
       LET next == SortedBy(FlattenSeq([k \in DOMAIN exts |-> exts[k].states]), BeamKey)
       IN  /\ beam' = Take(next, setup.beamWidth)
           /\ truncated' = (\/ truncated
                            \/ Len(next) > setup.beamWidth
                            \/ \E k \in DOMAIN exts : exts[k].capped)
  /\ depth' = depth + 1
  /\ UNCHANGED <<setup, phase, stack, retained, plans, judged>>

LevelsDone == setup.mode = "beam" /\ (depth = Cardinality(Nodes) \/ beam = <<>>)

\* The retention walk over the last beam.
Harvest ==
  /\ phase = "search" /\ LevelsDone /\ beam # <<>>
  /\ IF Uncovered(Head(beam)) = {}
       THEN /\ Retain(Head(beam))
            /\ phase' = IF Verdict(Head(beam)) = "error" THEN "failed" ELSE "search"
       ELSE UNCHANGED <<phase, retained, judged>>
  /\ beam' = Tail(beam)
  /\ UNCHANGED <<setup, stack, depth, truncated, plans>>

TopKExceeded == setup.topK # 0 /\ Len(retained) > setup.topK

\* By final cost, then by plan id (a hash; here the order of discovery).
Ranked ==
  LET sorted == SortedBy(retained, LAMBDA r : r.cost)
  IN  IF TopKExceeded THEN Take(sorted, setup.topK) ELSE sorted

Rank ==
  /\ phase = "search"
  /\ IF setup.mode = "beam" THEN LevelsDone /\ beam = <<>> ELSE stack = <<>>
  /\ plans' = Ranked
  /\ truncated' = (truncated \/ TopKExceeded)
  /\ phase' = "done"
  /\ UNCHANGED <<setup, stack, beam, depth, retained, judged>>

Terminated == phase \in {"done", "failed"} /\ UNCHANGED vars

Next == Descend \/ TryInstance \/ Complete \/ ExpandLevel \/ Harvest \/ Rank \/ Terminated

Spec == Init /\ [][Next]_vars
-----------------------------------------------------------------------------
(* Properties                                                              *)

Partials == ToSet(beam) \cup {item.partial : item \in ToSet(stack)}

IsCover(c) ==
  \A n \in Nodes : c[n] # None =>
    n \in Entry(c[n]).nodes /\ \A k \in Entry(c[n]).nodes : c[k] = c[n]

\* The type invariant.  Its last part is the assertion of releaseCompleted:
\* no memory ever gives back more bytes than it holds.
TypeOK ==
  /\ phase \in {"search", "done", "failed"}
  /\ depth \in 0 .. Cardinality(Nodes) /\ truncated \in BOOLEAN
  /\ \A p \in Partials : /\ p.linked \subseteq Values /\ p.cost \in Nat
                         /\ \A m \in Memories : p.mem[m] >= 0

\* A covering is a partition: in every cover the search holds, and in every
\* plan it judges, a node is implemented by one instance, and that instance by
\* all the nodes it spans (placeInstance's check of the covered nodes).
Partition ==
  /\ \A p \in Partials : IsCover(p.chosen)
  /\ \A q \in judged : IsCover(q.chosen)

\* What a connection keeps in memory for good: a replica and the memories it
\* passes, or a gathered tile.
Staged(c, k) ==
  LET v == k[1]  dest == Entry(c[Min(k[2])]).memory IN
  IF Cardinality(Producers(v)) > 1 THEN In({dest}, Bytes(v))
  ELSE IF Cardinality(Consumers(v)) = 1 \/ k[3] = 0 THEN Nothing
  ELSE LET a == Entry(c[Min(Producers(v))]).memory
       IN  In(Reach[<<a, dest>>][k[3]].via \cup {dest}, Bytes(v))

Own(e, vs) == IF Outputs(e[1]) = {} THEN In(Entry(e).mems, PortlessBytes(e[1]))
              ELSE SumOver(Outputs(e[1]) \cap vs, LAMBDA v : In(Entry(e).mems, Bytes(v)))

\* The ledger is exact: a memory holds the outputs of the placed instances
\* whose value still waits for a consumer or stays inside a fused instance,
\* and the copies and gathered tiles of the connections made so far.
LedgerExact ==
  \A p \in Partials :
    LET kept == {v \in Values : v \notin p.linked \/ Internal(p, v)}
    IN  p.mem = Plus(SumOver({p.chosen[n] : n \in Nodes \ Uncovered(p)}, LAMBDA e : Own(e, kept)),
                     SumOver(p.conns, LAMBDA k : Staged(p.chosen, k)))

\* The reference: every way to cover the nodes, and every way to serve each
\* value that leaves its instance.
Coverings ==
  {c \in [Nodes -> UNION {EntriesOf(n) : n \in Nodes}] :
     IsCover(c) /\ \A n \in Nodes : Associated(c[n])}

Edges(c) == {v \in Values : IsLink(v) /\ Bytes(v) > 0
                           /\ \A n \in Nodes : ~(Ends(v) \subseteq Entry(c[n]).nodes)}

Servings(c, v) ==
  LET at(n) == Entry(c[n]).memory
      reads(a, b) == IF <<a, b>> \in Sees THEN {0} ELSE {}
      moves(a, b) == IF a = b THEN {} ELSE DOMAIN Reach[<<a, b>>]
      from == SetToSortSeq(Producers(v), <)
      groups == {{k \in Consumers(v) : at(k) = at(n)} : n \in Consumers(v)}
      each(options(_)) ==
        FoldSet(LAMBDA g, acc : {s \cup {<<v, g, o>>} : s \in acc, o \in options(g)}, {{}}, groups)
      feeds(b) == FoldLeft(LAMBDA acc, a : {Append(f, o) : f \in acc,
                                             o \in reads(at(a), b) \cup moves(at(a), b)},
                           {<<>>}, from)
  IN  IF Len(from) > 1 THEN each(LAMBDA g : feeds(at(Min(g))))
      ELSE IF Cardinality(Consumers(v)) = 1
        THEN each(LAMBDA g : reads(at(from[1]), at(Min(g))) \cup moves(at(from[1]), at(Min(g))))
      ELSE IF \A n \in Consumers(v) : <<at(from[1]), at(n)>> \in Sees
        THEN {{<<v, Consumers(v), 0>>}}
      ELSE each(LAMBDA g : IF <<at(from[1]), at(Min(g))>> \in Sees THEN {0}
                           ELSE moves(at(from[1]), at(Min(g))))

Joint(c) == FoldSet(LAMBDA v, acc : {s \cup t : s \in acc, t \in Servings(c, v)}, {{}}, Edges(c))

\* The memories a connection may write to.
Touched(c, k) ==
  LET v == k[1]
      dest == Entry(c[Min(k[2])]).memory
      from == SetToSortSeq(Producers(v), <)
      via(a, r) == IF r = 0 THEN {} ELSE Reach[<<Entry(c[a]).memory, dest>>][r].via \cup {dest}
  IN  IF Len(from) > 1 THEN {dest} \cup UNION {via(from[i], k[3][i]) : i \in DOMAIN from}
      ELSE via(from[1], k[3])

\* Everything fits even if nothing is ever released.
Roomy(c, conns) ==
  LET worst == Plus(SumOver({c[n] : n \in Nodes}, LAMBDA e : Own(e, Values)),
                    SumOver(conns, LAMBDA k : In(Touched(c, k), Bytes(k[1]))))
  IN  (\A m \in Memories : worst[m] <= Capacity[m])
        /\ (setup.evaluator \/ Total(worst) <= setup.budget)

\* The node at which the last end of a value is placed, and whether it is an
\* end of it, for every value.
LastAnchor(c, v) == Max({c[n][1] : n \in Ends(v)})
EndsAtAnchor(c) == \A v \in Edges(c) : LastAnchor(c, v) \in Ends(v)

Fused(c) == Cardinality({c[n] : n \in Nodes}) < Cardinality(Nodes)

AllJudged(C(_)) ==
  \A c \in Coverings : C(c) =>
    \A conns \in Joint(c) : Roomy(c, conns) => [chosen |-> c, conns |-> conns] \in judged

\* A search that reports no truncation is exhaustive: every covering with
\* room to spare, under every choice of connections, was handed to the
\* evaluator, unless a deterministic walk ended with an accepted plan.  So a
\* rejected cheap plan masks no other.  The beam is held to coverings without
\* fused instances, and no mode to values that enter a fused instance away
\* from its lowest node (EdgesServed).
Exhaustive ==
  phase = "done" /\ ~truncated /\ (setup.mode = "deterministic" => retained = <<>>) =>
    AllJudged(LAMBDA c : EndsAtAnchor(c) /\ (setup.mode = "beam" => ~Fused(c)))

\* In every judged plan each consumer of a value that leaves its instance is
\* served by exactly one connection, however the consumers were grouped, as
\* long as the node at which the last end was placed is an end of the value;
\* otherwise nothing looks at the link again and no connection exists.
EdgesServed ==
  \A q \in judged : \A v \in Edges(q.chosen) : \A n \in Consumers(v) :
    Cardinality({k \in q.conns : k[1] = v /\ n \in k[2]}) =
      IF LastAnchor(q.chosen, v) \in Ends(v) THEN 1 ELSE 0

\* The plans returned are the best of those accepted, in order, and none is
\* dropped without searchTruncated being set.
BestKept ==
  phase = "done" =>
    /\ \A i, j \in DOMAIN plans : i < j => plans[i].cost <= plans[j].cost
    /\ ToSet(plans) \subseteq ToSet(retained)
    /\ \A r \in ToSet(retained) \ ToSet(plans) :
         truncated /\ \A i \in DOMAIN plans : plans[i].cost <= r.cost

\* Every cover handed to the evaluator is well formed: its instances partition
\* the nodes, every edge between them has its connection, and the ledger was
\* exact on the way there; the best of the accepted ones are returned.
CoverSound == TypeOK /\ Partition /\ EdgesServed /\ LedgerExact /\ BestKept
=============================================================================
