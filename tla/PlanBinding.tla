---------------------------- MODULE PlanBinding ----------------------------
(***************************************************************************)
(* Binding a selected covering plan to its kernel, and reading it back.    *)
(*                                                                         *)
(* bindPlan clones the kernel, stamps every operation with its mapping     *)
(* record and the kernel with the plan (encodeSelectedPlan), lets the      *)
(* canonical materializer emit one awaited copy per route hop, a layout    *)
(* transform or a gather for every connection that is not direct and       *)
(* rewire the recorded consumer endpoints, and then applies the contract   *)
(* (PlanBinder.cpp, PlanMaterialization.cpp).  A later pass verifies the   *)
(* mapped kernel (verifyMappedMicroIR) and recovers the plan from it       *)
(* (decodeSelectedPlan); both see the source graph only through its        *)
(* projection, which drops the emitted movements and resolves every        *)
(* operand back through them.  Between the two the kernel is a file that   *)
(* other passes and people may change: Edit.                               *)
(*                                                                         *)
(* An operation's identity is its index in ops; order is the program order *)
(* of the ones in the kernel.  Every operation has one data result, so a   *)
(* value is named by the operation that defines it and 0 is a kernel       *)
(* argument.  A node's class stands for its structural key: operation      *)
(* name, port types and semantic attributes.                               *)
(***************************************************************************)
EXTENDS Integers, Sequences, FiniteSets, FiniteSetsExt, SequencesExt

CONSTANTS
    Setups,     \* what a binding starts from: a kernel, a plan and a contract
    Memories,   \* the memory nodes of the machine
    Links,      \* the pairs of memories a link joins
    MaxEdits    \* how many changes may hit the bound kernel

VARIABLES
    setup,      \* the chosen member of Setups
    phase,      \* how far bindPlan, and then the readers, have come
    order,      \* the kernel's operations in program order
    ops,        \* every operation made so far
    meta,       \* the kernel's plan metadata: version, hashes, completeness
    routes,     \* micro.routes: the connections the kernel declares
    chains,     \* what the materializer emitted, with its endpoints
    todo,       \* the connections to emit, then the endpoints to rewire
    reports,    \* BoundPlan::unmaterialized
    edits,      \* the changes made to the bound kernel
    verdict,    \* what verifyMappedMicroIR answered
    decoded     \* the plan decodeSelectedPlan recovered

vars == <<setup, phase, order, ops, meta, routes, chains, todo, reports,
          edits, verdict, decoded>>

----------------------------------------------------------------------------
(* The kernel.                                                             *)

NoRecord == [instance |-> 0, computes |-> "absent", params |-> "absent", layout |-> {}]

\* An operation: its inputs, and the stamps the binder may give it.
Blank ==
    [kind |-> "node", cls |-> 0, offset |-> 0, args |-> <<>>, derives |-> FALSE, needs |-> FALSE,
     node |-> 0, rank |-> 0, record |-> NoRecord,
     conn |-> 0, hop |-> 0, value |-> 0, from |-> "", to |-> "", storage |-> <<0, 0>>,
     transform |-> ""]

InKernel == Range(order)
Position(o) == CHOOSE i \in DOMAIN order : order[i] = o
IsView(v) == v # 0 /\ ops[v].kind = "view"
IsWorkloadNode(o) == ops[o].kind \in {"node", "copy"}
IsMapped(o) == ops[o].node # 0

\* A walk from v takes at most one step per operation.
Walk(Step(_), v) == FoldLeft(LAMBDA u, o : Step(u), v, ops)

\* resolveThroughTransparentOps: the value behind a chain of views.
Root(v) == Walk(LAMBDA u : IF IsView(u) THEN ops[u].args[1] ELSE u, v)

\* The views between an operand and its root, outermost first.
ViewsOf(v) ==
    Front(Walk(LAMBDA s : IF IsView(Last(s)) THEN Append(s, ops[Last(s)].args[1]) ELSE s, <<v>>))

\* materializedOpForNode and mappedOpForNode: the first operation of the
\* kernel whose record names the node, or 0.
MappedOp(n) ==
    LET named == {i \in DOMAIN order : ops[order[i]].node = n}
    IN  IF named = {} THEN 0 ELSE order[Min(named)]

----------------------------------------------------------------------------
(* The source graph behind a mapped kernel.                                *)

\* The relation a chain of views states: the sum of its offsets, and nothing
\* when the value behind it has no shape (a tile).
AccessMap(v) ==
    IF ViewsOf(v) = <<>> \/ setup.tile THEN <<>>
    ELSE <<FoldLeft(LAMBDA sum, w : sum + ops[w].offset, 0, ViewsOf(v))>>

\* resolveAlias: from a movement, gather or transform to what it reads.  The
\* walk stops at an operand that is a view, which has no value id of its own.
Alias(v) ==
    Walk(LAMBDA u : IF /\ u # 0
                       /\ ops[u].conn # 0 \/ ops[u].kind = "transform"
                       /\ ~IsView(ops[u].args[1])
                    THEN ops[u].args[1] ELSE u, v)

\* The nodes of the projection: isBinderMovement drops the stamped ones.
Semantic == {o \in InKernel : IsWorkloadNode(o) /\ ops[o].conn = 0}

\* Canonical order: by structure, then by the text of the stamped attributes,
\* then by program order.  In an unstamped kernel the rank is 0 throughout.
Precedes(p, o) ==
    \/ ops[p].cls < ops[o].cls
    \/ ops[p].cls = ops[o].cls /\ ops[p].rank < ops[o].rank
    \/ ops[p].cls = ops[o].cls /\ ops[p].rank = ops[o].rank /\ Position(p) < Position(o)

ProjectedId(o) == 1 + Cardinality({p \in Semantic : Precedes(p, o)})
Projected(n) ==
    IF n \in 1..Cardinality(Semantic) THEN CHOOSE o \in Semantic : ProjectedId(o) = n ELSE 0

\* lookupPort on the projection: the value a node's input reads there.
ReadsInProjection(o, i) == Alias(Root(ops[o].args[i]))

\* A value's label in the canonical string names its producer's structure,
\* never its id.
Label(v) == IF v \in Semantic THEN ops[v].cls ELSE 0

CanonicalRecord(o) ==
    [cls |-> ops[o].cls,
     ins |-> [i \in DOMAIN ops[o].args |->
                 <<AccessMap(ops[o].args[i]), Label(ReadsInProjection(o, i))>>]]

\* canonicalProjectedGraphString: the records, sorted, so a bag of them.
SourceGraphHash ==
    [r \in {CanonicalRecord(o) : o \in Semantic} |->
        Cardinality({o \in Semantic : CanonicalRecord(o) = r})]

----------------------------------------------------------------------------
(* Encoding.                                                               *)

Init ==
    /\ setup \in Setups
    /\ phase = "encode"
    /\ order = [i \in DOMAIN setup.kernel |-> i]
    /\ ops = setup.kernel
    /\ meta = [version |-> 0, hash |-> <<>>, materialized |-> TRUE, hashed |-> FALSE]
    /\ routes = <<>>
    /\ chains = <<>>
    /\ todo = <<>>
    /\ reports = <<>>
    /\ edits = {}
    /\ verdict = "none"
    /\ decoded = <<>>

\* A rule that needs layouts records its solutions and their entries, any
\* other the explicit marker.
SolvedOrMarked(o) == IF ops[o].needs THEN {"container", "entries"} ELSE {"marker"}

\* The record encodeSelectedPlan writes for a placed node.
EncodedRecord(o) ==
    [instance |-> setup.instance[o],
     computes |-> "e1",
     params   |-> IF ops[o].derives THEN "given" ELSE "empty",
     layout   |-> SolvedOrMarked(o)]

Stamped(o) ==
    IF ops[o].kind = "node"
    THEN [ops[o] EXCEPT !.node = ProjectedId(o), !.rank = setup.rank[o],
                        !.record = EncodedRecord(o)]
    ELSE ops[o]

\* encodeSelectedPlan runs before any movement exists.
Encode ==
    /\ phase = "encode"
    /\ ops' = [o \in DOMAIN ops |-> Stamped(o)]
    /\ meta' = [version |-> 3, hash |-> SourceGraphHash, materialized |-> TRUE, hashed |-> TRUE]
    /\ routes' = setup.conns
    /\ todo' = [i \in DOMAIN setup.conns |-> i]
    /\ phase' = IF setup.materializer THEN "emit" ELSE "unemitted"
    /\ UNCHANGED <<setup, order, chains, reports, edits, verdict, decoded>>

----------------------------------------------------------------------------
(* Materialization: one step per connection.                               *)

Conn(c) == setup.conns[c]
Producer(c) == MappedOp(Conn(c).value)

\* The connections some recorded barrier waits for.
BarrierFor == UNION {s.waits : s \in {t \in setup.sync : t.barrier}}

Hops(c) ==
    IF Conn(c).hops # <<>> THEN Conn(c).hops
    ELSE [h \in 1..(Len(Conn(c).route) - 1) |->
            [index |-> h, from |-> Conn(c).route[h], to |-> Conn(c).route[h + 1],
             storage |-> <<0, 0>>]]

\* hopsFor: why a connection's hops cannot be used, or the empty string.
DescribesRoute(c, h) ==
    LET hop == Conn(c).hops[h]
    IN  hop.index = h /\ hop.from = Conn(c).route[h] /\ hop.to = Conn(c).route[h + 1]
StorageResolves(c, h) ==
    \A i \in 1..2 : Conn(c).hops[h].storage[i] \in setup.allocations \ {0}
HopsReason(c) ==
    IF Conn(c).hops = <<>>
    THEN IF Len(Conn(c).route) < 2 THEN "route_has_no_hop_to_materialize" ELSE ""
    ELSE IF Len(Conn(c).hops) # Len(Conn(c).route) - 1 THEN "hop_route_length_mismatch"
    ELSE LET bad == {h \in DOMAIN Conn(c).hops :
                        ~DescribesRoute(c, h) \/ ~StorageResolves(c, h)}
         IN  IF bad = {} THEN ""
             ELSE IF DescribesRoute(c, Min(bad)) THEN "hop_storage_unresolved"
             ELSE "hop_route_length_mismatch"

\* A hop is carried when a link joins its two distinct memories.
CarriedHop(hop) ==
    /\ {hop.from, hop.to} \subseteq Memories
    /\ hop.from # hop.to
    /\ <<hop.from, hop.to>> \in Links
CarriedHops(c) ==
    LET broken == {h \in DOMAIN Hops(c) : ~CarriedHop(Hops(c)[h])}
    IN  IF broken = {} THEN Len(Hops(c)) ELSE Min(broken) - 1

\* The checks of a movement before anything is emitted, in their order.
MoveReason(c) ==
    IF HopsReason(c) # "" THEN HopsReason(c)
    ELSE IF Producer(c) = 0 THEN "no_producing_operation_in_the_kernel"
    ELSE IF ~({Head(Conn(c).route), Last(Conn(c).route)} \subseteq Memories)
         THEN "route_names_an_unknown_memory"
    ELSE IF Head(Conn(c).route) = Last(Conn(c).route)
         THEN "route_endpoints_name_the_same_memory_node"
    ELSE ""

\* MUTANT of EmitChain: every hop copies the original value.
EmitChainFromSource(c, n, value, base) ==
    [k \in 1..(2 * n) |->
        LET h == (k + 1) \div 2
        IN  IF k % 2 = 0
            THEN [Blank EXCEPT !.kind = "wait", !.args = <<base + k - 1>>]
            ELSE [Blank EXCEPT !.kind = "copy", !.args = <<value>>,
                               !.value = Conn(c).value, !.conn = c,
                               !.hop = Hops(c)[h].index,
                               !.from = Hops(c)[h].from, !.to = Hops(c)[h].to,
                               !.storage = Hops(c)[h].storage]]

\* emitChain: a copy and its wait for each of the first n hops, the copy of
\* hop h being operation base + 2h - 1.
EmitChain(c, n, value, base) ==
    [k \in 1..(2 * n) |->
        LET h == (k + 1) \div 2
        IN  IF k % 2 = 0
            THEN [Blank EXCEPT !.kind = "wait", !.args = <<base + k - 1>>]
            ELSE [Blank EXCEPT !.kind = "copy",
                               !.args = <<IF h = 1 THEN value ELSE base + k - 2>>,
                               !.value = Conn(c).value, !.conn = c,
                               !.hop = Hops(c)[h].index,
                               !.from = Hops(c)[h].from, !.to = Hops(c)[h].to,
                               !.storage = Hops(c)[h].storage]]

Ids(first, last) == [k \in 1..(last - first + 1) |-> first + k - 1]
InsertedAfter(seq, anchor, ids) ==
    LET at == CHOOSE i \in DOMAIN seq : seq[i] = anchor
    IN  SubSeq(seq, 1, at) \o ids \o SubSeq(seq, at + 1, Len(seq))

Transform(c, input, stamp) ==
    [Blank EXCEPT !.kind = "transform", !.args = <<input>>, !.transform = Conn(c).transform,
                  !.conn = stamp, !.value = IF stamp = 0 THEN 0 ELSE Conn(c).value]
Barrier(c, tokens) ==
    [Blank EXCEPT !.kind = "barrier", !.args = tokens, !.conn = c]

Chain(c, sources, result) ==
    [value |-> Conn(c).value, route |-> Conn(c).route, transform |-> Conn(c).transform,
     sources |-> sources, result |-> result, ports |-> Conn(c).ports]

Report(reason) == reports' = Append(reports, reason)
NextConnection == todo' = Tail(todo)
Emitting(c) == phase = "emit" /\ todo # <<>> /\ c = Head(todo)
Untouched == UNCHANGED <<setup, phase, meta, routes, edits, verdict, decoded>>

\* A direct connection is materialized by construction.
SkipDirect(c) ==
    /\ Emitting(c) /\ Conn(c).kind = "direct"
    /\ NextConnection
    /\ UNCHANGED <<order, ops, chains, reports>> /\ Untouched

SharesChain(c, i) ==
    /\ chains[i].value = Conn(c).value
    /\ chains[i].route = Conn(c).route
    /\ chains[i].transform = Conn(c).transform

\* An emitted chain for the same value, route and transform serves this
\* connection too: only its endpoints are added.
Merge(c, i) ==
    /\ Emitting(c) /\ Conn(c).kind \in {"transfer", "both", "replicate", "transform"}
    /\ i \in DOMAIN chains /\ SharesChain(c, i)
    /\ \A j \in 1..(i - 1) : ~SharesChain(c, j)
    /\ chains' = [chains EXCEPT ![i].ports =
                     @ \o SelectSeq(Conn(c).ports, LAMBDA p : p \notin Range(@))]
    /\ NextConnection
    /\ UNCHANGED <<order, ops, reports>> /\ Untouched

Unmerged(c) == \A i \in DOMAIN chains : ~SharesChain(c, i)

\* A layout transform converts the value where its producer wrote it.
TransformInPlace(c) ==
    /\ Emitting(c) /\ Conn(c).kind = "transform" /\ Unmerged(c)
    /\ IF Conn(c).transform = "" \/ Producer(c) = 0
       THEN /\ Report(IF Conn(c).transform = "" THEN "no_maps_to_emit"
                      ELSE "no_producing_operation_in_the_kernel")
            /\ UNCHANGED <<order, ops, chains>>
       ELSE /\ ops' = Append(ops, Transform(c, Producer(c), 0))
            /\ order' = InsertedAfter(order, Producer(c), <<Len(ops) + 1>>)
            /\ chains' = Append(chains, Chain(c, {Producer(c)}, Len(ops) + 1))
            /\ UNCHANGED reports
    /\ NextConnection
    /\ Untouched

\* A movement no part of which can be emitted.
RefuseMove(c) ==
    /\ Emitting(c) /\ Conn(c).kind \in {"transfer", "both", "replicate"} /\ Unmerged(c)
    /\ MoveReason(c) # ""
    /\ Report(MoveReason(c))
    /\ NextConnection
    /\ UNCHANGED <<order, ops, chains>> /\ Untouched

\* A movement that fails part way, at a hop no link carries or for want of
\* the transform's maps: what was emitted before stays in the kernel.
AbandonMove(c) ==
    /\ Emitting(c) /\ Conn(c).kind \in {"transfer", "both", "replicate"} /\ Unmerged(c)
    /\ MoveReason(c) = ""
    /\ \/ CarriedHops(c) < Len(Hops(c))
       \/ Conn(c).kind = "both" /\ Conn(c).transform = ""
    /\ ops' = ops \o EmitChain(c, CarriedHops(c), Producer(c), Len(ops))
    /\ order' = InsertedAfter(order, Producer(c),
                              Ids(Len(ops) + 1, Len(ops) + 2 * CarriedHops(c)))
    /\ Report(IF CarriedHops(c) < Len(Hops(c)) THEN "no_link" ELSE "no_maps_to_emit")
    /\ NextConnection
    /\ UNCHANGED chains /\ Untouched

\* The copies in route order, and right behind the last copy, before its own
\* wait, the transform and the barrier.
Move(c) ==
    /\ Emitting(c) /\ Conn(c).kind \in {"transfer", "both", "replicate"} /\ Unmerged(c)
    /\ MoveReason(c) = ""
    /\ CarriedHops(c) = Len(Hops(c))
    /\ Conn(c).kind = "both" => Conn(c).transform # ""
    /\ \E base \in {Len(ops)}, n \in {Len(Hops(c))} :
         LET last      == base + 2 * n - 1
             transform == IF Conn(c).kind = "both" THEN <<Transform(c, last, c)>> ELSE <<>>
             tokens    == [h \in 1..n |-> base + 2 * h - 1]
             barrier   == IF c \in BarrierFor THEN <<Barrier(c, tokens)>> ELSE <<>>
             extra     == Len(transform) + Len(barrier)
         IN  /\ ops' = ops \o EmitChain(c, n, Producer(c), base) \o transform \o barrier
             /\ order' = InsertedAfter(order, Producer(c),
                             Ids(base + 1, last) \o Ids(last + 2, last + 1 + extra)
                             \o <<last + 1>>)
             /\ chains' = Append(chains, Chain(c, {Producer(c)},
                                               last + (IF transform = <<>> THEN 0 ELSE 2)))
    /\ NextConnection
    /\ UNCHANGED reports /\ Untouched

\* The feeds of a gather, and why it is not emitted.  Types that do not join
\* are only found after the staging copies exist.
Feeds(c) == [i \in DOMAIN Conn(c).feeds |-> MappedOp(Conn(c).feeds[i])]
Staged(c) == Len(Conn(c).route) >= 2
GatherReason(c) ==
    IF Conn(c).semantics = "none" THEN "reduce_not_materialized"
    ELSE IF (Conn(c).semantics = "concat") # Conn(c).axis THEN "gather_axis"
    ELSE IF 0 \in Range(Feeds(c)) \/ Len(Feeds(c)) < 2 THEN "gather_feed_endpoint_unresolved"
    ELSE IF Staged(c) /\ HopsReason(c) # "" THEN HopsReason(c)
    ELSE ""

RefuseGather(c) ==
    /\ Emitting(c) /\ Conn(c).kind = "reduce" /\ GatherReason(c) # ""
    /\ Report(GatherReason(c))
    /\ NextConnection
    /\ UNCHANGED <<order, ops, chains>> /\ Untouched

\* The staging copies of feed i are operations base + 2n(i - 1) + 1 onwards.
StagedFeed(c, i, n, base) ==
    IF Staged(c) THEN base + 2 * n * i - 1 ELSE Feeds(c)[i]
StagingOps(c, n, feeds) ==
    FoldLeft(LAMBDA made, i : made \o EmitChain(c, n, Feeds(c)[i], Len(ops) + Len(made)),
             <<>>, [i \in 1..feeds |-> i])
StagingOrder(c, n, feeds) ==
    FoldLeft(LAMBDA seq, i : InsertedAfter(seq, Feeds(c)[i],
                                Ids(Len(ops) + 2 * n * (i - 1) + 1, Len(ops) + 2 * n * i)),
             order, [i \in 1..feeds |-> i])

\* An unlinked hop stops the first feed's chain; unjoinable types stop the
\* gather behind all of them.
AbandonGather(c) ==
    /\ Emitting(c) /\ Conn(c).kind = "reduce" /\ GatherReason(c) = ""
    /\ \E n \in {IF Staged(c) THEN CarriedHops(c) ELSE 0} :
         LET linked == Staged(c) => n = Len(Hops(c))
             feeds  == IF linked THEN Len(Feeds(c)) ELSE 1
         IN  /\ ~linked \/ ~Conn(c).typed
             /\ ops' = ops \o StagingOps(c, n, feeds)
             /\ order' = StagingOrder(c, n, feeds)
             /\ Report(IF linked THEN "gather_feed_types_incompatible" ELSE "no_link")
    /\ NextConnection
    /\ UNCHANGED chains /\ Untouched

\* The gather and its barrier go right behind the feed recorded last, so in
\* front of that feed's own staging copies.
Gather(c) ==
    /\ Emitting(c) /\ Conn(c).kind = "reduce" /\ GatherReason(c) = "" /\ Conn(c).typed
    /\ Staged(c) => CarriedHops(c) = Len(Hops(c))
    /\ \E n \in {IF Staged(c) THEN Len(Hops(c)) ELSE 0}, k \in {Len(Feeds(c))} :
         LET result  == Len(ops) + 2 * n * k + 1
             gather  == [Blank EXCEPT !.kind = "gather", !.conn = c, !.value = Conn(c).value,
                            !.args = [i \in 1..k |-> StagedFeed(c, i, n, Len(ops))]]
             tokens  == [i \in 1..(n * k) |-> Len(ops) + 2 * i - 1]
             barrier == IF c \in BarrierFor /\ tokens # <<>>
                        THEN <<Barrier(c, tokens)>> ELSE <<>>
         IN  /\ ops' = ops \o StagingOps(c, n, k) \o <<gather>> \o barrier
             /\ order' = InsertedAfter(StagingOrder(c, n, k), Last(Feeds(c)),
                                       Ids(result, result + Len(barrier)))
             /\ chains' = Append(chains, Chain(c, Range(Feeds(c)), result))
    /\ NextConnection
    /\ UNCHANGED reports /\ Untouched

----------------------------------------------------------------------------
(* Rewiring: one step per recorded endpoint of an emitted chain.           *)

StartRewiring ==
    /\ phase = "emit" /\ todo = <<>>
    /\ todo' = FlattenSeq([i \in DOMAIN chains |->
                              [j \in DOMAIN chains[i].ports |-> <<i, chains[i].ports[j]>>]])
    /\ phase' = "rewire"
    /\ UNCHANGED <<setup, order, ops, meta, routes, chains, reports, edits, verdict, decoded>>

Endpoint(port) ==
    LET consumer == MappedOp(port[1])
    IN  IF consumer # 0 /\ port[2] \in DOMAIN ops[consumer].args THEN consumer ELSE 0

\* retypeForConsumer has no form for a shaped value whose extent the gather
\* changed.
Retypes(chain) == setup.tile \/ ops[chain.result].kind # "gather"
                  \/ Conn(ops[chain.result].conn).semantics # "concat"

Rewired(chain, consumer, i) ==
    LET operand == ops[consumer].args[i]
    IN  IF IsView(operand) THEN [ops EXCEPT ![operand].args[1] = chain.result]
        ELSE [ops EXCEPT ![consumer].args[i] = chain.result]

\* A recorded endpoint must read the chain's source, directly or through
\* views; one that already reads the result is done; any other is reported.
Rewire ==
    /\ phase = "rewire" /\ todo # <<>>
    /\ LET chain    == chains[Head(todo)[1]]
           port     == Head(todo)[2]
           consumer == Endpoint(port)
           reads    == IF consumer = 0 THEN 0 ELSE Root(ops[consumer].args[port[2]])
       IN  \/ /\ consumer # 0 /\ reads = chain.result
              /\ UNCHANGED <<ops, reports>>
           \/ /\ consumer = 0 \/ reads \notin chain.sources \cup {chain.result}
              /\ Report("consumer_endpoint_unresolved")
              /\ UNCHANGED ops
           \/ /\ consumer # 0 /\ reads \in chain.sources
              /\ IF IsView(ops[consumer].args[port[2]]) \/ Retypes(chain)
                 THEN ops' = Rewired(chain, consumer, port[2]) /\ UNCHANGED reports
                 ELSE Report("cannot_be_retyped") /\ UNCHANGED ops
    /\ todo' = Tail(todo)
    /\ UNCHANGED <<setup, phase, order, meta, routes, chains, edits, verdict, decoded>>

----------------------------------------------------------------------------
(* The contract.                                                           *)

\* Without a materializer every connection that needs an operation is
\* reported.
Unemitted ==
    /\ phase = "unemitted"
    /\ reports' = [i \in 1..Cardinality({c \in DOMAIN setup.conns : Conn(c).kind # "direct"}) |->
                      "no_plan_materializer"]
    /\ todo' = <<>>
    /\ phase' = "rewire"
    /\ UNCHANGED <<setup, order, ops, meta, routes, chains, edits, verdict, decoded>>

Executable == setup.contract = "executable"

\* An executable binding refuses an unmaterialized plan, and then one whose
\* values have no resolved memory.
Refuse ==
    /\ phase = "rewire" /\ todo = <<>>
    /\ Executable /\ (reports # <<>> \/ ~setup.resolved)
    /\ phase' = "refused"
    /\ UNCHANGED <<setup, order, ops, meta, routes, chains, todo, reports, edits, verdict,
                   decoded>>

Bind ==
    /\ phase = "rewire" /\ todo = <<>>
    /\ Executable => reports = <<>> /\ setup.resolved
    /\ meta' = [meta EXCEPT !.materialized = (reports = <<>>)]
    /\ phase' = "bound"
    /\ UNCHANGED <<setup, order, ops, routes, chains, todo, reports, edits, verdict, decoded>>

----------------------------------------------------------------------------
(* Changes to the bound kernel.                                            *)

Tamper(name, newOps, newOrder, newMeta, newRoutes) ==
    /\ phase = "bound" /\ Cardinality(edits) < MaxEdits /\ name \notin edits
    /\ edits' = edits \cup {name}
    /\ ops' = newOps /\ order' = newOrder /\ meta' = newMeta /\ routes' = newRoutes
    /\ UNCHANGED <<setup, phase, chains, todo, reports, verdict, decoded>>

Mapped == {o \in InKernel : IsMapped(o)}
Movements == {o \in InKernel : ops[o].kind = "copy"}

\* An operand is pointed at another value of the kernel.
EditOperand ==
    \E o \in Mapped \cup Movements : \E i \in DOMAIN ops[o].args :
    \E v \in {u \in InKernel : ops[u].kind \in {"node", "view", "copy", "transform"}} :
        /\ Position(v) < Position(o) /\ v # ops[o].args[i]
        /\ Tamper("operand", [ops EXCEPT ![o].args[i] = v], order, meta, routes)
\* A movement is claimed for another connection or another hop.
EditStamp ==
    \E o \in Movements : \E c \in 0..Len(routes), h \in 1..2 :
        /\ <<c, h>> # <<ops[o].conn, ops[o].hop>>
        /\ Tamper("stamp", [ops EXCEPT ![o].conn = c, ![o].hop = h], order, meta, routes)
\* A barrier, a wait or a mapping record goes.
EditErase ==
    \E o \in {u \in InKernel : ops[u].kind \in {"barrier", "wait"}} :
        Tamper("erase", ops, SelectSeq(order, LAMBDA u : u # o), meta, routes)
EditUnmap ==
    \E o \in Mapped :
        Tamper("unmap", [ops EXCEPT ![o].node = 0, ![o].rank = 0, ![o].record = NoRecord],
               order, meta, routes)
\* A record claims another node.
EditNode ==
    \E o \in Mapped, n \in {ops[u].node : u \in Mapped} :
        /\ n # ops[o].node
        /\ Tamper("node", [ops EXCEPT ![o].node = n], order, meta, routes)
\* A record names another compute node.
EditCompute ==
    \E o \in Mapped, e \in {"absent", "e2", "alien"} :
        Tamper("compute", [ops EXCEPT ![o].record.computes = e], order, meta, routes)
\* A consumer endpoint disappears from the declared connection.
EditPorts ==
    \E c \in DOMAIN routes :
        /\ routes[c].ports # <<>>
        /\ Tamper("ports", ops, order, meta, [routes EXCEPT ![c].ports = Tail(@)])
\* The fields that prove the schema version go, one group at a time.
EditVersion == Tamper("version", ops, order, [meta EXCEPT !.version = 0], routes)
EditHashes ==
    Tamper("hashes", ops, order, [meta EXCEPT !.hashed = FALSE, !.materialized = TRUE], routes)
EditMarkers ==
    Tamper("markers",
           [o \in DOMAIN ops |-> IF IsMapped(o)
                                 THEN [ops[o] EXCEPT !.record.params = "absent",
                                                     !.record.layout = @ \cap {"container"}]
                                 ELSE ops[o]],
           order, meta, routes)

Edit ==
    \/ EditOperand \/ EditStamp \/ EditErase \/ EditUnmap \/ EditNode \/ EditCompute
    \/ EditPorts \/ EditVersion \/ EditHashes \/ EditMarkers

----------------------------------------------------------------------------
(* Verification.                                                           *)

\* kernelMetadataIsSchemaV2 and V3: a version is proved by the fields only its
\* writer records, whatever schema_version says.
SchemaV2 ==
    \/ meta.version >= 2 \/ meta.hashed
    \/ \E o \in Mapped : \/ ops[o].record.params # "absent"
                           \/ ops[o].record.layout \cap {"marker", "entries"} # {}
SchemaV3 ==
    \/ meta.version >= 3
    \/ \E o \in Mapped : ops[o].record.computes # "absent"

\* The structural verifier: every operand is defined before its use.
Dominates(v, o) == v = 0 \/ (v \in InKernel /\ Position(v) < Position(o))
Structural == \A o \in InKernel : \A i \in DOMAIN ops[o].args : Dominates(ops[o].args[i], o)

UniqueIdentity == \A o, p \in Mapped : ops[o].node = ops[p].node => o = p

\* A fully materialized plan's barriers: any barrier stamped with one of the
\* connections a step waits for represents it.
BarriersPresent ==
    meta.materialized =>
        \A s \in setup.sync : s.barrier =>
            \E o \in InKernel : /\ ops[o].kind = "barrier"
                                /\ s.waits = {} \/ ops[o].conn \in s.waits

\* The recorded hop a movement belongs to.
HopAgrees(o, c) ==
    /\ ops[o].hop \in 1..(Len(c.route) - 1)
    /\ ops[o].to = c.route[ops[o].hop + 1]
    /\ ops[o].from = c.route[ops[o].hop]
    /\ CarriedHop([from |-> ops[o].from, to |-> ops[o].to])
    /\ c.hops # <<>> =>
         /\ Len(c.hops) + 1 = Len(c.route)
         /\ \A h \in DOMAIN c.hops : /\ c.hops[h].index = h
                                     /\ c.hops[h].from = c.route[h]
                                     /\ c.hops[h].to = c.route[h + 1]
         /\ ops[o].storage = c.hops[ops[o].hop].storage

\* MUTANT of ReadsPredecessor: any copy of the value will do.
ReadsAnyCopy(o) ==
    LET from == Root(ops[o].args[1])
    IN  from # 0 /\ ops[o].value \in {ops[from].node, ops[from].value}

\* A first hop reads the operation whose record produces the value, a later
\* one the hop before it on the same connection.
ReadsPredecessor(o) ==
    LET from == Root(ops[o].args[1])
    IN  /\ from # 0
        /\ IF ops[o].hop = 1 THEN ops[from].node = ops[o].value
           ELSE /\ ops[from].kind = "copy"
                /\ ops[from].conn = ops[o].conn
                /\ ops[from].hop = ops[o].hop - 1
                /\ ops[from].value = ops[o].value

\* Every recorded endpoint reads the value in the projection, and an operation
\* of this connection in the kernel.
EndpointReads(o, c, port) ==
    LET projected == Projected(port[1])
        consumer  == MappedOp(port[1])
    IN  /\ Projected(c.value) # 0
        /\ projected # 0 /\ port[2] \in DOMAIN ops[projected].args
        /\ ReadsInProjection(projected, port[2]) = Projected(c.value)
        /\ consumer # 0 /\ port[2] \in DOMAIN ops[consumer].args
        /\ LET read == Root(ops[consumer].args[port[2]])
           IN  read # 0 /\ ops[read].conn = ops[o].conn

\* verifyMaterializedMovement, for a workload operation without a record.
MaterializedMovement(o) ==
    /\ ops[o].kind = "copy"
    /\ ops[o].conn \in DOMAIN routes
    /\ \E c \in {routes[ops[o].conn]} :
         /\ c.kind \in {"transfer", "both", "replicate"}
         /\ ops[o].value = c.value
         /\ HopAgrees(o, c)
         /\ ReadsPredecessor(o)
         /\ \A i \in DOMAIN c.ports : EndpointReads(o, c, c.ports[i])

\* The mapping record of one operation: what the schema demands of its
\* containers, and one compute selection per instance.
RecordVerifies(o) ==
    LET r == ops[o].record
    IN  /\ SchemaV3 => r.computes # "absent"
        /\ r.computes # "alien"
        /\ \A p \in Mapped : ops[p].record.instance = r.instance
                                => ops[p].record.computes = r.computes
        /\ SchemaV2 => /\ r.params # "absent"
                       /\ ops[o].derives => r.params = "given"
                       /\ r.layout = SolvedOrMarked(o)

\* Every declared route crosses links of the machine.
RoutesLinked ==
    \A c \in DOMAIN routes : \A i \in DOMAIN routes[c].route :
        /\ routes[c].route[i] \in Memories
        /\ i > 1 => <<routes[c].route[i - 1], routes[c].route[i]>> \in Links

HashMatches == meta.hashed /\ meta.hash = SourceGraphHash

\* verifyMappedMicroIR, in the order of its passes.
Verdict ==
    IF ~Structural THEN "structural"
    ELSE IF ~UniqueIdentity THEN "identity"
    ELSE IF ~BarriersPresent THEN "barrier"
    ELSE IF \E o \in InKernel : IsWorkloadNode(o) /\ ~IsMapped(o) /\ ~MaterializedMovement(o)
         THEN "movement"
    ELSE IF \E o \in Mapped : ~RecordVerifies(o) THEN "record"
    ELSE IF ~RoutesLinked THEN "routes"
    ELSE IF SchemaV2 /\ ~HashMatches THEN "hash"
    ELSE "accepted"

Verify ==
    /\ phase = "bound"
    /\ verdict' = Verdict
    /\ phase' = "verified"
    /\ UNCHANGED <<setup, order, ops, meta, routes, chains, todo, reports, edits, decoded>>

----------------------------------------------------------------------------
(* Decoding.                                                               *)

\* The declared version, raised to what the recorded fields prove.
SchemaVersion ==
    Max({IF meta.version > 0 THEN meta.version ELSE 1,
         IF SchemaV2 THEN 2 ELSE 1, IF SchemaV3 THEN 3 ELSE 1})

\* Every record names the node its operation is in the projection, and every
\* recorded endpoint exists there.
Recoverable ==
    /\ \A o \in Mapped :
         /\ o \in Semantic /\ ops[o].node = ProjectedId(o)
         /\ "container" \in ops[o].record.layout => "entries" \in ops[o].record.layout
    /\ \A c \in DOMAIN routes :
         /\ routes[c].kind # "reduce" => Projected(routes[c].value) # 0
         /\ \A i \in DOMAIN routes[c].feeds : Projected(routes[c].feeds[i]) # 0
         /\ \A i \in DOMAIN routes[c].ports :
              LET o == Projected(routes[c].ports[i][1])
              IN  o # 0 /\ routes[c].ports[i][2] \in DOMAIN ops[o].args

Decode ==
    /\ phase = "verified"
    /\ decoded' = IF SchemaVersion = 3 /\ HashMatches /\ Recoverable
                  THEN [placed |-> [n \in {ops[o].node : o \in Mapped} |->
                                      ops[MappedOp(n)].record.computes],
                        conns |-> routes, materialized |-> meta.materialized]
                  ELSE <<>>
    /\ phase' = "decoded"
    /\ UNCHANGED <<setup, order, ops, meta, routes, chains, todo, reports, edits, verdict>>

Next ==
    \/ \E c \in DOMAIN setup.conns :
          \/ SkipDirect(c)
          \/ \E i \in DOMAIN chains : Merge(c, i)
          \/ TransformInPlace(c)
          \/ RefuseMove(c) \/ AbandonMove(c) \/ Move(c)
          \/ RefuseGather(c) \/ AbandonGather(c) \/ Gather(c)
    \/ Encode \/ StartRewiring \/ Rewire \/ Unemitted
    \/ Refuse \/ Bind \/ Edit \/ Verify \/ Decode

Spec == Init /\ [][Next]_vars
============================================================================
