------------------------------- MODULE Routing -------------------------------
(***************************************************************************)
(* TopologyService::enumerateRoutes of lib/Mapping/Routing.cpp: a          *)
(* best-first enumeration of the cycle-free ways to move one value between *)
(* two memories of the machine, cut by a cap on hops and a cap on routes.  *)
(*                                                                         *)
(* The machine is constant, the request (RouteRequest, the limit argument  *)
(* and RouteOptions together) is chosen in the initial state.  Link ids    *)
(* are numbers in the order of the code's strings; the cost of a hop, a    *)
(* double in the code, is latency + bytes * perByte in whole cycles.  The  *)
(* DRAM bytes and the utilization estimate written into a finished route   *)
(* steer nothing here and are left out.                                    *)
(***************************************************************************)
EXTENDS Integers, Sequences, FiniteSets, Functions

CONSTANTS
  Memory,     \* [memory id -> [alignment, capacity, layouts]]
  Link,       \* [link id -> [source, destination, granule, latency, perByte, engines]]
  Attached,   \* [transfer engine id -> the executor it is attached to]
  Visible,    \* the pairs <<memory, executor>> for which isVisible() holds
  None,       \* std::nullopt
  Requests

Memories == DOMAIN Memory
LinkIds == DOMAIN Link

ASSUME RoutingAssumption ==
  /\ IsFiniteSet(Memories) /\ None \notin Memories
  /\ LinkIds \subseteq Nat
  /\ \A m \in Memories : Memory[m].alignment \in Nat /\ Memory[m].capacity \in Nat
  /\ \A l \in LinkIds : /\ Link[l].granule \in Nat /\ Link[l].latency \in Nat
                        /\ Link[l].perByte \in Nat
                        /\ DOMAIN Link[l].engines \subseteq Nat
  /\ \A r \in Requests : /\ r.bytes \in Nat /\ r.alignment \in Nat
                         /\ r.limit \in Nat /\ r.maxRoutes \in Nat /\ r.maxHops \in Nat

VARIABLES
  req,        \* the call's arguments
  phase,      \* "check", "search", "done", or the error: "rejected" or "unreachable"
  work,       \* the priority queue of partial routes
  routes,     \* the routes found so far, in order
  pruned,     \* hopCapPruned
  truncated   \* the flag handed back to the caller

vars == <<req, phase, work, routes, pruned, truncated>>

-----------------------------------------------------------------------------
(* Legality of a hop                                                       *)

SupportsAlignment(m, bytes) == Memory[m].alignment % bytes = 0

MemorySupportsLayout(m, layout) == layout \in Memory[m].layouts

\* The transfer engines of a link that exist and whose executor sees the
\* link's source; legalEngine() takes the first of them.
Reaching(l) ==
  {i \in DOMAIN Link[l].engines :
     /\ Link[l].engines[i] \in DOMAIN Attached
     /\ <<Link[l].source, Attached[Link[l].engines[i]]>> \in Visible}

LegalEngine(l) ==
  IF Reaching(l) = {} THEN None
  ELSE Link[l].engines[CHOOSE i \in Reaching(l) : \A j \in Reaching(l) : i <= j]

\* The occupancy of an intermediate memory: its own figure or the scalar.
Live(m) == IF m \in DOMAIN req.liveBy THEN req.liveBy[m] ELSE req.live

\* The room left for the value; live data beyond the capacity counts as full.
Room(m) ==
  Memory[m].capacity - (IF Live(m) < Memory[m].capacity THEN Live(m) ELSE Memory[m].capacity)
    >= req.bytes

LegalHop(l) ==
  LET next == Link[l].destination IN
  /\ Link[l].granule # 0 /\ req.bytes % Link[l].granule = 0
  /\ SupportsAlignment(next, req.alignment)
  /\ req.layout # None => MemorySupportsLayout(next, req.layout)
  /\ next # req.destination => Room(next)
  /\ LegalEngine(l) # None

-----------------------------------------------------------------------------
(* The priority queue                                                      *)

HopCost(l) == Link[l].latency + req.bytes * Link[l].perByte

LastNode(p) == p.nodes[Len(p.nodes)]

\* Lexicographic order of two link sequences of one length.
LexLess(a, b) ==
  \E i \in DOMAIN a : a[i] < b[i] /\ \A j \in DOMAIN a : j < i => a[j] = b[j]

\* WorstFirst read the other way round: p leaves the queue before q.
Better(p, q) ==
  \/ p.cost < q.cost
  \/ p.cost = q.cost /\ Len(p.links) < Len(q.links)
  \/ p.cost = q.cost /\ Len(p.links) = Len(q.links) /\ LexLess(p.links, q.links)

\* MUTANT of Top: breadth first.
TopShort(p) == p \in work /\ \A q \in work : Len(p.links) <= Len(q.links)

Top(p) == p \in work /\ \A q \in work : ~Better(q, p)

\* MUTANT of Fresh: only the source is not revisited.
FreshButSource(p, l) == Link[l].destination # p.nodes[1]

\* Cycle freedom: the memory is not on the path yet.
Fresh(p, l) == \A i \in DOMAIN p.nodes : p.nodes[i] # Link[l].destination

\* The legal links that lead on from a partial route.
Extensions(p) ==
  {l \in LinkIds : /\ Link[l].source = LastNode(p)
                   /\ Link[l].destination \in Memories
                   /\ Fresh(p, l)
                   /\ LegalHop(l)}

Advanced(p, l) ==
  [nodes |-> Append(p.nodes, Link[l].destination), links |-> Append(p.links, l),
   engines |-> p.engines \cup {LegalEngine(l)}, cost |-> p.cost + HopCost(l)]

Start == [nodes |-> <<req.source>>, links |-> <<>>, engines |-> {}, cost |-> 0]

EffectiveLimit == IF req.limit < req.maxRoutes THEN req.limit ELSE req.maxRoutes

-----------------------------------------------------------------------------
Init ==
  /\ req \in Requests
  /\ phase = "check"
  /\ work = {} /\ routes = <<>>
  /\ pruned = FALSE /\ truncated = FALSE

\* The facts of the request that do not depend on whether anything moves.
WellFormed ==
  /\ req.bytes # 0 /\ req.alignment # 0
  /\ req.source \in Memories /\ req.destination \in Memories
  /\ req.producer # None => <<req.source, req.producer>> \in Visible
  /\ req.consumer # None => <<req.destination, req.consumer>> \in Visible

\* The facts of the endpoints a transfer needs, and a positive limit.
EndpointsFit ==
  /\ \A m \in {req.source, req.destination} :
       /\ SupportsAlignment(m, req.alignment)
       /\ req.layout # None => MemorySupportsLayout(m, req.layout)
  /\ EffectiveLimit # 0

\* Source and destination are one memory: the route without hops.
StayPut ==
  /\ phase = "check" /\ WellFormed /\ req.source = req.destination
  /\ routes' = <<Start>>
  /\ phase' = "done"
  /\ UNCHANGED <<req, work, pruned, truncated>>

Reject ==
  /\ phase = "check"
  /\ ~(WellFormed /\ (req.source = req.destination \/ EndpointsFit))
  /\ phase' = "rejected"
  /\ UNCHANGED <<req, work, routes, pruned, truncated>>

Begin ==
  /\ phase = "check" /\ WellFormed /\ req.source # req.destination /\ EndpointsFit
  /\ work' = {Start}
  /\ phase' = "search"
  /\ UNCHANGED <<req, routes, pruned, truncated>>

Searching == phase = "search" /\ Len(routes) < EffectiveLimit

\* The popped path has reached the destination.
Arrive(p) ==
  /\ LastNode(p) = req.destination
  /\ routes' = Append(routes, p)
  /\ work' = work \ {p}
  /\ UNCHANGED pruned

\* MUTANT of Extensible: a path into the hop cap never counts as cut.
ExtensibleNever(p) == FALSE

\* hasLegalExtension()
Extensible(p) == Extensions(p) # {}

\* The popped path is at the hop cap: it counts as cut when it could go on.
Cut(p) ==
  /\ LastNode(p) # req.destination
  /\ Len(p.links) >= req.maxHops
  /\ pruned' = (pruned \/ Extensible(p))
  /\ work' = work \ {p}
  /\ UNCHANGED routes

Expand(p) ==
  /\ LastNode(p) # req.destination
  /\ Len(p.links) < req.maxHops
  /\ work' = (work \ {p}) \cup {Advanced(p, l) : l \in Extensions(p)}
  /\ UNCHANGED <<routes, pruned>>

Pop ==
  /\ Searching
  /\ \E p \in work : Top(p) /\ (Arrive(p) \/ Cut(p) \/ Expand(p))
  /\ UNCHANGED <<req, phase, truncated>>

Capped == pruned \/ Len(routes) >= EffectiveLimit

Finish ==
  /\ phase = "search" /\ (work = {} \/ Len(routes) >= EffectiveLimit)
  /\ truncated' = Capped
  /\ phase' = IF routes = <<>> THEN "unreachable" ELSE "done"
  /\ UNCHANGED <<req, work, routes, pruned>>

Ended == phase \in {"done", "rejected", "unreachable"}

Terminated == Ended /\ UNCHANGED vars

Next == StayPut \/ Reject \/ Begin \/ Pop \/ Finish \/ Terminated

Spec == Init /\ [][Next]_vars

-----------------------------------------------------------------------------
(* Properties                                                              *)

Partials == [nodes : Seq(Memories), links : Seq(LinkIds), engines : SUBSET DOMAIN Attached,
             cost : Nat]

\* Type invariant.
TypeOK ==
  /\ req \in Requests
  /\ phase \in {"check", "search", "done", "rejected", "unreachable"}
  /\ work \subseteq Partials
  /\ routes \in Seq(Partials)
  /\ pruned \in BOOLEAN /\ truncated \in BOOLEAN

\* The memories on a path of links that starts at the request's source.
NodeAt(ls, i) == IF i = 0 THEN req.source ELSE Link[ls[i]].destination

\* A path of links is a legal route: it starts at the source, its links join
\* up, no memory is met twice, every hop is legal, and it ends at the
\* destination.
LegalRoute(ls) ==
  /\ \A i \in DOMAIN ls : /\ Link[ls[i]].source = NodeAt(ls, i - 1)
                          /\ NodeAt(ls, i) \in Memories
                          /\ LegalHop(ls[i])
                          /\ \A j \in 0 .. i - 1 : NodeAt(ls, j) # NodeAt(ls, i)
  /\ NodeAt(ls, Len(ls)) = req.destination

\* The legal routes of the machine, whatever the caps; a route that meets no
\* memory twice has fewer links than there are memories.
AllRoutes ==
  {ls \in UNION {[1 .. n -> LinkIds] : n \in 0 .. Cardinality(Memories) - 1} : LegalRoute(ls)}

Found == {routes[i].links : i \in DOMAIN routes}

\* Every route handed back is a legal, cycle-free path from the source to the
\* destination, and the nodes reported with it are those of its links.
RoutesLegal ==
  \A k \in DOMAIN routes :
    /\ LegalRoute(routes[k].links)
    /\ routes[k].nodes = [i \in 1 .. Len(routes[k].links) + 1 |-> NodeAt(routes[k].links, i - 1)]

\* An enumeration that does not report truncation has found every legal route,
\* also the ones longer than the hop cap; one that reports that there is no
\* route, and no truncation, is right.
Exhaustive == phase \in {"done", "unreachable"} /\ ~truncated => AllRoutes \subseteq Found

PathCost(ls) == FoldFunction(+, 0, [i \in DOMAIN ls |-> HopCost(ls[i])])

Ranked(ls) == [links |-> ls, cost |-> PathCost(ls)]

\* The routes cost what their hops cost and come best first, and no legal route within the hop cap that was
\* left out is better than one that was handed back.
BestFirst ==
  phase = "done" =>
    /\ \A i \in DOMAIN routes : routes[i].cost = PathCost(routes[i].links)
    /\ \A i, j \in DOMAIN routes : i < j => Better(routes[i], routes[j])
    /\ \A ls \in AllRoutes : Len(ls) <= req.maxHops /\ ls \notin Found =>
         \A i \in DOMAIN routes : Better(routes[i], Ranked(ls))

\* Routes are found in the order of their cost, and nothing that is still
\* queued is cheaper than a route already found.
CheapestFirst ==
  /\ \A i, j \in DOMAIN routes : i < j => routes[i].cost <= routes[j].cost
  /\ \A i \in DOMAIN routes : \A p \in work : routes[i].cost <= p.cost
=============================================================================
