---------------------------- MODULE MachineProofs ----------------------------
(***************************************************************************)
(* Proofs about Routing for every machine and every request, and about     *)
(* MachineModel for every set of documents.                                *)
(***************************************************************************)
EXTENDS Routing, MachineModel, FiniteSetTheorems, WellFoundedInduction, TLAPS

\* A non-empty set of naturals has a least element.
LEMMA LeastNatural ==
  ASSUME NEW T, T \subseteq Nat, T # {}
  PROVE  \E x \in T : \A y \in T : x <= y
<1> DEFINE Less == {ss \in Nat \X Nat : ss[1] < ss[2]}
<1>1. PICK x \in T : \A y \in T : ~(<<y, x>> \in Less)
  <2>1. IsWellFoundedOn(Less, Nat)
    BY NatLessThanWellFounded DEF OpToRel
  <2> HIDE DEF Less
  <2>2. QED
    BY <2>1, WFMin
<1>2. ASSUME NEW y \in T PROVE x <= y
  <2>1. <<y, x>> \in Nat \X Nat /\ x \in Nat /\ y \in Nat
    OBVIOUS
  <2>2. ~(y < x)
    BY <1>1, <2>1
  <2>3. QED
    BY <2>1, <2>2
<1>3. QED
  BY <1>2

\* The engine of a link, if there is one, is an engine of the machine.
LEMMA EngineType ==
  ASSUME NEW l \in LinkIds, LegalEngine(l) # None
  PROVE  LegalEngine(l) \in DOMAIN Attached
<1>1. Reaching(l) # {} /\ Reaching(l) \subseteq Nat
  BY RoutingAssumption DEF LegalEngine, Reaching
<1>2. PICK i \in Reaching(l) : \A j \in Reaching(l) : i <= j
  BY <1>1, LeastNatural
<1> DEFINE c == CHOOSE k \in Reaching(l) : \A j \in Reaching(l) : k <= j
<1>3. c \in Reaching(l)
  BY <1>2
<1>4. LegalEngine(l) = Link[l].engines[c]
  BY <1>1 DEF LegalEngine
<1> HIDE DEF c
<1>5. QED
  BY <1>3, <1>4 DEF Reaching

\* A hop has a cost.
LEMMA HopCostType ==
  ASSUME NEW l \in LinkIds, req \in Requests
  PROVE  HopCost(l) \in Nat
<1>1. Link[l].latency \in Nat /\ Link[l].perByte \in Nat /\ req.bytes \in Nat
  BY RoutingAssumption
<1>2. req.bytes * Link[l].perByte \in Nat
  BY <1>1
<1>3. QED
  BY <1>1, <1>2 DEF HopCost

-----------------------------------------------------------------------------
(* The inductive invariant                                                 *)

\* The nodes of a partial route are those of its links, none is met twice and
\* every hop is legal.
PathOK(p) ==
  /\ p \in Partials
  /\ Len(p.nodes) = Len(p.links) + 1
  /\ p.nodes[1] = req.source
  /\ \A i \in 1 .. Len(p.links) : /\ Link[p.links[i]].source = p.nodes[i]
                                  /\ Link[p.links[i]].destination = p.nodes[i + 1]
                                  /\ LegalHop(p.links[i])
  /\ \A i, j \in 1 .. Len(p.links) + 1 : i < j => p.nodes[i] # p.nodes[j]

WorkOK == \A p \in work : PathOK(p)

RoutesOK == \A k \in DOMAIN routes : PathOK(routes[k]) /\ LastNode(routes[k]) = req.destination

\* The links of a partial route begin a path.
Begins(p, ls) == Len(p.links) <= Len(ls) /\ \A i \in 1 .. Len(p.links) : p.links[i] = ls[i]

\* While the search runs every legal route is found, is still to be found
\* from a queued path, or a path has been cut.
Covered ==
  phase = "search" => \A ls \in AllRoutes : ls \in Found \/ pruned \/ \E p \in work : Begins(p, ls)

Inv == TypeOK /\ WorkOK /\ RoutesOK /\ Covered /\ Exhaustive

\* A member of AllRoutes is a sequence.
LEMMA RouteSeq ==
  ASSUME NEW ls \in AllRoutes
  PROVE  ls \in Seq(LinkIds) /\ LegalRoute(ls) /\ DOMAIN ls = 1 .. Len(ls) /\ Len(ls) \in Nat
<1>1. Cardinality(Memories) \in Nat
  BY RoutingAssumption, FS_CardinalityType
<1>2. PICK n \in 0 .. Cardinality(Memories) - 1 : ls \in [1 .. n -> LinkIds]
  BY DEF AllRoutes
<1>3. n \in Nat
  BY <1>1, <1>2
<1>4. QED
  BY <1>2, <1>3 DEF AllRoutes

\* The nodes of a queued path that begins a legal route are that route's.
LEMMA NodesAgree ==
  ASSUME NEW p, PathOK(p), NEW ls \in AllRoutes, Begins(p, ls), req.source \in Memories
  PROVE  \A i \in 0 .. Len(p.links) : p.nodes[i + 1] = NodeAt(ls, i)
<1>1. Len(p.links) \in Nat /\ Len(ls) \in Nat
  BY RouteSeq DEF PathOK, Partials
<1>2. ASSUME NEW i \in 0 .. Len(p.links) PROVE p.nodes[i + 1] = NodeAt(ls, i)
  <2>1. CASE i = 0
    BY <2>1 DEF PathOK, NodeAt
  <2>2. CASE i # 0
    <3>1. i \in 1 .. Len(p.links)
      BY <1>1, <1>2, <2>2
    <3>2. p.links[i] = ls[i]
      BY <3>1 DEF Begins
    <3>3. Link[p.links[i]].destination = p.nodes[i + 1]
      BY <3>1 DEF PathOK
    <3>4. QED
      BY <2>2, <3>2, <3>3 DEF NodeAt
  <2>3. QED
    BY <2>1, <2>2
<1>3. QED
  BY <1>2

\* A path that begins a legal route has reached the destination only if it is
\* that route, and otherwise the route's next link is an extension of it.
LEMMA NextLink ==
  ASSUME NEW p, PathOK(p), NEW ls \in AllRoutes, Begins(p, ls), req.source \in Memories
  PROVE  IF LastNode(p) = req.destination THEN p.links = ls
         ELSE Len(p.links) < Len(ls) /\ ls[Len(p.links) + 1] \in Extensions(p)
<1> DEFINE k == Len(p.links)
<1>1. /\ k \in Nat /\ Len(ls) \in Nat /\ k <= Len(ls)
      /\ ls \in Seq(LinkIds) /\ LegalRoute(ls) /\ DOMAIN ls = 1 .. Len(ls)
      /\ p.links \in Seq(LinkIds) /\ p.nodes \in Seq(Memories) /\ Len(p.nodes) = k + 1
  BY RouteSeq DEF PathOK, Partials, Begins
<1>2. \A i \in 0 .. k : p.nodes[i + 1] = NodeAt(ls, i)
  BY NodesAgree
<1>3. LastNode(p) = NodeAt(ls, k)
  BY <1>1, <1>2 DEF LastNode
<1>4. \A i \in 1 .. Len(ls) : \A j \in 0 .. i - 1 : NodeAt(ls, j) # NodeAt(ls, i)
  BY <1>1 DEF LegalRoute
<1>5. NodeAt(ls, Len(ls)) = req.destination
  BY <1>1 DEF LegalRoute
<1>6. CASE LastNode(p) = req.destination
  <2>1. k = Len(ls)
    <3>1. SUFFICES ASSUME k < Len(ls) PROVE FALSE
      BY <1>1
    <3>2. Len(ls) \in 1 .. Len(ls) /\ k \in 0 .. Len(ls) - 1
      BY <1>1, <3>1
    <3>3. QED
      BY <3>2, <1>3, <1>4, <1>5, <1>6
  <2>2. \A i \in 1 .. Len(ls) : p.links[i] = ls[i]
    BY <2>1 DEF Begins
  <2>3. p.links = ls
    BY <1>1, <2>1, <2>2
  <2>4. QED
    BY <1>6, <2>3
<1>7. CASE LastNode(p) # req.destination
  <2>1. k < Len(ls)
    BY <1>1, <1>3, <1>5, <1>7
  <2> DEFINE l == ls[k + 1]
  <2>2. k + 1 \in 1 .. Len(ls) /\ l \in LinkIds
    BY <1>1, <2>1
  <2>3. /\ Link[l].source = NodeAt(ls, k)
        /\ NodeAt(ls, k + 1) \in Memories
        /\ LegalHop(l)
    <3>1. /\ Link[ls[k + 1]].source = NodeAt(ls, (k + 1) - 1)
          /\ NodeAt(ls, k + 1) \in Memories
          /\ LegalHop(ls[k + 1])
      BY <1>1, <2>2 DEF LegalRoute
    <3>2. (k + 1) - 1 = k
      BY <1>1
    <3>3. QED
      BY <3>1, <3>2
  <2>4. Link[l].destination = NodeAt(ls, k + 1)
    BY <1>1 DEF NodeAt
  <2>5. Fresh(p, l)
    <3>1. ASSUME NEW i \in DOMAIN p.nodes PROVE p.nodes[i] # Link[l].destination
      <4>1. i \in 1 .. k + 1
        BY <1>1
      <4>2. i - 1 \in 0 .. k /\ i - 1 \in 0 .. (k + 1) - 1 /\ (i - 1) + 1 = i
        BY <1>1, <4>1
      <4>3. p.nodes[i] = NodeAt(ls, i - 1)
        BY <1>2, <4>2
      <4>4. NodeAt(ls, i - 1) # NodeAt(ls, k + 1)
        BY <1>4, <2>2, <4>2
      <4>5. QED
        BY <4>3, <4>4, <2>4
    <3>2. QED
      BY <3>1 DEF Fresh
  <2>6. l \in Extensions(p)
    BY <2>2, <2>3, <2>4, <2>5, <1>3 DEF Extensions
  <2>7. QED
    BY <1>7, <2>1, <2>6
<1>8. QED
  BY <1>6, <1>7

\* A path grown by an extension is again a legal path.
LEMMA AdvancedOK ==
  ASSUME NEW p, PathOK(p), NEW l \in Extensions(p), req \in Requests
  PROVE  PathOK(Advanced(p, l))
<1> DEFINE q == Advanced(p, l)
           k == Len(p.links)
<1>1. /\ l \in LinkIds /\ Link[l].source = LastNode(p) /\ Link[l].destination \in Memories
      /\ Fresh(p, l) /\ LegalHop(l)
  BY DEF Extensions
<1>2. /\ k \in Nat /\ p.links \in Seq(LinkIds) /\ p.nodes \in Seq(Memories)
      /\ Len(p.nodes) = k + 1 /\ p.cost \in Nat /\ p.engines \subseteq DOMAIN Attached
  BY DEF PathOK, Partials
<1>3. LegalEngine(l) \in DOMAIN Attached
  BY <1>1, EngineType DEF LegalHop
<1>4. p.cost + HopCost(l) \in Nat
  <2>1. HopCost(l) \in Nat
    BY <1>1, HopCostType
  <2>2. QED
    BY <1>2, <2>1
<1>5. /\ q.nodes = Append(p.nodes, Link[l].destination) /\ q.links = Append(p.links, l)
      /\ q.engines = p.engines \cup {LegalEngine(l)} /\ q.cost = p.cost + HopCost(l)
  BY DEF Advanced
<1>6. q \in Partials
  <2>1. /\ Append(p.nodes, Link[l].destination) \in Seq(Memories)
        /\ Append(p.links, l) \in Seq(LinkIds)
        /\ p.engines \cup {LegalEngine(l)} \subseteq DOMAIN Attached
    BY <1>1, <1>2, <1>3
  <2>2. QED
    BY <2>1, <1>4 DEF Partials, Advanced
<1>7. /\ Len(q.links) = k + 1 /\ Len(q.nodes) = k + 2
      /\ \A i \in 1 .. k : q.links[i] = p.links[i]
      /\ q.links[k + 1] = l
      /\ \A i \in 1 .. k + 1 : q.nodes[i] = p.nodes[i]
      /\ q.nodes[k + 2] = Link[l].destination
  BY <1>1, <1>2, <1>5
<1> HIDE DEF q
<1>8. q.nodes[1] = req.source
  BY <1>2, <1>7 DEF PathOK
<1>9. ASSUME NEW i \in 1 .. Len(q.links)
      PROVE  /\ Link[q.links[i]].source = q.nodes[i]
             /\ Link[q.links[i]].destination = q.nodes[i + 1]
             /\ LegalHop(q.links[i])
  <2>1. CASE i = k + 1
    <3>1. p.nodes[k + 1] = LastNode(p) /\ q.nodes[k + 1] = p.nodes[k + 1]
      <4>1. p.nodes[k + 1] = LastNode(p)
        BY <1>2 DEF LastNode
      <4>2. k + 1 \in 1 .. k + 1
        BY <1>2
      <4>3. QED
        BY <1>7, <4>1, <4>2
    <3>2. (k + 1) + 1 = k + 2
      BY <1>2
    <3>3. QED
      BY <2>1, <3>1, <3>2, <1>1, <1>7
  <2>2. CASE i # k + 1
    <3>1. i \in 1 .. k /\ i \in 1 .. k + 1 /\ i + 1 \in 1 .. k + 1
      BY <1>2, <1>7, <2>2
    <3>2. QED
      BY <3>1, <1>7 DEF PathOK
  <2>3. QED
    BY <2>1, <2>2
<1>10. ASSUME NEW i \in 1 .. Len(q.links) + 1, NEW j \in 1 .. Len(q.links) + 1, i < j
       PROVE  q.nodes[i] # q.nodes[j]
  <2>1. CASE j = k + 2
    <3>1. i \in 1 .. k + 1 /\ i \in DOMAIN p.nodes
      BY <1>2, <1>7, <1>10, <2>1
    <3>2. q.nodes[i] = p.nodes[i] /\ p.nodes[i] # Link[l].destination
      BY <3>1, <1>1, <1>7 DEF Fresh
    <3>3. QED
      BY <3>2, <2>1, <1>7
  <2>2. CASE j # k + 2
    <3>1. i \in 1 .. k + 1 /\ j \in 1 .. k + 1
      BY <1>2, <1>7, <1>10, <2>2
    <3>2. QED
      BY <3>1, <1>10, <1>7 DEF PathOK
  <2>3. QED
    BY <2>1, <2>2
<1>11. Len(q.nodes) = Len(q.links) + 1
  BY <1>2, <1>7
<1>12. PathOK(q)
  BY <1>6, <1>8, <1>9, <1>10, <1>11 DEF PathOK
<1>13. QED
  BY <1>12 DEF q

\* The path without hops is a legal path.
LEMMA StartOK ==
  ASSUME req.source \in Memories
  PROVE  PathOK(Start) /\ LastNode(Start) = req.source /\ Start.links = <<>>
<1>1. Start \in Partials
  BY DEF Start, Partials
<1>2. Start.nodes = <<req.source>> /\ Start.links = <<>> /\ Len(Start.links) = 0 /\ Len(Start.nodes) = 1
  BY DEF Start
<1>3. QED
  BY <1>1, <1>2 DEF PathOK, LastNode

-----------------------------------------------------------------------------
(* One step                                                                *)

\* The search only runs on requests whose source is a memory of the machine,
\* and starts without routes.
PhaseOK == /\ phase = "search" => req.source \in Memories
           /\ phase = "check" => routes = <<>>

LEMMA InitInv == Init => Inv /\ PhaseOK
<1> SUFFICES ASSUME Init PROVE Inv /\ PhaseOK
  OBVIOUS
<1>1. TypeOK
  <2>1. <<>> \in Seq(Partials)
    OBVIOUS
  <2>2. QED
    BY <2>1 DEF Init, TypeOK
<1>2. WorkOK /\ RoutesOK /\ Covered /\ Exhaustive /\ PhaseOK
  BY DEF Init, WorkOK, RoutesOK, Covered, Exhaustive, PhaseOK
<1>3. QED
  BY <1>1, <1>2 DEF Inv

\* What a step that leaves the request alone keeps of a path.
LEMMA PathKept ==
  ASSUME NEW p, PathOK(p), req' = req
  PROVE  PathOK(p)'
BY DEF PathOK, LegalHop, Room, Live

LEMMA RoutesKept ==
  ASSUME RoutesOK, req' = req, routes' = routes
  PROVE  RoutesOK'
<1>1. ASSUME NEW k \in DOMAIN routes PROVE PathOK(routes[k])' /\ LastNode(routes[k]) = req.destination
  BY PathKept DEF RoutesOK
<1>2. QED
  BY <1>1 DEF RoutesOK

LEMMA AllRoutesKept ==
  ASSUME req' = req
  PROVE  AllRoutes' = AllRoutes
BY DEF AllRoutes, LegalRoute, NodeAt, LegalHop, Room, Live

LEMMA StayPutInv ==
  ASSUME Inv, PhaseOK, StayPut
  PROVE  Inv' /\ PhaseOK'
<1>1. /\ req' = req /\ work' = work /\ truncated' = truncated /\ pruned' = pruned
      /\ routes' = <<Start>> /\ phase' = "done" /\ req.source \in Memories
      /\ req.source = req.destination
  BY DEF StayPut, WellFormed
<1>2. PathOK(Start) /\ LastNode(Start) = req.source /\ Start.links = <<>> /\ Start \in Partials
  BY <1>1, StartOK DEF PathOK
<1>3. TypeOK'
  BY <1>1, <1>2 DEF Inv, TypeOK
<1>4. WorkOK'
  BY <1>1, PathKept DEF Inv, WorkOK
<1>5. DOMAIN routes' = {1} /\ routes'[1] = Start
  BY <1>1
<1>6. RoutesOK'
  <2>1. PICK r : r = Start
    OBVIOUS
  <2>2. PathOK(routes[1])'
    <3>1. PathOK(r)'
      BY <1>1, <1>2, <2>1, PathKept
    <3>2. r = routes'[1]
      BY <1>5, <2>1
    <3>3. QED
      BY <3>1, <3>2 DEF PathOK
  <2>3. LastNode(routes'[1]) = req'.destination
    BY <1>1, <1>2, <1>5
  <2>4. QED
    BY <1>5, <2>2, <2>3 DEF RoutesOK, LastNode
<1>7. Covered' /\ PhaseOK'
  BY <1>1 DEF Covered, PhaseOK
<1>8. Exhaustive'
  <2>1. ASSUME NEW ls \in AllRoutes PROVE ls = <<>>
    <3>1. /\ ls \in Seq(LinkIds) /\ LegalRoute(ls) /\ DOMAIN ls = 1 .. Len(ls) /\ Len(ls) \in Nat
      BY RouteSeq
    <3>2. Len(ls) = 0
      <4>1. SUFFICES ASSUME Len(ls) # 0 PROVE FALSE
        OBVIOUS
      <4>2. Len(ls) \in DOMAIN ls /\ 0 \in 0 .. Len(ls) - 1
        BY <3>1, <4>1
      <4>3. NodeAt(ls, 0) # NodeAt(ls, Len(ls))
        BY <3>1, <4>2 DEF LegalRoute
      <4>4. NodeAt(ls, 0) = req.source /\ NodeAt(ls, Len(ls)) = req.destination
        BY <3>1 DEF LegalRoute, NodeAt
      <4>5. QED
        BY <1>1, <4>3, <4>4
    <3>3. QED
      BY <3>1, <3>2
  <2>2. <<>> \in Found'
    BY <1>2, <1>5 DEF Found
  <2>3. AllRoutes' = AllRoutes
    BY <1>1, AllRoutesKept
  <2>4. QED
    BY <2>1, <2>2, <2>3 DEF Exhaustive
<1>9. QED
  BY <1>3, <1>4, <1>6, <1>7, <1>8 DEF Inv

LEMMA BeginInv ==
  ASSUME Inv, PhaseOK, Begin
  PROVE  Inv' /\ PhaseOK'
<1>1. /\ req' = req /\ work' = {Start} /\ truncated' = truncated /\ pruned' = pruned
      /\ routes' = routes /\ phase' = "search" /\ req.source \in Memories
  BY DEF Begin, WellFormed
<1>2. PathOK(Start) /\ Start.links = <<>> /\ Start \in Partials
  BY <1>1, StartOK DEF PathOK
<1>3. TypeOK' /\ PhaseOK'
  BY <1>1, <1>2 DEF Inv, TypeOK, PhaseOK
<1>4. WorkOK'
  BY <1>1, <1>2, PathKept DEF WorkOK
<1>5. RoutesOK'
  BY <1>1, RoutesKept DEF Inv
<1>6. Covered'
  <2>1. ASSUME NEW ls \in AllRoutes PROVE Begins(Start, ls)
    BY <1>2, RouteSeq DEF Begins
  <2>2. AllRoutes' = AllRoutes
    BY <1>1, AllRoutesKept
  <2>3. \A ls \in AllRoutes' : \E p \in work' : Begins(p, ls)
    BY <1>1, <2>1, <2>2
  <2>4. QED
    BY <2>3 DEF Covered
<1>7. Exhaustive'
  BY <1>1 DEF Exhaustive
<1>8. QED
  BY <1>3, <1>4, <1>5, <1>6, <1>7 DEF Inv

LEMMA ArriveInv ==
  ASSUME Inv, PhaseOK, phase = "search", NEW p \in work, Arrive(p),
         UNCHANGED <<req, phase, truncated>>
  PROVE  Inv' /\ PhaseOK'
<1>1. /\ req' = req /\ phase' = "search" /\ truncated' = truncated /\ pruned' = pruned
      /\ routes' = Append(routes, p) /\ work' = work \ {p} /\ req.source \in Memories
      /\ LastNode(p) = req.destination
  BY DEF Arrive, PhaseOK
<1>2. PathOK(p) /\ p \in Partials /\ routes \in Seq(Partials)
  BY DEF Inv, WorkOK, PathOK, TypeOK
<1>3. TypeOK' /\ PhaseOK'
  BY <1>1, <1>2 DEF Inv, TypeOK, PhaseOK
<1>4. WorkOK'
  BY <1>1, PathKept DEF Inv, WorkOK
<1>5. /\ Len(routes) \in Nat /\ DOMAIN routes = 1 .. Len(routes)
      /\ DOMAIN routes' = 1 .. Len(routes) + 1
      /\ \A k \in 1 .. Len(routes) : routes'[k] = routes[k]
      /\ routes'[Len(routes) + 1] = p
  BY <1>1, <1>2
<1>6. RoutesOK'
  <2>1. ASSUME NEW k \in DOMAIN routes' PROVE PathOK(routes'[k]) /\ LastNode(routes'[k]) = req.destination
    <3>1. CASE k = Len(routes) + 1
      BY <3>1, <1>1, <1>2, <1>5
    <3>2. CASE k # Len(routes) + 1
      <4>1. k \in 1 .. Len(routes)
        BY <1>5, <3>2
      <4>2. QED
        BY <4>1, <1>5 DEF Inv, RoutesOK
    <3>3. QED
      BY <3>1, <3>2
  <2>2. \A k \in DOMAIN routes' : \A r : r = routes'[k] => PathOK(r) /\ LastNode(r) = req.destination
    BY <2>1
  <2>3. \A r : PathOK(r) => PathOK(r)'
    BY <1>1, PathKept
  <2>4. ASSUME NEW k \in DOMAIN routes' PROVE PathOK(routes[k])' /\ LastNode(routes'[k]) = req'.destination
    <3>1. PICK r : r = routes'[k]
      OBVIOUS
    <3>2. PathOK(r)' /\ LastNode(r) = req'.destination
      BY <2>2, <2>3, <3>1, <1>1
    <3>3. QED
      BY <3>1, <3>2 DEF PathOK
  <2>5. QED
    BY <2>4 DEF RoutesOK, LastNode
<1>7. Covered'
  <2>1. AllRoutes' = AllRoutes
    BY <1>1, AllRoutesKept
  <2>2. Found' = Found \cup {p.links}
    BY <1>5 DEF Found
  <2>3. ASSUME NEW ls \in AllRoutes
        PROVE  ls \in Found' \/ pruned' \/ \E q \in work' : Begins(q, ls)
    <3>1. CASE ls \in Found \/ pruned
      BY <3>1, <2>2, <1>1
    <3>2. CASE \E q \in work : Begins(q, ls)
      <4>1. PICK q \in work : Begins(q, ls)
        BY <3>2
      <4>2. CASE q = p
        BY <4>1, <4>2, <1>1, <1>2, <2>2, NextLink
      <4>3. CASE q # p
        BY <4>1, <4>3, <1>1
      <4>4. QED
        BY <4>2, <4>3
    <3>3. QED
      BY <3>1, <3>2 DEF Inv, Covered
  <2>4. QED
    BY <2>1, <2>3 DEF Covered
<1>8. Exhaustive'
  BY <1>1 DEF Exhaustive
<1>9. QED
  BY <1>3, <1>4, <1>6, <1>7, <1>8 DEF Inv

LEMMA CutInv ==
  ASSUME Inv, PhaseOK, phase = "search", NEW p \in work, Cut(p),
         UNCHANGED <<req, phase, truncated>>
  PROVE  Inv' /\ PhaseOK'
<1>1. /\ req' = req /\ phase' = "search" /\ truncated' = truncated
      /\ pruned' = (pruned \/ Extensions(p) # {})
      /\ routes' = routes /\ work' = work \ {p} /\ req.source \in Memories
      /\ LastNode(p) # req.destination
  BY DEF Cut, PhaseOK, Extensible
<1>2. PathOK(p)
  BY DEF Inv, WorkOK
<1>3. TypeOK' /\ PhaseOK'
  BY <1>1 DEF Inv, TypeOK, PhaseOK
<1>4. WorkOK'
  BY <1>1, PathKept DEF Inv, WorkOK
<1>5. RoutesOK'
  BY <1>1, RoutesKept DEF Inv
<1>6. Covered'
  <2>1. AllRoutes' = AllRoutes /\ Found' = Found
    BY <1>1, AllRoutesKept DEF Found
  <2>2. ASSUME NEW ls \in AllRoutes
        PROVE  ls \in Found' \/ pruned' \/ \E q \in work' : Begins(q, ls)
    <3>1. CASE ls \in Found \/ pruned
      BY <3>1, <2>1, <1>1
    <3>2. CASE \E q \in work : Begins(q, ls)
      <4>1. PICK q \in work : Begins(q, ls)
        BY <3>2
      <4>2. CASE q = p
        <5>1. ls[Len(p.links) + 1] \in Extensions(p)
          BY <4>1, <4>2, <1>1, <1>2, NextLink
        <5>2. QED
          BY <5>1, <1>1
      <4>3. CASE q # p
        BY <4>1, <4>3, <1>1
      <4>4. QED
        BY <4>2, <4>3
    <3>3. QED
      BY <3>1, <3>2 DEF Inv, Covered
  <2>3. QED
    BY <2>1, <2>2 DEF Covered
<1>7. Exhaustive'
  BY <1>1 DEF Exhaustive
<1>8. QED
  BY <1>3, <1>4, <1>5, <1>6, <1>7 DEF Inv

LEMMA ExpandInv ==
  ASSUME Inv, PhaseOK, phase = "search", NEW p \in work, Expand(p),
         UNCHANGED <<req, phase, truncated>>
  PROVE  Inv' /\ PhaseOK'
<1>1. /\ req' = req /\ phase' = "search" /\ truncated' = truncated /\ pruned' = pruned
      /\ routes' = routes /\ req.source \in Memories
      /\ work' = (work \ {p}) \cup {Advanced(p, l) : l \in Extensions(p)}
      /\ LastNode(p) # req.destination
  BY DEF Expand, PhaseOK
<1>2. PathOK(p) /\ req \in Requests
  BY DEF Inv, WorkOK, TypeOK
<1>3. \A q \in work' : PathOK(q)
  BY <1>1, <1>2, AdvancedOK DEF Inv, WorkOK
<1>4. WorkOK'
  <2>1. \A q : PathOK(q) => PathOK(q)'
    BY <1>1, PathKept
  <2>2. QED
    BY <1>3, <2>1 DEF WorkOK
<1>5. TypeOK' /\ PhaseOK'
  <2>1. work' \subseteq Partials
    BY <1>3 DEF PathOK
  <2>2. QED
    BY <1>1, <2>1 DEF Inv, TypeOK, PhaseOK
<1>6. RoutesOK'
  BY <1>1, RoutesKept DEF Inv
<1>7. Covered'
  <2>1. AllRoutes' = AllRoutes /\ Found' = Found
    BY <1>1, AllRoutesKept DEF Found
  <2>2. ASSUME NEW ls \in AllRoutes
        PROVE  ls \in Found' \/ pruned' \/ \E q \in work' : Begins(q, ls)
    <3>1. CASE ls \in Found \/ pruned
      BY <3>1, <2>1, <1>1
    <3>2. CASE \E q \in work : Begins(q, ls)
      <4>1. PICK q \in work : Begins(q, ls)
        BY <3>2
      <4>2. CASE q = p
        <5> DEFINE k == Len(p.links)
                   l == ls[k + 1]
                   r == Advanced(p, l)
        <5>1. k < Len(ls) /\ l \in Extensions(p)
          BY <4>1, <4>2, <1>1, <1>2, NextLink
        <5>2. r \in work'
          BY <5>1, <1>1
        <5>3. k \in Nat /\ Len(ls) \in Nat /\ p.links \in Seq(LinkIds)
          BY <1>2, RouteSeq DEF PathOK, Partials
        <5>4. r.links = Append(p.links, l)
          BY DEF Advanced
        <5>5. l \in LinkIds
          BY <5>1 DEF Extensions
        <5>6. \A i \in 1 .. k : p.links[i] = ls[i]
          BY <4>1, <4>2 DEF Begins
        <5>7. Begins(r, ls)
          <6>1. Len(r.links) = k + 1 /\ r.links[k + 1] = l /\ \A i \in 1 .. k : r.links[i] = p.links[i]
            BY <5>3, <5>4, <5>5
          <6>2. ASSUME NEW i \in 1 .. k + 1 PROVE r.links[i] = ls[i]
            <7>1. i = k + 1 \/ i \in 1 .. k
              BY <5>3
            <7>2. QED
              BY <7>1, <6>1, <5>6
          <6>3. QED
            BY <6>1, <6>2, <5>1, <5>3 DEF Begins
        <5>8. QED
          BY <5>2, <5>7
      <4>3. CASE q # p
        BY <4>1, <4>3, <1>1
      <4>4. QED
        BY <4>2, <4>3
    <3>3. QED
      BY <3>1, <3>2 DEF Inv, Covered
  <2>3. QED
    BY <2>1, <2>2 DEF Covered
<1>8. Exhaustive'
  BY <1>1 DEF Exhaustive
<1>9. QED
  BY <1>4, <1>5, <1>6, <1>7, <1>8 DEF Inv

LEMMA FinishInv ==
  ASSUME Inv, PhaseOK, Finish
  PROVE  Inv' /\ PhaseOK'
<1>1. /\ req' = req /\ work' = work /\ routes' = routes /\ pruned' = pruned
      /\ phase = "search" /\ phase' \in {"done", "unreachable"}
      /\ truncated' = (pruned \/ Len(routes) >= EffectiveLimit)
      /\ work = {} \/ Len(routes) >= EffectiveLimit
  BY DEF Finish, Capped
<1>2. TypeOK' /\ PhaseOK'
  BY <1>1 DEF Inv, TypeOK, PhaseOK
<1>3. WorkOK'
  BY <1>1, PathKept DEF Inv, WorkOK
<1>4. RoutesOK'
  BY <1>1, RoutesKept DEF Inv
<1>5. Covered'
  BY <1>1 DEF Covered
<1>6. Exhaustive'
  <2>1. AllRoutes' = AllRoutes /\ Found' = Found
    BY <1>1, AllRoutesKept DEF Found
  <2>2. ASSUME ~truncated' PROVE AllRoutes \subseteq Found
    <3>1. ~pruned /\ work = {}
      BY <1>1, <2>2
    <3>2. QED
      BY <3>1, <1>1 DEF Inv, Covered
  <2>3. QED
    BY <2>1, <2>2 DEF Exhaustive
<1>7. QED
  BY <1>2, <1>3, <1>4, <1>5, <1>6 DEF Inv

LEMMA RejectInv ==
  ASSUME Inv, PhaseOK, Reject
  PROVE  Inv' /\ PhaseOK'
<1>1. /\ req' = req /\ work' = work /\ routes' = routes /\ pruned' = pruned
      /\ phase' = "rejected" /\ truncated' = truncated
  BY DEF Reject
<1>2. TypeOK' /\ PhaseOK'
  BY <1>1 DEF Inv, TypeOK, PhaseOK
<1>3. WorkOK'
  BY <1>1, PathKept DEF Inv, WorkOK
<1>4. RoutesOK'
  BY <1>1, RoutesKept DEF Inv
<1>5. Covered' /\ Exhaustive'
  BY <1>1 DEF Covered, Exhaustive
<1>6. QED
  BY <1>2, <1>3, <1>4, <1>5 DEF Inv

LEMMA SameInv ==
  ASSUME Inv, PhaseOK, UNCHANGED vars
  PROVE  Inv' /\ PhaseOK'
<1>1. /\ req' = req /\ work' = work /\ routes' = routes /\ pruned' = pruned
      /\ phase' = phase /\ truncated' = truncated
  BY DEF vars
<1>2. TypeOK' /\ PhaseOK'
  BY <1>1 DEF Inv, TypeOK, PhaseOK
<1>3. WorkOK'
  BY <1>1, PathKept DEF Inv, WorkOK
<1>4. RoutesOK'
  BY <1>1, RoutesKept DEF Inv
<1>5. AllRoutes' = AllRoutes /\ Found' = Found
  BY <1>1, AllRoutesKept DEF Found
<1>6. Covered' /\ Exhaustive'
  BY <1>1, <1>5 DEF Inv, Covered, Exhaustive
<1>7. QED
  BY <1>2, <1>3, <1>4, <1>6 DEF Inv

LEMMA NextInv ==
  ASSUME Inv, PhaseOK, [Next]_vars
  PROVE  Inv' /\ PhaseOK'
<1>1. CASE StayPut
  BY <1>1, StayPutInv
<1>2. CASE Reject
  BY <1>2, RejectInv
<1>3. CASE Begin
  BY <1>3, BeginInv
<1>4. CASE Pop
  <2>1. PICK p \in work : Top(p) /\ (Arrive(p) \/ Cut(p) \/ Expand(p))
    BY <1>4 DEF Pop
  <2>2. phase = "search" /\ UNCHANGED <<req, phase, truncated>>
    BY <1>4 DEF Pop, Searching
  <2>3. QED
    BY <2>1, <2>2, ArriveInv, CutInv, ExpandInv
<1>5. CASE Finish
  BY <1>5, FinishInv
<1>6. CASE Terminated \/ UNCHANGED vars
  BY <1>6, SameInv DEF Terminated
<1>7. QED
  BY <1>1, <1>2, <1>3, <1>4, <1>5, <1>6 DEF Next

LEMMA Invariance == Spec => [](Inv /\ PhaseOK)
<1>1. Inv /\ PhaseOK /\ [Next]_vars => (Inv /\ PhaseOK)'
  BY NextInv
<1>2. QED
  BY <1>1, InitInv, PTL DEF Spec

-----------------------------------------------------------------------------
(* Theorems                                                                *)

\* The variables keep their types: in particular every cost is a number of
\* cycles and every recorded engine is an engine of the machine.
THEOREM TypeCorrect == Spec => []TypeOK
BY Invariance, PTL DEF Inv

\* enumerateRoutes hands back only legal, cycle-free routes.
THEOREM RoutesAreLegal == Spec => []RoutesLegal
<1>1. ASSUME Inv PROVE RoutesLegal
  <2>1. ASSUME NEW k \in DOMAIN routes
        PROVE  /\ LegalRoute(routes[k].links)
               /\ routes[k].nodes
                    = [i \in 1 .. Len(routes[k].links) + 1 |-> NodeAt(routes[k].links, i - 1)]
    <3> DEFINE r == routes[k]
               n == Len(r.links)
    <3>1. PathOK(r) /\ LastNode(r) = req.destination
      BY <1>1 DEF Inv, RoutesOK
    <3> HIDE DEF r
    <3>2. /\ n \in Nat /\ r.links \in Seq(LinkIds) /\ DOMAIN r.links = 1 .. n
          /\ r.nodes \in Seq(Memories) /\ Len(r.nodes) = n + 1
          /\ DOMAIN r.nodes = 1 .. n + 1
      BY <3>1 DEF PathOK, Partials
    <3>3. ASSUME NEW i \in 0 .. n PROVE NodeAt(r.links, i) = r.nodes[i + 1]
      <4>1. i = 0 \/ i \in 1 .. n
        BY <3>2
      <4>2. QED
        BY <4>1, <3>1 DEF PathOK, NodeAt
    <3>4. ASSUME NEW i \in 1 .. n
          PROVE  /\ Link[r.links[i]].source = NodeAt(r.links, i - 1)
                 /\ NodeAt(r.links, i) \in Memories
                 /\ LegalHop(r.links[i])
                 /\ \A j \in 0 .. i - 1 : NodeAt(r.links, j) # NodeAt(r.links, i)
      <4>1. i - 1 \in 0 .. n /\ (i - 1) + 1 = i /\ i \in 0 .. n /\ i + 1 \in 1 .. n + 1
        BY <3>2
      <4>2. Link[r.links[i]].source = r.nodes[i] /\ LegalHop(r.links[i])
        BY <3>1 DEF PathOK
      <4>3. NodeAt(r.links, i - 1) = r.nodes[i] /\ NodeAt(r.links, i) = r.nodes[i + 1]
        BY <3>3, <4>1
      <4>4. r.nodes[i + 1] \in Memories
        BY <3>2, <4>1
      <4>5. ASSUME NEW j \in 0 .. i - 1 PROVE NodeAt(r.links, j) # NodeAt(r.links, i)
        <5>1. j \in 0 .. n /\ j + 1 \in 1 .. n + 1 /\ j + 1 < i + 1
          BY <3>2, <4>1
        <5>2. r.nodes[j + 1] # r.nodes[i + 1]
          BY <5>1, <4>1, <3>1 DEF PathOK
        <5>3. QED
          BY <5>1, <5>2, <3>3, <4>3
      <4>6. QED
        BY <4>2, <4>3, <4>4, <4>5
    <3>5. NodeAt(r.links, n) = req.destination
      <4>1. n \in 0 .. n /\ LastNode(r) = r.nodes[n + 1]
        BY <3>2 DEF LastNode
      <4>2. QED
        BY <4>1, <3>1, <3>3
    <3>6. LegalRoute(r.links)
      BY <3>2, <3>4, <3>5 DEF LegalRoute
    <3>7. r.nodes = [i \in 1 .. n + 1 |-> NodeAt(r.links, i - 1)]
      <4>1. ASSUME NEW i \in 1 .. n + 1 PROVE r.nodes[i] = NodeAt(r.links, i - 1)
        <5>1. i - 1 \in 0 .. n /\ (i - 1) + 1 = i
          BY <3>2
        <5>2. QED
          BY <5>1, <3>3
      <4> DEFINE f == [i \in 1 .. n + 1 |-> NodeAt(r.links, i - 1)]
      <4>2. /\ DOMAIN f = 1 .. n + 1
            /\ \A i \in 1 .. n + 1 : f[i] = r.nodes[i] /\ r.nodes[i] \in Memories
        BY <3>2, <4>1
      <4> HIDE DEF f
      <4>3. f \in [1 .. n + 1 -> Memories]
        BY <4>2 DEF f
      <4>4. f \in Seq(Memories) /\ Len(f) = n + 1
        <5>1. PICK m \in Nat : m = n + 1
          BY <3>2
        <5>2. f \in [1 .. m -> Memories]
          BY <4>3, <5>1
        <5>3. QED
          BY <5>1, <5>2
      <4>5. r.nodes = f
        BY <3>2, <4>2, <4>4
      <4>6. QED
        BY <4>5 DEF f
    <3>8. QED
      BY <3>6, <3>7 DEF r
  <2>2. QED
    BY <2>1 DEF RoutesLegal
<1>2. QED
  BY <1>1, Invariance, PTL

\* When enumerateRoutes reports no truncation it has found every legal route
\* of the machine: the flag is never missing.
THEOREM UntruncatedIsExhaustive == Spec => []Exhaustive
BY Invariance, PTL DEF Inv

-----------------------------------------------------------------------------
(* Order                                                                   *)

LEMMA NextCheapest ==
  ASSUME TypeOK, PhaseOK, CheapestFirst, [Next]_vars
  PROVE  CheapestFirst'
<1>1. /\ routes \in Seq(Partials) /\ work \subseteq Partials /\ req \in Requests
      /\ DOMAIN routes = 1 .. Len(routes) /\ Len(routes) \in Nat
  BY DEF TypeOK
<1>2. \A i \in DOMAIN routes : routes[i].cost \in Nat
  <2>1. \A i \in DOMAIN routes : routes[i] \in Partials
    BY <1>1
  <2>2. QED
    BY <2>1 DEF Partials
<1>3. \A p \in work : p.cost \in Nat
  BY <1>1 DEF Partials
<1>4. CASE routes' = routes /\ work' \subseteq work
  BY <1>4 DEF CheapestFirst
<1>5. CASE StayPut
  <2>1. routes' = <<Start>> /\ work' = work
    BY <1>5 DEF StayPut
  <2>2. DOMAIN routes' = {1} /\ routes'[1].cost = 0
    BY <2>1 DEF Start
  <2>3. ASSUME NEW i \in DOMAIN routes', NEW j \in DOMAIN routes', i < j PROVE FALSE
    <3>1. i = 1 /\ j = 1
      BY <2>2
    <3>2. QED
      BY <3>1, <2>3
  <2>4. \A i \in DOMAIN routes' : \A p \in work' : routes'[i].cost <= p.cost
    BY <1>3, <2>1, <2>2
  <2>5. QED
    BY <2>3, <2>4 DEF CheapestFirst
<1>6. CASE Begin
  <2>1. routes' = <<>>
    BY <1>6 DEF Begin, PhaseOK
  <2>2. QED
    BY <2>1 DEF CheapestFirst
<1>7. CASE Pop
  <2>1. PICK p \in work : Top(p) /\ (Arrive(p) \/ Cut(p) \/ Expand(p))
    BY <1>7 DEF Pop
  <2>2. \A q \in work : p.cost <= q.cost
    BY <1>3, <2>1 DEF Top, Better
  <2>3. CASE Arrive(p)
    <3>1. /\ routes' = Append(routes, p) /\ work' = work \ {p}
      BY <2>3 DEF Arrive
    <3>2. /\ DOMAIN routes' = 1 .. Len(routes) + 1
          /\ \A k \in 1 .. Len(routes) : routes'[k] = routes[k]
          /\ routes'[Len(routes) + 1] = p
      BY <1>1, <3>1
    <3>3. ASSUME NEW i \in DOMAIN routes', NEW j \in DOMAIN routes', i < j
          PROVE  routes'[i].cost <= routes'[j].cost
      <4>1. i \in 1 .. Len(routes)
        BY <1>1, <3>2, <3>3
      <4>2. CASE j = Len(routes) + 1
        BY <4>1, <4>2, <3>2, <1>1 DEF CheapestFirst
      <4>3. CASE j # Len(routes) + 1
        <5>1. j \in 1 .. Len(routes)
          BY <1>1, <3>2, <4>3
        <5>2. QED
          BY <4>1, <5>1, <3>2, <3>3, <1>1 DEF CheapestFirst
      <4>4. QED
        BY <4>2, <4>3
    <3>4. ASSUME NEW i \in DOMAIN routes', NEW q \in work' PROVE routes'[i].cost <= q.cost
      <4>1. CASE i = Len(routes) + 1
        BY <4>1, <3>1, <3>2, <2>2
      <4>2. CASE i # Len(routes) + 1
        <5>1. i \in 1 .. Len(routes)
          BY <1>1, <3>2, <4>2
        <5>2. QED
          BY <5>1, <3>1, <3>2, <1>1 DEF CheapestFirst
      <4>3. QED
        BY <4>1, <4>2
    <3>5. QED
      BY <3>3, <3>4 DEF CheapestFirst
  <2>4. CASE Cut(p)
    BY <2>4, <1>4 DEF Cut
  <2>5. CASE Expand(p)
    <3>1. /\ routes' = routes
          /\ work' = (work \ {p}) \cup {Advanced(p, l) : l \in Extensions(p)}
      BY <2>5 DEF Expand
    <3>2. ASSUME NEW i \in DOMAIN routes, NEW l \in Extensions(p)
          PROVE  routes[i].cost <= Advanced(p, l).cost
      <4>1. HopCost(l) \in Nat
        BY <1>1, HopCostType DEF Extensions
      <4>2. Advanced(p, l).cost = p.cost + HopCost(l)
        BY DEF Advanced
      <4>3. routes[i].cost <= p.cost /\ p.cost \in Nat /\ routes[i].cost \in Nat
        BY <1>2, <1>3 DEF CheapestFirst
      <4>4. QED
        BY <4>1, <4>2, <4>3
    <3>3. QED
      BY <3>1, <3>2 DEF CheapestFirst
  <2>6. QED
    BY <2>1, <2>3, <2>4, <2>5
<1>8. CASE Reject \/ Finish \/ Terminated \/ UNCHANGED vars
  BY <1>8, <1>4 DEF Reject, Finish, Terminated, vars
<1>9. QED
  BY <1>5, <1>6, <1>7, <1>8 DEF Next

\* Routes are found cheapest first: when a route is appended nothing cheaper
\* is queued, so a caller that takes the first route takes the cheapest one.
THEOREM RoutesInCostOrder == Spec => []CheapestFirst
<1>1. Init => CheapestFirst
  BY DEF Init, CheapestFirst
<1>2. Inv => TypeOK
  BY DEF Inv
<1>3. TypeOK /\ PhaseOK /\ CheapestFirst /\ [Next]_vars => CheapestFirst'
  BY NextCheapest
<1>4. QED
  BY <1>1, <1>2, <1>3, Invariance, PTL DEF Spec

-----------------------------------------------------------------------------
(* The loader.  What an entry of the root mapping may be wrong about, and    *)
(* what the walk knows when it has read the entries before at.               *)

EntrySound(d, i) ==
  /\ d.entries[i][1] \in Header \cup Sections => d.entries[i][2] # Bad
  /\ d.entries[i][1] \in Sections =>
       \A j \in DOMAIN d.entries[i][2] : Readable(d.entries[i][1], d.entries[i][2][j])

EntryKnown(d, i) ==
  /\ d.entries[i][1] \in Header \cup Sections
  /\ d.entries[i][1] \in Sections =>
       \A j \in DOMAIN d.entries[i][2] : ~HasUnknown(d.entries[i][1], d.entries[i][2][j])

\* What the root mapping says under a key of the header or a section.
Says(d, i) ==
  IF d.entries[i][1] \in Sections
  THEN [j \in DOMAIN d.entries[i][2] |-> Parsed(d.entries[i][1], d.entries[i][2][j])]
  ELSE d.entries[i][2]

Before == 1 .. at - 1
Met(key) == \E i \in Before : doc.entries[i][1] = key
Fields == {"major", "minor", "target", "clock_hz", "worker_threads"} \cup Sections

EntriesRead ==
  /\ at \in 1 .. Len(doc.entries) + 1
  /\ \A i, j \in Before : i < j => doc.entries[i][1] # doc.entries[j][1]
  /\ \A i \in Before : EntrySound(doc, i)

SchemaRead ==
  /\ tolerant \in BOOLEAN /\ unknown \in BOOLEAN
  /\ \A i \in Before : doc.entries[i][1] = "schema" =>
       /\ model["major"] = doc.entries[i][2][1] /\ model["minor"] = doc.entries[i][2][2]
       /\ tolerant <=> doc.entries[i][2][2] > 0
  /\ ~Met("schema") => model["major"] = 2 /\ model["minor"] = 0 /\ ~tolerant
  /\ ~tolerant => (unknown <=> \E i \in Before : ~EntryKnown(doc, i))

ModelRead ==
  /\ model = [key \in Fields |-> model[key]]
  /\ \A i \in Before : doc.entries[i][1] \in (Header \ {"schema"}) \cup Sections =>
       model[doc.entries[i][1]] = Says(doc, i)
  /\ \A key \in Fields \ {"major", "minor"} : ~Met(key) => model[key] = NoModel[key]

\* Inductive: a machine that was loaded is the one some document describes.
LoadInv ==
  /\ doc \in Documents
  /\ stage \in {"walk", "parsed", "loaded", "refused"}
  /\ stage = "walk" => EntriesRead /\ SchemaRead /\ ModelRead
  /\ OrderFree
  /\ \A m \in known : VerifyMachineModel(m) /\ \E d \in Documents : Acceptable(d) /\ m = Described(d)

LEMMA FieldNames == DOMAIN NoModel = Fields
BY DEF NoModel, Fields, Sections

\* Without a repeated key the value of a key is what its entry says.
LEMMA EntryValue ==
  ASSUME NEW e, IsList(e), ~Repeats(e), NEW i \in DOMAIN e
  PROVE  ValueOf(e, e[i][1]) = e[i][2]
<1> DEFINE Named(j) == j \in DOMAIN e /\ e[j][1] = e[i][1]
           c == CHOOSE j \in DOMAIN e : e[j][1] = e[i][1]
<1>1. c \in DOMAIN e /\ e[c][1] = e[i][1]
  OBVIOUS
<1> HIDE DEF c
<1>2. c = i
  BY <1>1 DEF Repeats, IsList
<1>3. ValueOf(e, e[i][1]) = e[c][2]
  BY DEF ValueOf, c
<1>4. QED
  BY <1>2, <1>3

\* What makes a document acceptable, entry by entry.
LEMMA AcceptableEntries ==
  ASSUME NEW d \in Documents
  PROVE  Acceptable(d) <=>
           /\ ~Repeats(d.entries) /\ {"schema", "target"} \subseteq KeysOf(d.entries)
           /\ d.tail = "none"
           /\ \A i \in DOMAIN d.entries : EntrySound(d, i)
           /\ ValueOf(d.entries, "schema")[2] = 0 => \A i \in DOMAIN d.entries : EntryKnown(d, i)
<1>1. (\A i \in DOMAIN d.entries : EntrySound(d, i)) <=>
        /\ \A i \in DOMAIN d.entries : d.entries[i][1] \in Header \cup Sections
                                         => d.entries[i][2] # Bad
        /\ \A i \in {k \in DOMAIN d.entries : d.entries[k][1] \in Sections} :
             \A j \in DOMAIN d.entries[i][2] : Readable(d.entries[i][1], d.entries[i][2][j])
  BY DEF EntrySound
<1>2. (\A i \in DOMAIN d.entries : EntryKnown(d, i)) <=>
        /\ KeysOf(d.entries) \subseteq Header \cup Sections
        /\ \A i \in {k \in DOMAIN d.entries : d.entries[k][1] \in Sections} :
             \A j \in DOMAIN d.entries[i][2] :
                ~HasUnknown(d.entries[i][1], d.entries[i][2][j])
  BY DEF EntryKnown, KeysOf
<1>3. QED
  BY <1>1, <1>2 DEF Acceptable

\* The model of an acceptable document, field by field.
LEMMA DescribedFields ==
  ASSUME NEW d \in Documents, ~Repeats(d.entries)
  PROVE  /\ Described(d) = [key \in Fields |-> Described(d)[key]]
         /\ \A i \in DOMAIN d.entries :
              /\ d.entries[i][1] = "schema" =>
                   /\ Described(d)["major"] = d.entries[i][2][1]
                   /\ Described(d)["minor"] = d.entries[i][2][2]
              /\ d.entries[i][1] \in (Header \ {"schema"}) \cup Sections =>
                   Described(d)[d.entries[i][1]] = Says(d, i)
         /\ \A key \in Fields \ {"major", "minor"} :
              key \notin KeysOf(d.entries) => Described(d)[key] = NoModel[key]
<1>1. IsList(d.entries)
  BY DocumentAssumption
<1>2. Described(d) = [key \in Fields |-> Described(d)[key]]
  BY FieldNames DEF Described
<1>3. ASSUME NEW i \in DOMAIN d.entries, d.entries[i][1] = "schema"
      PROVE  /\ Described(d)["major"] = d.entries[i][2][1]
             /\ Described(d)["minor"] = d.entries[i][2][2]
  <2>1. ValueOf(d.entries, "schema") = d.entries[i][2]
    BY <1>1, <1>3, EntryValue
  <2>2. {"major", "minor"} \subseteq DOMAIN NoModel
    BY FieldNames DEF Fields
  <2>3. QED
    BY <2>1, <2>2 DEF Described
<1>4. ASSUME NEW i \in DOMAIN d.entries, d.entries[i][1] \in (Header \ {"schema"}) \cup Sections
      PROVE  Described(d)[d.entries[i][1]] = Says(d, i)
  <2> DEFINE key == d.entries[i][1]
  <2>1. ValueOf(d.entries, key) = d.entries[i][2]
    BY <1>1, EntryValue
  <2>2. key \in KeysOf(d.entries)
    BY DEF KeysOf
  <2>3. key \in DOMAIN NoModel /\ key # "major" /\ key # "minor"
    BY <1>4, FieldNames DEF Fields, Header, Sections
  <2> HIDE DEF key
  <2>4. Described(d)[key] = IF key \notin Sections THEN ValueOf(d.entries, key)
                            ELSE [j \in DOMAIN ValueOf(d.entries, key) |->
                                    Parsed(key, ValueOf(d.entries, key)[j])]
    BY <2>2, <2>3 DEF Described
  <2>5. QED
    BY <2>1, <2>4 DEF Says, key
<1>5. ASSUME NEW key \in Fields \ {"major", "minor"}, key \notin KeysOf(d.entries)
      PROVE  Described(d)[key] = NoModel[key]
  BY <1>5, FieldNames DEF Described
<1>6. QED
  BY <1>2, <1>3, <1>4, <1>5

-----------------------------------------------------------------------------
(* Every step of the loader.                                               *)

\* The walk moves on by one entry.
LEMMA OneMore ==
  ASSUME LoadInv, Walking, at' = at + 1, doc' = doc
  PROVE  /\ at \in DOMAIN doc.entries /\ at \notin Before
         /\ Before' = Before \cup {at} /\ Before \subseteq DOMAIN doc.entries
         /\ at' \in 1 .. Len(doc'.entries) + 1
         /\ IsList(doc.entries)
BY DocumentAssumption DEF LoadInv, EntriesRead, Walking, Before, IsList

\* What the walk accepts is sound, and no key it accepts was met before.
LEMMA StepEntries ==
  ASSUME LoadInv, Walking, ~Repeated, EntrySound(doc, at), at' = at + 1, doc' = doc
  PROVE  EntriesRead'
<1>1. EntriesRead
  BY DEF LoadInv, Walking
<1>2. Before' = Before \cup {at} /\ at' \in 1 .. Len(doc'.entries) + 1
  BY OneMore
<1>3. \A i \in Before' : EntrySound(doc', i)
  BY <1>1, <1>2 DEF EntriesRead
<1>4. ASSUME NEW i \in Before', NEW j \in Before', i < j
      PROVE  doc'.entries[i][1] # doc'.entries[j][1]
  <2>1. i \in Before
    BY <1>1, <1>2, <1>4 DEF Before, EntriesRead
  <2>2. CASE j \in Before
    BY <1>1, <1>4, <2>1, <2>2 DEF EntriesRead
  <2>3. CASE j = at
    BY <2>1, <2>3 DEF Repeated, Key, Before
  <2>4. QED
    BY <1>2, <2>2, <2>3
<1>5. QED
  BY <1>2, <1>3, <1>4 DEF EntriesRead

LEMMA StepReadSchema ==
  ASSUME LoadInv, ReadSchema
  PROVE  SchemaRead' /\ ModelRead'
<1>0. /\ SchemaRead /\ ModelRead /\ EntriesRead
      /\ Walking /\ ~Repeated /\ Key = "schema" /\ Value # Bad
      /\ at' = at + 1 /\ doc' = doc
  BY DEF LoadInv, ReadSchema, Walking, Advance
<1>1. /\ Before' = Before \cup {at} /\ at \notin Before
      /\ at \in DOMAIN doc.entries
  BY <1>0, OneMore
<1>2. ~Met("schema")
  BY <1>0 DEF Met, Before, Repeated
<1>3. Value[2] \in Nat
  BY <1>0, <1>1, DocumentAssumption DEF LoadInv, Key, Value
<1>4. /\ model' = [[model EXCEPT !["major"] = Value[1]] EXCEPT !["minor"] = Value[2]]
      /\ tolerant' = (Value[2] > 0) /\ unknown' = unknown
  BY DEF ReadSchema
<1>5. /\ model' = [key \in Fields |-> IF key = "minor" THEN Value[2]
                                      ELSE IF key = "major" THEN Value[1] ELSE model[key]]
  <2>1. model = [key \in Fields |-> model[key]] /\ "major" \in Fields /\ "minor" \in Fields
    BY <1>0 DEF ModelRead, Fields
  <2>2. QED
    BY <1>4, <2>1
<1>6. EntryKnown(doc, at)
  BY <1>0 DEF EntryKnown, Header, Sections, Key
<1>7. SchemaRead'
  <2>1. tolerant' \in BOOLEAN /\ unknown' \in BOOLEAN
    BY <1>0, <1>4 DEF SchemaRead
  <2>2. ASSUME NEW i \in Before', doc'.entries[i][1] = "schema"
        PROVE  /\ model'["major"] = doc'.entries[i][2][1] /\ model'["minor"] = doc'.entries[i][2][2]
               /\ tolerant' <=> doc'.entries[i][2][2] > 0
    <3>1. i = at
      BY <1>0, <1>1, <1>2, <2>2 DEF Met
    <3>2. model'["major"] = Value[1] /\ model'["minor"] = Value[2]
      BY <1>5 DEF Fields
    <3>3. QED
      BY <1>0, <1>4, <3>1, <3>2 DEF Value
  <2>3. Met("schema")'
    BY <1>0, <1>1 DEF Met, Key
  <2>4. (\E i \in Before' : ~EntryKnown(doc', i)) <=> \E i \in Before : ~EntryKnown(doc, i)
    BY <1>0, <1>1, <1>6
  <2>5. ~tolerant' => (unknown' <=> \E i \in Before' : ~EntryKnown(doc', i))
    BY <1>0, <1>2, <1>4, <2>4 DEF SchemaRead
  <2>6. QED
    BY <2>1, <2>2, <2>3, <2>5 DEF SchemaRead
<1>8. ModelRead'
  <2>1. model' = [key \in Fields |-> model'[key]]
    BY <1>5
  <2>2. \A key \in Fields \ {"major", "minor"} : model'[key] = model[key]
    BY <1>5
  <2>3. ASSUME NEW i \in Before', doc'.entries[i][1] \in (Header \ {"schema"}) \cup Sections
        PROVE  model'[doc'.entries[i][1]] = Says(doc', i)
    <3>1. i \in Before
      BY <1>0, <1>1, <2>3 DEF Key, Sections
    <3>2. doc.entries[i][1] \in Fields \ {"major", "minor"}
      BY <1>0, <2>3 DEF Fields, Header, Sections
    <3>3. QED
      BY <1>0, <2>2, <2>3, <3>1, <3>2 DEF ModelRead
  <2>4. ASSUME NEW key \in Fields \ {"major", "minor"}, ~Met(key)' PROVE model'[key] = NoModel[key]
    <3>1. ~Met(key)
      BY <1>0, <1>1, <2>4 DEF Met
    <3>2. QED
      BY <1>0, <2>2, <3>1 DEF ModelRead
  <2>5. QED
    BY <2>1, <2>3, <2>4 DEF ModelRead
<1>9. QED
  BY <1>7, <1>8

\* An entry of the header or a section other than the schema.
LEMMA StepField ==
  ASSUME LoadInv, Walking, ~Repeated, Key \in (Header \ {"schema"}) \cup Sections,
         model' = [model EXCEPT ![Key] = Says(doc, at)], tolerant' = tolerant,
         unknown' = (unknown \/ (~tolerant /\ ~EntryKnown(doc, at))),
         at' = at + 1, doc' = doc
  PROVE  SchemaRead' /\ ModelRead'
<1>0. SchemaRead /\ ModelRead /\ EntriesRead
  BY DEF LoadInv, Walking
<1>1. /\ Before' = Before \cup {at} /\ at \notin Before
      /\ at \in DOMAIN doc.entries
  BY OneMore
<1>2. Key \in Fields \ {"major", "minor"} /\ Key # "schema"
  BY DEF Fields, Header, Sections
<1>3. ~Met(Key)
  BY DEF Met, Before, Repeated
<1>4. model' = [key \in Fields |-> IF key = Key THEN Says(doc, at) ELSE model[key]]
  BY <1>0, <1>2 DEF ModelRead
<1>5. SchemaRead'
  <2>1. tolerant' \in BOOLEAN /\ unknown' \in BOOLEAN
    BY <1>0 DEF SchemaRead
  <2>2. model'["major"] = model["major"] /\ model'["minor"] = model["minor"]
    BY <1>2, <1>4 DEF Fields
  <2>3. doc.entries[at][1] # "schema"
    BY <1>2 DEF Key
  <2>4. Met("schema")' <=> Met("schema")
    BY <1>1, <2>3 DEF Met
  <2>5. ASSUME NEW i \in Before', doc'.entries[i][1] = "schema"
        PROVE  /\ model'["major"] = doc'.entries[i][2][1] /\ model'["minor"] = doc'.entries[i][2][2]
               /\ tolerant' <=> doc'.entries[i][2][2] > 0
    BY <1>0, <1>1, <2>2, <2>3, <2>5 DEF SchemaRead
  <2>6. ~tolerant' => (unknown' <=> \E i \in Before' : ~EntryKnown(doc', i))
    BY <1>0, <1>1 DEF SchemaRead
  <2>7. ~Met("schema")' => model'["major"] = 2 /\ model'["minor"] = 0 /\ ~tolerant'
    BY <1>0, <2>2, <2>4 DEF SchemaRead
  <2>8. QED
    BY <2>1, <2>5, <2>6, <2>7 DEF SchemaRead
<1>6. ModelRead'
  <2>1. model' = [key \in Fields |-> model'[key]]
    BY <1>4
  <2>2. ASSUME NEW i \in Before', doc'.entries[i][1] \in (Header \ {"schema"}) \cup Sections
        PROVE  model'[doc'.entries[i][1]] = Says(doc', i)
    <3>1. CASE i = at
      <4>1. model'[Key] = Says(doc, at)
        BY <1>2, <1>4
      <4>2. QED
        BY <3>1, <4>1 DEF Key
    <3>2. CASE i \in Before
      <4>1. doc.entries[i][1] # Key /\ doc.entries[i][1] \in Fields
        BY <1>3, <2>2, <3>2 DEF Met, Fields, Header, Sections
      <4>2. QED
        BY <1>0, <1>4, <2>2, <3>2, <4>1 DEF ModelRead
    <3>3. QED
      BY <1>1, <3>1, <3>2
  <2>3. ASSUME NEW key \in Fields \ {"major", "minor"}, ~Met(key)' PROVE model'[key] = NoModel[key]
    <3>1. ~Met(key) /\ key # Key
      BY <1>1, <2>3 DEF Met, Key
    <3>2. QED
      BY <1>0, <1>4, <3>1 DEF ModelRead
  <2>4. QED
    BY <2>1, <2>2, <2>3 DEF ModelRead
<1>7. QED
  BY <1>5, <1>6

LEMMA StepUnknown ==
  ASSUME LoadInv, DeferUnknownKey
  PROVE  SchemaRead' /\ ModelRead'
<1>0. /\ SchemaRead /\ ModelRead /\ EntriesRead
      /\ Walking /\ ~Repeated /\ Key \notin Header \cup Sections
      /\ at' = at + 1 /\ doc' = doc /\ model' = model /\ tolerant' = tolerant
      /\ unknown' = (unknown \/ ~tolerant)
  BY DEF LoadInv, DeferUnknownKey, Walking, Advance
<1>1. /\ Before' = Before \cup {at} /\ at \notin Before
      /\ at \in DOMAIN doc.entries
  BY <1>0, OneMore
<1>2. ~EntryKnown(doc, at)
  BY <1>0 DEF EntryKnown, Key
<1>3. \A key : key \in Header \cup Sections => (Met(key)' <=> Met(key))
  BY <1>0, <1>1 DEF Met, Key
<1>4. SchemaRead'
  <2>1. Met("schema")' <=> Met("schema")
    BY <1>3 DEF Header
  <2>2. doc.entries[at][1] # "schema"
    BY <1>0 DEF Key, Header
  <2>3. QED
    BY <1>0, <1>1, <1>2, <2>1, <2>2 DEF SchemaRead
<1>5. ModelRead'
  <2>1. ASSUME NEW i \in Before', doc'.entries[i][1] \in (Header \ {"schema"}) \cup Sections
        PROVE  model'[doc'.entries[i][1]] = Says(doc', i)
    <3>1. i \in Before
      BY <1>0, <1>1, <2>1 DEF Key
    <3>2. QED
      BY <1>0, <2>1, <3>1 DEF ModelRead
  <2>2. \A key \in Fields \ {"major", "minor"} : Met(key)' <=> Met(key)
    BY <1>3 DEF Fields, Header
  <2>3. QED
    BY <1>0, <2>1, <2>2 DEF ModelRead
<1>6. QED
  BY <1>4, <1>5

\* An entry that is refused makes the document unacceptable.
LEMMA RefusedEntry ==
  ASSUME LoadInv, RefuseEntry
  PROVE  ~Acceptable(doc)
<1>0. Walking /\ doc \in Documents /\ EntriesRead /\ IsList(doc.entries)
  BY DocumentAssumption DEF LoadInv, RefuseEntry, Walking
<1>1. at \in DOMAIN doc.entries
  BY <1>0 DEF Walking, IsList, EntriesRead
<1>2. CASE Repeated
  <2>1. PICK i \in 1 .. at - 1 : doc.entries[i][1] = Key
    BY <1>2 DEF Repeated
  <2>2. i \in DOMAIN doc.entries /\ i < at
    BY <1>0, <1>1, <2>1 DEF IsList
  <2>3. Repeats(doc.entries)
    BY <1>1, <2>1, <2>2 DEF Repeats, Key
  <2>4. QED
    BY <1>0, <2>3, AcceptableEntries
<1>3. CASE ~EntrySound(doc, at)
  BY <1>0, <1>1, <1>3, AcceptableEntries
<1>4. ~Repeated => ~EntrySound(doc, at)
  BY DEF RefuseEntry, EntrySound, Key, Value
<1>5. QED
  BY <1>2, <1>3, <1>4

\* At its end the walk has read the document as a whole.
LEMMA WalkEnds ==
  ASSUME LoadInv, stage = "walk", at > Len(doc.entries)
  PROVE  /\ EndsWell => Acceptable(doc) /\ model = Described(doc)
         /\ ~EndsWell => ~Acceptable(doc)
<1>0. doc \in Documents /\ EntriesRead /\ SchemaRead /\ ModelRead /\ IsList(doc.entries)
  BY DocumentAssumption DEF LoadInv
<1>1. Before = DOMAIN doc.entries
  BY <1>0 DEF Before, EntriesRead, IsList
<1>2. ~Repeats(doc.entries) /\ \A i \in DOMAIN doc.entries : EntrySound(doc, i)
  BY <1>0, <1>1 DEF EntriesRead, Repeats
<1>3. \A key : Met(key) <=> key \in KeysOf(doc.entries)
  BY <1>1 DEF Met, KeysOf
<1>4. ASSUME Met("schema")
      PROVE  /\ ValueOf(doc.entries, "schema")[2] \in Nat
             /\ tolerant <=> ValueOf(doc.entries, "schema")[2] > 0
  <2>1. PICK i \in DOMAIN doc.entries : doc.entries[i][1] = "schema"
    BY <1>1, <1>4 DEF Met
  <2>2. ValueOf(doc.entries, "schema") = doc.entries[i][2]
    BY <1>0, <1>2, <2>1, EntryValue
  <2>3. doc.entries[i][2] # Bad
    BY <1>2, <2>1 DEF EntrySound, Header
  <2>4. QED
    BY <1>0, <1>1, <2>1, <2>2, <2>3, DocumentAssumption DEF SchemaRead
<1>5. Met("schema") =>
        (tolerant \/ ~unknown <=>
           (ValueOf(doc.entries, "schema")[2] = 0 => \A i \in DOMAIN doc.entries : EntryKnown(doc, i)))
  BY <1>0, <1>1, <1>4 DEF SchemaRead
<1>6. EndsWell <=> Acceptable(doc)
  <2>1. Acceptable(doc) <=>
          /\ {"schema", "target"} \subseteq KeysOf(doc.entries) /\ doc.tail = "none"
          /\ ValueOf(doc.entries, "schema")[2] = 0 => \A i \in DOMAIN doc.entries : EntryKnown(doc, i)
    BY <1>0, <1>2, AcceptableEntries
  <2>2. "schema" \in KeysOf(doc.entries) => Met("schema")
    BY <1>3
  <2>3. QED
    BY <1>5, <2>1, <2>2 DEF EndsWell
<1>7. ASSUME EndsWell PROVE model = Described(doc)
  <2>1. Met("schema")
    BY <1>3, <1>7 DEF EndsWell
  <2>2. PICK i \in DOMAIN doc.entries : doc.entries[i][1] = "schema"
    BY <1>1, <2>1 DEF Met
  <2>3. /\ Described(doc) = [key \in Fields |-> Described(doc)[key]]
        /\ model = [key \in Fields |-> model[key]]
    BY <1>0, <1>2, DescribedFields DEF ModelRead
  <2>4. /\ model["major"] = Described(doc)["major"]
        /\ model["minor"] = Described(doc)["minor"]
    BY <1>0, <1>1, <1>2, <2>2, DescribedFields DEF SchemaRead
  <2>5. ASSUME NEW key \in Fields \ {"major", "minor"} PROVE model[key] = Described(doc)[key]
    <3>1. CASE ~Met(key)
      BY <1>0, <1>2, <1>3, <3>1, DescribedFields DEF ModelRead
    <3>2. CASE Met(key)
      <4>1. PICK j \in DOMAIN doc.entries : doc.entries[j][1] = key
        BY <1>1, <3>2 DEF Met
      <4>2. key \in (Header \ {"schema"}) \cup Sections
        BY <2>5 DEF Fields, Header, Sections
      <4>3. model[key] = Says(doc, j)
        BY <1>0, <1>1, <4>1, <4>2 DEF ModelRead
      <4>4. Described(doc)[key] = Says(doc, j)
        BY <1>0, <1>2, <4>1, <4>2, DescribedFields
      <4>5. QED
        BY <4>3, <4>4
    <3>3. QED
      BY <3>1, <3>2
  <2>6. \A key \in Fields : model[key] = Described(doc)[key]
    BY <2>4, <2>5
  <2>7. QED
    BY <2>3, <2>6
<1>8. QED
  BY <1>6, <1>7

LEMMA LoadInitial == MInit => LoadInv
<1> SUFFICES ASSUME MInit PROVE LoadInv
  OBVIOUS
<1>0. /\ doc \in Documents /\ at = 1 /\ tolerant = FALSE /\ unknown = FALSE
      /\ model = NoModel /\ stage = "walk" /\ known = {} /\ IsList(doc.entries)
  BY DocumentAssumption DEF MInit
<1>1. Before = {}
  BY <1>0 DEF Before
<1>2. EntriesRead
  BY <1>0, <1>1 DEF EntriesRead, IsList
<1>3. SchemaRead
  BY <1>0, <1>1 DEF SchemaRead, Met, NoModel
<1>4. ModelRead
  <2>1. NoModel = [key \in Fields |-> NoModel[key]]
    <3>1. NoModel = [key \in DOMAIN NoModel |-> NoModel[key]]
      BY DEF NoModel
    <3>2. QED
      BY <3>1, FieldNames
  <2>2. QED
    BY <1>0, <1>1, <2>1 DEF ModelRead
<1>5. QED
  BY <1>0, <1>2, <1>3, <1>4 DEF LoadInv, OrderFree

\* An entry leaves the loader in the walk, with the same machines known.
LEMMA StepEntry ==
  ASSUME LoadInv, ReadSchema \/ ReadHeader \/ ReadSection \/ DeferUnknownKey
  PROVE  LoadInv'
<1>1. /\ Walking /\ ~Repeated /\ at' = at + 1 /\ doc' = doc
      /\ stage' = stage /\ known' = known /\ stage = "walk"
  BY DEF ReadSchema, ReadHeader, ReadSection, DeferUnknownKey, Advance, Walking
<1>2. EntrySound(doc, at)
  BY DEF ReadSchema, ReadHeader, ReadSection, DeferUnknownKey, EntrySound, Key, Value, Header, Sections
<1>3. EntriesRead'
  BY <1>1, <1>2, StepEntries
<1>4. SchemaRead' /\ ModelRead'
  <2>1. CASE ReadSchema
    BY <2>1, StepReadSchema
  <2>2. CASE ReadHeader
    <3>1. Key \notin Sections /\ Key \in Header \ {"schema"}
      BY <2>2 DEF ReadHeader, Header, Sections
    <3>2. Says(doc, at) = Value /\ EntryKnown(doc, at)
      BY <3>1 DEF Says, Key, Value, EntryKnown
    <3>3. SchemaRead
      BY <1>1 DEF LoadInv
    <3>4. unknown' = (unknown \/ (~tolerant /\ ~EntryKnown(doc, at)))
      BY <2>2, <3>2, <3>3 DEF ReadHeader, SchemaRead
    <3>5. QED
      BY <1>1, <2>2, <3>1, <3>2, <3>4, StepField DEF ReadHeader
  <2>3. CASE ReadSection
    <3>1. Key \in Sections
      BY <2>3 DEF ReadSection
    <3>2. /\ Says(doc, at) = [i \in DOMAIN Value |-> Parsed(Key, Value[i])]
          /\ EntryKnown(doc, at) <=> ~(\E i \in DOMAIN Value : HasUnknown(Key, Value[i]))
      BY <3>1 DEF Says, Key, Value, EntryKnown
    <3>3. unknown' = (unknown \/ (~tolerant /\ ~EntryKnown(doc, at)))
      BY <2>3, <3>2 DEF ReadSection
    <3>4. QED
      BY <1>1, <2>3, <3>1, <3>2, <3>3, StepField DEF ReadSection
  <2>4. CASE DeferUnknownKey
    BY <2>4, StepUnknown
  <2>5. QED
    BY <2>1, <2>2, <2>3, <2>4
<1>5. QED
  BY <1>1, <1>3, <1>4 DEF LoadInv, OrderFree

LEMMA LoadStep == LoadInv /\ [MNext]_mvars => LoadInv'
<1> SUFFICES ASSUME LoadInv, [MNext]_mvars PROVE LoadInv'
  OBVIOUS
<1>1. CASE RefuseEntry
  <2>1. doc' = doc /\ known' = known /\ stage' = "refused"
    BY <1>1 DEF RefuseEntry, Refuse
  <2>2. ~Acceptable(doc')
    BY <1>1, <2>1, RefusedEntry
  <2>3. QED
    BY <2>1, <2>2 DEF LoadInv, OrderFree
<1>2. CASE ReadSchema \/ ReadHeader \/ ReadSection \/ DeferUnknownKey
  BY <1>2, StepEntry
<1>3. CASE EndWalk
  <2>1. doc' = doc /\ known' = known /\ model' = model
    BY <1>3 DEF EndWalk, Refuse
  <2>2. /\ EndsWell => Acceptable(doc) /\ model = Described(doc)
        /\ ~EndsWell => ~Acceptable(doc)
    BY <1>3, WalkEnds DEF EndWalk
  <2>3. CASE EndsWell
    <3>1. stage' = "parsed"
      BY <1>3, <2>3 DEF EndWalk
    <3>2. QED
      BY <2>1, <2>2, <2>3, <3>1 DEF LoadInv, OrderFree
  <2>4. CASE ~EndsWell
    <3>1. stage' = "refused"
      BY <1>3, <2>4 DEF EndWalk, Refuse
    <3>2. QED
      BY <2>1, <2>2, <2>4, <3>1 DEF LoadInv, OrderFree
  <2>5. QED
    BY <2>3, <2>4
<1>4. CASE Verify
  <2>1. doc' = doc /\ model' = model /\ Acceptable(doc) /\ model = Described(doc)
    BY <1>4 DEF Verify, Refuse, LoadInv, OrderFree
  <2>2. CASE VerifyMachineModel(model)
    <3>1. stage' = "loaded" /\ known' = known \cup {model}
      BY <1>4, <2>2 DEF Verify
    <3>2. QED
      BY <2>1, <2>2, <3>1 DEF LoadInv, OrderFree
  <2>3. CASE ~VerifyMachineModel(model)
    <3>1. stage' = "refused" /\ known' = known
      BY <1>4, <2>3 DEF Verify, Refuse
    <3>2. QED
      BY <2>1, <2>3, <3>1 DEF LoadInv, OrderFree
  <2>4. QED
    BY <2>2, <2>3
<1>5. CASE LoadAnother
  <2>1. /\ doc' \in Documents /\ at' = 1 /\ tolerant' = FALSE /\ unknown' = FALSE
        /\ model' = NoModel /\ stage' = "walk" /\ known' = known /\ IsList(doc'.entries)
    BY <1>5, DocumentAssumption DEF LoadAnother
  <2>2. Before' = {}
    BY <2>1 DEF Before
  <2>3. EntriesRead'
    BY <2>1, <2>2 DEF EntriesRead, IsList
  <2>4. SchemaRead'
    BY <2>1, <2>2 DEF SchemaRead, Met, NoModel
  <2>5. ModelRead'
    <3>1. NoModel = [key \in Fields |-> NoModel[key]]
      <4>1. NoModel = [key \in DOMAIN NoModel |-> NoModel[key]]
        BY DEF NoModel
      <4>2. QED
        BY <4>1, FieldNames
    <3>2. QED
      BY <2>1, <2>2, <3>1 DEF ModelRead, Met
  <2>6. QED
    BY <2>1, <2>3, <2>4, <2>5 DEF LoadInv, OrderFree
<1>6. CASE UNCHANGED mvars
  BY <1>6 DEF mvars, LoadInv, EntriesRead, SchemaRead, ModelRead, OrderFree, Before, Met
<1>7. QED
  BY <1>1, <1>2, <1>3, <1>4, <1>5, <1>6 DEF MNext

-----------------------------------------------------------------------------
(* What a verified machine promises.                                       *)

\* A machine some document describes: every section is a list of nodes that
\* have the keys of the section.
Shaped(m) ==
  /\ DOMAIN m = Fields
  /\ \A s \in Sections :
       /\ \E n \in Nat : DOMAIN m[s] = 1 .. n
       /\ \A i \in DOMAIN m[s] : DOMAIN m[s][i] = Keys(s)

LEMMA DescribedShape ==
  ASSUME NEW d \in Documents, Acceptable(d)
  PROVE  Shaped(Described(d))
<1>0. ~Repeats(d.entries) /\ \A i \in DOMAIN d.entries : EntrySound(d, i)
  BY AcceptableEntries
<1>1. DOMAIN Described(d) = Fields
  BY <1>0, DescribedFields
<1> DEFINE m == Described(d)
<1>2. ASSUME NEW s \in Sections
      PROVE  /\ \E n \in Nat : DOMAIN m[s] = 1 .. n
             /\ \A i \in DOMAIN m[s] : DOMAIN m[s][i] = Keys(s)
  <2>0. s \in Fields \ {"major", "minor"}
    BY DEF Fields, Sections
  <2>1. CASE s \in KeysOf(d.entries)
    <3>1. PICK i \in DOMAIN d.entries : d.entries[i][1] = s
      BY <2>1 DEF KeysOf
    <3>2. m[s] = Says(d, i)
      BY <1>0, <3>1, DescribedFields
    <3>3. m[s] = [j \in DOMAIN d.entries[i][2] |-> Parsed(s, d.entries[i][2][j])]
      BY <3>1, <3>2 DEF Says
    <3>4. IsList(d.entries[i][2])
      BY <1>0, <3>1, DocumentAssumption DEF EntrySound
    <3> HIDE DEF m
    <3>5. DOMAIN m[s] = 1 .. Len(d.entries[i][2]) /\ Len(d.entries[i][2]) \in Nat
      BY <3>3, <3>4 DEF IsList
    <3>6. \A j \in DOMAIN m[s] : m[s][j] = Parsed(s, d.entries[i][2][j])
      BY <3>3
    <3>7. QED
      BY <3>5, <3>6 DEF Parsed
  <2>2. CASE s \notin KeysOf(d.entries)
    <3>1. m[s] = NoModel[s]
      BY <1>0, <2>0, <2>2, DescribedFields
    <3>2. NoModel[s] = <<>>
      <4>1. /\ NoModel["executors"] = <<>> /\ NoModel["memories"] = <<>> /\ NoModel["compute"] = <<>>
            /\ NoModel["transfer_engines"] = <<>> /\ NoModel["links"] = <<>>
        BY DEF NoModel
      <4>2. QED
        BY <4>1 DEF Sections
    <3>3. DOMAIN m[s] = 1 .. 0
      BY <3>1, <3>2
    <3>4. QED
      BY <3>3
  <2>3. QED
    BY <2>1, <2>2
<1>3. QED
  BY <1>1, <1>2 DEF Shaped

\* With unique ids a node is found under its id.
LEMMA FindsNode ==
  ASSUME NEW m, Shaped(m), IdsUnique(m), NEW s \in Sections, NEW i \in DOMAIN m[s]
  PROVE  Find(m, s, m[s][i].id) = m[s][i]
<1> DEFINE id == m[s][i].id
           Is(j) == j \in DOMAIN m[s] /\ m[s][j].id = id /\ \A k \in 1 .. j - 1 : m[s][k].id # id
           first == CHOOSE j \in DOMAIN m[s] : /\ m[s][j].id = id
                                               /\ \A k \in 1 .. j - 1 : m[s][k].id # id
<1>1. PICK n \in Nat : DOMAIN m[s] = 1 .. n
  BY DEF Shaped
<1>2. \A j \in DOMAIN m[s] : m[s][j].id = id => j = i
  BY DEF IdsUnique
<1>3. \A k \in 1 .. i - 1 : m[s][k].id # id
  BY <1>1, <1>2
<1>4. first = i
  BY <1>2, <1>3
<1>5. Exists(m, s, id)
  BY DEF Exists
<1>6. Find(m, s, id) = m[s][first]
  BY <1>5 DEF Find
<1>7. QED
  BY <1>4, <1>6

\* A node that is found is a node of the section with that id.
LEMMA FoundNode ==
  ASSUME NEW m, Shaped(m), IdsUnique(m), NEW s \in Sections, NEW id, Exists(m, s, id)
  PROVE  \E i \in DOMAIN m[s] : Find(m, s, id) = m[s][i] /\ m[s][i].id = id
<1>1. PICK i \in DOMAIN m[s] : m[s][i].id = id
  BY DEF Exists
<1>2. QED
  BY <1>1, FindsNode

LEMMA ExecutorExists ==
  ASSUME NEW m, NEW e
  PROVE  Exists(m, "executors", e) <=> e \in ExecutorIds(m)
BY DEF Exists, ExecutorIds, Range

\* Going upwards twice is going upwards.
LEMMA UpwardsTransitive ==
  ASSUME NEW m, NEW e, NEW f, NEW g, f \in Upwards(m, e), g \in Upwards(m, f)
  PROVE  g \in Upwards(m, e)
BY DEF Upwards

\* The executors on the way upwards have their parents on it.
LEMMA UpwardsHasParents ==
  ASSUME NEW m, NEW e \in ExecutorIds(m)
  PROVE  HasParents(m, Upwards(m, e)) /\ e \in Upwards(m, e)
<1>1. e \in Upwards(m, e)
  BY DEF Upwards
<1>2. ASSUME NEW n \in Range(m.executors), n.id \in Upwards(m, e), n.parent \in ExecutorIds(m)
      PROVE  n.parent \in Upwards(m, e)
  <2>1. ASSUME NEW S \in SUBSET ExecutorIds(m), e \in S, HasParents(m, S) PROVE n.parent \in S
    <3>1. n.id \in S
      BY <1>2, <2>1 DEF Upwards
    <3>2. QED
      BY <1>2, <2>1, <3>1 DEF HasParents
  <2>2. QED
    BY <1>2, <2>1 DEF Upwards
<1>3. QED
  BY <1>1, <1>2 DEF HasParents

\* Two executors above each other are one: else the parent of the one would
\* have it above itself.
LEMMA UpwardsForest ==
  ASSUME NEW m, IdsUnique(m), Acyclic(m), NEW e \in ExecutorIds(m), NEW f \in ExecutorIds(m),
         f \in Upwards(m, e), e \in Upwards(m, f)
  PROVE  e = f
<1> SUFFICES ASSUME e # f PROVE FALSE
  OBVIOUS
<1>1. PICK n \in Range(m.executors) : n.id = e
  BY DEF ExecutorIds
<1>2. \A x \in Range(m.executors) : x.id = e => x = n
  <2>1. PICK i \in DOMAIN m.executors : n = m.executors[i]
    BY DEF Range
  <2>2. "executors" \in Sections
    BY DEF Sections
  <2>3. ASSUME NEW x \in Range(m.executors), x.id = e PROVE x = n
    <3>1. PICK j \in DOMAIN m.executors : x = m.executors[j]
      BY DEF Range
    <3>2. m["executors"][i].id = m["executors"][j].id
      BY <1>1, <2>1, <2>3, <3>1
    <3>3. i = j
      BY <2>2, <3>2 DEF IdsUnique
    <3>4. QED
      BY <2>1, <3>1, <3>3
  <2>4. QED
    BY <2>3
<1>3. CASE n.parent \notin ExecutorIds(m)
  <2>1. HasParents(m, {e})
    BY <1>2, <1>3 DEF HasParents
  <2>2. {e} \in SUBSET ExecutorIds(m) /\ e \in {e}
    OBVIOUS
  <2>3. f \in {e}
    BY <2>1, <2>2 DEF Upwards
  <2>4. QED
    BY <2>3
<1>4. CASE n.parent \in ExecutorIds(m)
  <2> DEFINE p == n.parent
             S == {e} \cup Upwards(m, p)
  <2>1. HasParents(m, Upwards(m, p)) /\ p \in Upwards(m, p)
    BY <1>4, UpwardsHasParents
  <2>2. Upwards(m, p) \subseteq ExecutorIds(m)
    BY DEF Upwards
  <2> HIDE DEF p
  <2>3. ASSUME NEW x \in Range(m.executors), x.id \in S, x.parent \in ExecutorIds(m)
        PROVE  x.parent \in S
    <3>1. CASE x.id = e
      BY <1>2, <2>1, <3>1 DEF p
    <3>2. CASE x.id \in Upwards(m, p)
      BY <2>1, <2>3, <3>2 DEF HasParents
    <3>3. QED
      BY <2>3, <3>1, <3>2
  <2>4. HasParents(m, S) /\ S \in SUBSET ExecutorIds(m) /\ e \in S
    BY <2>2, <2>3 DEF HasParents
  <2> HIDE DEF S
  <2>5. f \in S
    BY <2>4 DEF Upwards
  <2>6. f \in Upwards(m, p)
    BY <2>5 DEF S
  <2>7. e \in Upwards(m, p)
    BY <2>6, UpwardsTransitive
  <2>8. IsWithin(m, p, e)
    BY <1>4, <2>7, ExecutorExists DEF IsWithin, p
  <2>9. QED
    BY <1>1, <2>8 DEF Acyclic, p
<1>5. QED
  BY <1>3, <1>4

\* Containment is a forest, and what sees a memory passes the sight on.
LEMMA VerifiedContained ==
  ASSUME NEW m, VerifyMachineModel(m)
  PROVE  Contained(m)
<1>1. ASSUME NEW i \in DOMAIN m.executors, NEW j \in DOMAIN m.executors
      PROVE  LET e == m.executors[i].id
                 f == m.executors[j].id
             IN  /\ IsWithin(m, e, f) /\ IsWithin(m, f, e) => e = f
                 /\ \A k \in DOMAIN m.memories :
                      IsVisible(m, m.memories[k].id, e) /\ IsWithin(m, f, e)
                        => IsVisible(m, m.memories[k].id, f)
  <2> DEFINE e == m.executors[i].id
             f == m.executors[j].id
  <2>1. e \in ExecutorIds(m) /\ f \in ExecutorIds(m)
    BY DEF ExecutorIds, Range
  <2> HIDE DEF e, f
  <2>2. IsWithin(m, e, f) /\ IsWithin(m, f, e) => e = f
    BY <2>1, UpwardsForest DEF IsWithin, VerifyMachineModel
  <2>3. ASSUME NEW k \in DOMAIN m.memories,
               IsVisible(m, m.memories[k].id, e), IsWithin(m, f, e)
        PROVE  IsVisible(m, m.memories[k].id, f)
    BY <2>3, UpwardsTransitive DEF IsVisible, IsWithin
  <2>4. QED
    BY <2>2, <2>3 DEF e, f
<1>2. QED
  BY <1>1 DEF Contained

\* A label that is no owner has one class, and every node of it declares it.
LEMMA OneClass ==
  ASSUME NEW m, NEW kind, kind \notin Owners, OwnerClass(m, kind) \in {"matrix", "vector"},
         NEW s \in {"executors", "compute", "transfer_engines"}, NEW node \in Range(m[s]),
         node.kind = kind, RefinesOwners(node), OwnerClass(m, kind) # Missing
  PROVE  Range(node.refines) \subseteq {"matrix", "vector"}
<1>1. Cardinality(Declared(m, kind)) = 1 /\ OwnerClass(m, kind) = CHOOSE c \in Declared(m, kind) : TRUE
  BY DEF OwnerClass
<1>2. IsFiniteSet(Owners)
  <2>1. Owners = {"group"} \cup {"worker"} \cup {"vector"} \cup {"matrix"} \cup {"transfer"}
    BY DEF Owners
  <2>2. QED
    BY <2>1, FS_Singleton, FS_Union
<1>3. Declared(m, kind) \subseteq Owners
  BY DEF Declared
<1>4. IsFiniteSet(Declared(m, kind))
  BY <1>2, <1>3, FS_Subset
<1>5. PICK c : Declared(m, kind) = {c}
  BY <1>1, <1>4, FS_Singleton
<1>6. c \in {"matrix", "vector"}
  BY <1>1, <1>5
<1>7. ASSUME NEW r \in Range(node.refines) PROVE r \in Declared(m, kind)
  <2>1. PICK i \in DOMAIN node.refines : r = node.refines[i]
    BY DEF Range
  <2>2. r \in {node.refines[k] : k \in DOMAIN node.refines} \cap Owners
    BY <2>1 DEF RefinesOwners
  <2>3. node \in {x \in UNION {Range(m[z]) : z \in {"executors", "compute", "transfer_engines"}} :
                    x.kind = kind}
    OBVIOUS
  <2>4. QED
    BY <2>2, <2>3 DEF Declared
<1>8. QED
  BY <1>5, <1>6, <1>7

\* The links of a verified machine and their engines resolve, and labels
\* have one class.
LEMMA VerifiedRoutable ==
  ASSUME NEW m, Shaped(m), VerifyMachineModel(m)
  PROVE  Routable(m)
<1>0. IdsUnique(m)
  BY DEF VerifyMachineModel
<1>1. ASSUME NEW i \in DOMAIN m.links, NEW j \in DOMAIN m.links[i].transfer_engines
      PROVE  Exists(m, "executors",
               Find(m, "transfer_engines", m.links[i].transfer_engines[j]).attached_to)
  <2> DEFINE id == m.links[i].transfer_engines[j]
  <2>1. Exists(m, "transfer_engines", id)
    BY DEF VerifyMachineModel, LinkSound
  <2> HIDE DEF id
  <2>2. PICK k \in DOMAIN m["transfer_engines"] : Find(m, "transfer_engines", id) = m["transfer_engines"][k]
    BY <1>0, <2>1, FoundNode DEF Sections
  <2>3. EngineSound(m, m.transfer_engines[k])
    BY <2>2 DEF VerifyMachineModel
  <2>4. QED
    BY <2>2, <2>3 DEF EngineSound, id
<1>2. ASSUME NEW i \in DOMAIN m.links
      PROVE  Exists(m, "memories", m.links[i].source) /\ Exists(m, "memories", m.links[i].destination)
  BY DEF VerifyMachineModel, LinkSound
<1>3. ASSUME NEW i \in DOMAIN m.executors, NEW j \in DOMAIN m.compute,
             m.executors[i].kind = m.compute[j].kind, m.compute[j].kind \notin Owners
      PROVE  Range(m.executors[i].refines) \cup Range(m.compute[j].refines) \subseteq {"matrix", "vector"}
  <2> DEFINE x == m.executors[i]
             c == m.compute[j]
  <2>1. ExecutorSound(m, x) /\ ComputeSound(m, c)
    BY DEF VerifyMachineModel
  <2>2. x \in Range(m["executors"]) /\ c \in Range(m["compute"])
    BY DEF Range
  <2>3. x.kind = c.kind /\ c.kind \notin Owners
    BY <1>3
  <2> HIDE DEF x, c
  <2>4. /\ OwnerClass(m, c.kind) \in {"matrix", "vector"} /\ OwnerClass(m, c.kind) # Missing
        /\ RefinesOwners(x) /\ RefinesOwners(c)
    BY <2>1, <2>3 DEF ExecutorSound, ComputeSound
  <2>5. Range(x.refines) \subseteq {"matrix", "vector"}
    BY <2>2, <2>3, <2>4, OneClass
  <2>6. Range(c.refines) \subseteq {"matrix", "vector"}
    BY <2>2, <2>3, <2>4, OneClass
  <2>7. QED
    BY <2>5, <2>6 DEF x, c
<1>4. QED
  BY <1>1, <1>2, <1>3 DEF Routable

\* Nodes of one canonical form differ at most in the order of their names.
Alike(a, b, s) ==
  \A key \in Keys(s) :
    IF key \in NameLists THEN Range(a[key]) = Range(b[key]) ELSE a[key] = b[key]

\* The content hash keeps every node of every section.
LEMMA HashTwin ==
  ASSUME NEW m, NEW n, Shaped(m), Shaped(n), ContentHash(m) = ContentHash(n),
         NEW s \in Sections, NEW i \in DOMAIN m[s]
  PROVE  \E j \in DOMAIN n[s] : Alike(m[s][i], n[s][j], s)
<1>1. s \in Fields \ {"minor"}
  BY DEF Fields, Sections
<1>2. /\ ContentHash(m)[s] = {SortedNames(m[s][k], NameLists) : k \in DOMAIN m[s]}
      /\ ContentHash(n)[s] = {SortedNames(n[s][k], NameLists) : k \in DOMAIN n[s]}
  BY <1>1 DEF ContentHash, Shaped
<1>3. PICK j \in DOMAIN n[s] : SortedNames(m[s][i], NameLists) = SortedNames(n[s][j], NameLists)
  <2>1. SortedNames(m[s][i], NameLists) \in {SortedNames(n[s][k], NameLists) : k \in DOMAIN n[s]}
    BY <1>2
  <2>2. QED
    BY <2>1
<1> DEFINE a == m[s][i]
           b == n[s][j]
<1>4. DOMAIN a = Keys(s) /\ DOMAIN b = Keys(s)
  BY DEF Shaped
<1>5. SortedNames(a, NameLists) = SortedNames(b, NameLists)
  BY <1>3
<1> HIDE DEF a, b
<1>6. ASSUME NEW key \in Keys(s), key \in NameLists PROVE Range(a[key]) = Range(b[key])
  <2>1. /\ DOMAIN SortedNames(a, NameLists)[key] = Range(a[key])
        /\ DOMAIN SortedNames(b, NameLists)[key] = Range(b[key])
    BY <1>4, <1>6 DEF SortedNames
  <2>2. QED
    BY <1>5, <2>1
<1>7. ASSUME NEW key \in Keys(s), key \notin NameLists PROVE a[key] = b[key]
  <2>1. SortedNames(a, NameLists)[key] = a[key] /\ SortedNames(b, NameLists)[key] = b[key]
    BY <1>4, <1>7 DEF SortedNames
  <2>2. QED
    BY <1>5, <2>1
<1>8. QED
  BY <1>6, <1>7 DEF Alike, a, b

\* The fields of two nodes of one canonical form, section by section.
LEMMA AlikeFields ==
  ASSUME NEW a, NEW b
  PROVE  /\ Alike(a, b, "executors") => a["id"] = b["id"] /\ a["parent"] = b["parent"]
         /\ Alike(a, b, "memories") =>
              /\ a["id"] = b["id"] /\ a["visible_from"] = b["visible_from"]
              /\ a["capacity_bytes"] = b["capacity_bytes"] /\ a["alignment_bytes"] = b["alignment_bytes"]
              /\ Range(a["supported_layouts"]) = Range(b["supported_layouts"])
         /\ Alike(a, b, "transfer_engines") => a["id"] = b["id"] /\ a["attached_to"] = b["attached_to"]
         /\ Alike(a, b, "links") =>
              /\ a["id"] = b["id"] /\ a["source"] = b["source"] /\ a["destination"] = b["destination"]
              /\ a["bandwidth"] = b["bandwidth"] /\ a["transaction_bytes"] = b["transaction_bytes"]
              /\ Range(a["transfer_engines"]) = Range(b["transfer_engines"])
<1>1. /\ {"id", "parent"} \subseteq Keys("executors")
      /\ {"id", "visible_from", "capacity_bytes", "alignment_bytes", "supported_layouts"}
           \subseteq Keys("memories")
      /\ {"id", "attached_to"} \subseteq Keys("transfer_engines")
      /\ {"id", "source", "destination", "bandwidth", "transaction_bytes", "transfer_engines"}
           \subseteq Keys("links")
  BY DEF Keys, Required, Optional, Vocabulary, ExecutorKeys, MemoryKeys, TransferEngineKeys, LinkKeys
<1>2. /\ {"id", "parent", "visible_from", "capacity_bytes", "alignment_bytes", "attached_to",
          "source", "destination", "bandwidth", "transaction_bytes"} \cap NameLists = {}
      /\ {"supported_layouts", "transfer_engines"} \subseteq NameLists
  BY DEF NameLists
<1>3. QED
  BY <1>1, <1>2 DEF Alike

LEMMA HashExecutor ==
  ASSUME NEW m, NEW n, Shaped(m), Shaped(n), ContentHash(m) = ContentHash(n),
         NEW v \in Range(m.executors)
  PROVE  \E w \in Range(n.executors) : v.id = w.id /\ v.parent = w.parent
<1>1. PICK i \in DOMAIN m["executors"] : v = m["executors"][i]
  BY DEF Range
<1>2. PICK j \in DOMAIN n["executors"] : Alike(v, n["executors"][j], "executors")
  BY <1>1, HashTwin DEF Sections
<1>3. v["id"] = n["executors"][j]["id"] /\ v["parent"] = n["executors"][j]["parent"]
  BY <1>2, AlikeFields
<1>4. n["executors"][j] \in Range(n.executors)
  BY DEF Range
<1>5. QED
  BY <1>3, <1>4

\* Two machines of one content hash contain and see alike.
LEMMA HashWithin ==
  ASSUME NEW m, NEW n, Shaped(m), Shaped(n), ContentHash(m) = ContentHash(n), NEW e, NEW f
  PROVE  ExecutorIds(m) = ExecutorIds(n) /\ (IsWithin(m, e, f) <=> IsWithin(n, e, f))
<1>1. \A v \in Range(m.executors) : \E w \in Range(n.executors) : v.id = w.id /\ v.parent = w.parent
  BY HashExecutor
<1>2. \A v \in Range(n.executors) : \E w \in Range(m.executors) : v.id = w.id /\ v.parent = w.parent
  BY HashExecutor
<1>3. ExecutorIds(m) = ExecutorIds(n)
  BY <1>1, <1>2 DEF ExecutorIds
<1>4. \A S : HasParents(m, S) <=> HasParents(n, S)
  BY <1>1, <1>2, <1>3 DEF HasParents
<1>5. Upwards(m, e) = Upwards(n, e)
  BY <1>3, <1>4 DEF Upwards
<1>6. QED
  BY <1>3, <1>5, ExecutorExists DEF IsWithin

LEMMA HashVisible ==
  ASSUME NEW m, NEW n, Shaped(m), Shaped(n), IdsUnique(m), IdsUnique(n),
         ContentHash(m) = ContentHash(n), NEW a, NEW e, IsVisible(m, a, e)
  PROVE  IsVisible(n, a, e)
<1>1. PICK i \in DOMAIN m["memories"] :
        Find(m, "memories", a) = m["memories"][i] /\ m["memories"][i]["id"] = a
  BY FoundNode DEF IsVisible, Sections
<1>2. PICK j \in DOMAIN n["memories"] : Alike(m["memories"][i], n["memories"][j], "memories")
  BY HashTwin DEF Sections
<1>3. /\ n["memories"][j]["id"] = a
      /\ n["memories"][j]["visible_from"] = m["memories"][i]["visible_from"]
  BY <1>1, <1>2, AlikeFields
<1>4. Exists(n, "memories", a)
  BY <1>3 DEF Exists
<1>5. Find(n, "memories", a) = n["memories"][j]
  BY <1>3, FindsNode DEF Sections
<1>6. IsWithin(m, e, m["memories"][i]["visible_from"])
  BY <1>1 DEF IsVisible
<1>7. IsWithin(n, e, n["memories"][j]["visible_from"])
  BY <1>3, <1>6, HashWithin
<1>8. QED
  BY <1>4, <1>5, <1>7 DEF IsVisible

\* What routing reads of one machine it reads of the other.
ViewWithin(m, n) ==
  /\ RoutingView(m).memories \subseteq RoutingView(n).memories
  /\ RoutingView(m).links \subseteq RoutingView(n).links
  /\ RoutingView(m).attached \subseteq RoutingView(n).attached
  /\ RoutingView(m).visible \subseteq RoutingView(n).visible

LEMMA HashView ==
  ASSUME NEW m, NEW n, Shaped(m), Shaped(n), IdsUnique(m), IdsUnique(n),
         ContentHash(m) = ContentHash(n)
  PROVE  ViewWithin(m, n)
<1>1. ASSUME NEW a \in Range(m.memories)
      PROVE  \E b \in Range(n.memories) :
               /\ a.id = b.id /\ a.capacity_bytes = b.capacity_bytes
               /\ a.alignment_bytes = b.alignment_bytes
               /\ Range(a.supported_layouts) = Range(b.supported_layouts)
  <2>1. PICK i \in DOMAIN m["memories"] : a = m["memories"][i]
    BY DEF Range
  <2>2. PICK j \in DOMAIN n["memories"] : Alike(a, n["memories"][j], "memories")
    BY <2>1, HashTwin DEF Sections
  <2>3. n["memories"][j] \in Range(n.memories)
    BY DEF Range
  <2>4. QED
    BY <2>2, <2>3, AlikeFields
<1>2. ASSUME NEW a \in Range(m.links)
      PROVE  \E b \in Range(n.links) :
               /\ a.id = b.id /\ a.source = b.source /\ a.destination = b.destination
               /\ a.bandwidth = b.bandwidth /\ a.transaction_bytes = b.transaction_bytes
               /\ Range(a.transfer_engines) = Range(b.transfer_engines)
  <2>1. PICK i \in DOMAIN m["links"] : a = m["links"][i]
    BY DEF Range
  <2>2. PICK j \in DOMAIN n["links"] : Alike(a, n["links"][j], "links")
    BY <2>1, HashTwin DEF Sections
  <2>3. n["links"][j] \in Range(n.links)
    BY DEF Range
  <2>4. QED
    BY <2>2, <2>3, AlikeFields
<1>3. ASSUME NEW a \in Range(m.transfer_engines)
      PROVE  \E b \in Range(n.transfer_engines) : a.id = b.id /\ a.attached_to = b.attached_to
  <2>1. PICK i \in DOMAIN m["transfer_engines"] : a = m["transfer_engines"][i]
    BY DEF Range
  <2>2. PICK j \in DOMAIN n["transfer_engines"] : Alike(a, n["transfer_engines"][j], "transfer_engines")
    BY <2>1, HashTwin DEF Sections
  <2>3. n["transfer_engines"][j] \in Range(n.transfer_engines)
    BY DEF Range
  <2>4. QED
    BY <2>2, <2>3, AlikeFields
<1>4. RoutingView(m).memories \subseteq RoutingView(n).memories
  <2>1. ASSUME NEW a \in Range(m.memories)
        PROVE  <<a.id, a.capacity_bytes, a.alignment_bytes, Range(a.supported_layouts)>>
                 \in {<<b.id, b.capacity_bytes, b.alignment_bytes, Range(b.supported_layouts)>> :
                        b \in Range(n.memories)}
    BY <1>1
  <2>2. QED
    BY <2>1 DEF RoutingView
<1>5. RoutingView(m).links \subseteq RoutingView(n).links
  <2>1. ASSUME NEW a \in Range(m.links)
        PROVE  <<a.id, a.source, a.destination, a.bandwidth, a.transaction_bytes,
                 Range(a.transfer_engines)>>
                 \in {<<b.id, b.source, b.destination, b.bandwidth, b.transaction_bytes,
                        Range(b.transfer_engines)>> : b \in Range(n.links)}
    BY <1>2
  <2>2. QED
    BY <2>1 DEF RoutingView
<1>6. RoutingView(m).attached \subseteq RoutingView(n).attached
  <2>1. ASSUME NEW a \in Range(m.transfer_engines)
        PROVE  <<a.id, a.attached_to>> \in {<<b.id, b.attached_to>> : b \in Range(n.transfer_engines)}
    BY <1>3
  <2>2. QED
    BY <2>1 DEF RoutingView
<1>7. RoutingView(m).visible \subseteq RoutingView(n).visible
  <2>1. {x.id : x \in Range(m.memories)} \subseteq {x.id : x \in Range(n.memories)}
    BY <1>1
  <2>2. {x.id : x \in Range(m.executors)} = {x.id : x \in Range(n.executors)}
    BY HashWithin DEF ExecutorIds
  <2>3. \A a, e : IsVisible(m, a, e) => IsVisible(n, a, e)
    BY HashVisible
  <2>4. QED
    BY <2>1, <2>2, <2>3 DEF RoutingView
<1>8. QED
  BY <1>4, <1>5, <1>6, <1>7 DEF ViewWithin

LEMMA HashRoutesAlike ==
  ASSUME NEW m, NEW n, Shaped(m), Shaped(n), IdsUnique(m), IdsUnique(n),
         ContentHash(m) = ContentHash(n)
  PROVE  RoutingView(m) = RoutingView(n)
<1>1. ViewWithin(m, n) /\ ViewWithin(n, m)
  BY HashView
<1>2. /\ RoutingView(m).memories = RoutingView(n).memories
      /\ RoutingView(m).links = RoutingView(n).links
      /\ RoutingView(m).attached = RoutingView(n).attached
      /\ RoutingView(m).visible = RoutingView(n).visible
  BY <1>1 DEF ViewWithin
<1>3. QED
  BY <1>2 DEF RoutingView

\* The inductive invariant of the loader.
THEOREM LoadInvariant == MSpec => []LoadInv
<1>1. QED
  BY LoadInitial, LoadStep, PTL DEF MSpec

\* A machine that was loaded is the one its document describes, whatever the
\* order of its keys; its containment is a forest, its links resolve, its
\* labels have one class, and the content hash tells apart what routing does.
THEOREM LoadIsSound == MSpec => []LoadSound
<1>1. ASSUME LoadInv PROVE LoadSound
  <2>1. \A m \in known : Shaped(m) /\ VerifyMachineModel(m)
    BY <1>1, DescribedShape DEF LoadInv
  <2>2. \A m \in known : Contained(m) /\ Routable(m)
    BY <2>1, VerifiedContained, VerifiedRoutable
  <2>3. \A m, n \in known : ContentHash(m) = ContentHash(n) => RoutingView(m) = RoutingView(n)
    BY <2>1, HashRoutesAlike DEF VerifyMachineModel
  <2>4. QED
    BY <1>1, <2>2, <2>3 DEF LoadSound, LoadInv
<1>2. QED
  BY <1>1, LoadInvariant, PTL
=============================================================================
