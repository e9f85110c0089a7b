----------------------------- MODULE StoragePlan -----------------------------
(***************************************************************************)
(* finalizeStoragePlan (lib/Mapping/StoragePlan.cpp): a selected plan gets *)
(* its steps, the edges that order them, an allocation for every value, a  *)
(* reuse of dead buffers, and a capacity verdict.  The verdict is taken    *)
(* from the plan's event stream (buildPlanEvents, lib/Mapping/             *)
(* CostEvent.cpp), scheduled by the shared list scheduler, through         *)
(* analyzeStorageLiveness (lib/Mapping/StorageLiveness.cpp), or, when the  *)
(* stream cannot be built, from the steps (computePeakStorage).            *)
(*                                                                         *)
(* The module composes StorageReuse (the reuse pass) and EventSchedule     *)
(* (the scheduler), which other callers enter with streams of their own:   *)
(* a behaviour finalizes a plan, schedules a stream or runs the pass over  *)
(* an allocation list.  Nodes are 0 .. n - 1 with one output each, so a       *)
(* produced value has the name of its node; values are storage values      *)
(* (storageValueOf has been applied).  A connection carries a value over a *)
(* route of memories: "direct" moves nothing, "transfer" copies hop by     *)
(* hop, "transform" converts in the producer's memory, "both" copies and   *)
(* converts at the end; a route over several engines asks for barriers.    *)
(***************************************************************************)
EXTENDS EventSchedule, StorageReuse, SequencesExt

CONSTANTS
  Sync,                 \* the sync pool
  Capacity,             \* [Memories -> Nat]
  MoveCycles, WaitCycles, BarrierCycles, ConvertCycles,
  Plans                 \* the plans considered

VARIABLES
  plan,                 \* the plan and its workload graph
  stage,                \* where finalizeStoragePlan is, or its verdict
  emitted, moved,       \* nodes and connections that have their steps
  steps, stepEdges,
  complete,             \* physicalReasons is empty
  uses,                 \* per event: the storage it touches
  peak

stepVars == <<emitted, moved, steps>>
vars == <<plan, stage, stepVars, stepEdges, complete, uses, peak, reuseVars, schedVars>>

Nodes == 0 .. plan.n - 1
Conns == DOMAIN plan.conns
Consumers(v) == {n \in Nodes : v \in Range(plan.reads[n])}

-----------------------------------------------------------------------------
(* Steps                                                                   *)

Materializes(c) == c.kind # "direct" \/ Len(c.route) > 1
Converts(c) == c.kind \in {"transform", "both"}

\* Pairs of copy and wait steps: one per hop, and one where nothing is routed.
Pairs(c) == IF Len(c.route) > 1 THEN Len(c.route) - 1 ELSE 1

\* emitConnection
ConnSteps(k) ==
  IF ~Materializes(plan.conns[k]) THEN <<>>
  ELSE FlattenSeq([h \in 1 .. Pairs(plan.conns[k]) |->
         << [kind |-> "move", node |-> 0, conn |-> k, hop |-> h],
            [kind |-> "wait", node |-> 0, conn |-> k, hop |-> h] >>])

\* The connections that deliver an operand of n and have no steps yet.
Pending(n) ==
  FlattenSeq([i \in DOMAIN plan.reads[n] |->
    IF \E j \in 1 .. i - 1 : plan.reads[n][j] = plan.reads[n][i] THEN <<>>
    ELSE SetToSortSeq({k \in Conns \ moved : plan.conns[k].value = plan.reads[n][i]},
                      LAMBDA x, y : x < y)])

StepsOf(ks) == FlattenSeq([i \in DOMAIN ks |-> ConnSteps(ks[i])])

ReadyNodes ==
  {n \in Nodes \ emitted : ((Range(plan.reads[n]) \cap Nodes) \ {n}) \subseteq emitted}

\* Every node is placed.
Cover ==
  /\ stage = "cover"
  /\ stage' = IF plan.placements = Nodes THEN "order" ELSE "rejected"
  /\ UNCHANGED <<plan, stepVars, stepEdges, complete, uses, peak, reuseVars, schedVars>>

\* The next node in dependency order: the steps of its operands' movements, and
\* its own.
EmitNode(n) ==
  /\ stage = "order"
  /\ n \in ReadyNodes /\ \A m \in ReadyNodes : n <= m
  /\ steps' = steps \o StepsOf(Pending(n))
                    \o <<[kind |-> "compute", node |-> n, conn |-> 0, hop |-> 0]>>
  /\ moved' = moved \cup Range(Pending(n))
  /\ emitted' = emitted \cup {n}
  /\ UNCHANGED <<plan, stage, stepEdges, complete, uses, peak, reuseVars, schedVars>>

Cyclic ==
  /\ stage = "order" /\ ReadyNodes = {} /\ emitted # Nodes
  /\ stage' = "rejected"
  /\ UNCHANGED <<plan, stepVars, stepEdges, complete, uses, peak, reuseVars, schedVars>>

ComputeStep(n) == CHOOSE s \in DOMAIN steps : steps[s].kind = "compute" /\ steps[s].node = n
MoveStep(k, h) ==
  CHOOSE s \in DOMAIN steps : steps[s].kind = "move" /\ steps[s].conn = k /\ steps[s].hop = h
WaitStep(k, h) == MoveStep(k, h) + 1

\* MUTANT of ReleaseEdges: the first hop's wait releases the value.
ReleaseEdgesEarly(k) == {<<WaitStep(k, 1), ComputeStep(m)>> : m \in Consumers(plan.conns[k].value)}

\* The final wait releases the value to its consumers.
ReleaseEdges(k) ==
  {<<WaitStep(k, Pairs(plan.conns[k])), ComputeStep(m)>> : m \in Consumers(plan.conns[k].value)}

ConnEdges(k) ==
  LET c == plan.conns[k]
      hops == 1 .. Pairs(c)
  IN  {<<ComputeStep(c.value), MoveStep(k, 1)>>}
      \cup {<<WaitStep(k, h - 1), MoveStep(k, h)>> : h \in hops \ {1}}
      \cup {<<MoveStep(k, h), WaitStep(k, h)>> : h \in hops}
      \cup ReleaseEdges(k)

\* The connections no node reads, and then the edges.
EmitRest ==
  /\ stage = "order" /\ emitted = Nodes
  /\ steps' = steps \o StepsOf(SetToSortSeq(Conns \ moved, LAMBDA x, y : x < y))
  /\ moved' = Conns
  /\ stage' = "edges"
  /\ UNCHANGED <<plan, emitted, stepEdges, complete, uses, peak, reuseVars, schedVars>>

Connect ==
  /\ stage = "edges"
  /\ stepEdges' = UNION {ConnEdges(k) : k \in {k \in Conns : Materializes(plan.conns[k])}}
  /\ stage' = "allocate"
  /\ UNCHANGED <<plan, stepVars, complete, uses, peak, reuseVars, schedVars>>

-----------------------------------------------------------------------------
(* Allocations                                                             *)

\* The last step that reads a value that is written at step b (lastReaderStep).
LastRead(v, b) == Max({b} \cup {ComputeStep(m) : m \in Consumers(v)})

Allocation(v, m, b, e, k, h) ==
  [value |-> v, memory |-> m, bytes |-> plan.bytes[v], begin |-> b, end |-> e,
   occ |-> IF v \in Nodes THEN plan.occ[v] ELSE 1, borrowed |-> v \notin Nodes,
   conn |-> k, hop |-> h]

\* Nodes in the order of their steps (topo).
Topo == SetToSortSeq(Nodes, LAMBDA m, n : ComputeStep(m) < ComputeStep(n))

Produced ==
  LET ns == SelectSeq(Topo, LAMBDA n : n \notin plan.unresolved)
  IN  [i \in DOMAIN ns |->
         Allocation(ns[i], plan.mem[ns[i]], ComputeStep(ns[i]),
                    LastRead(ns[i], ComputeStep(ns[i])), 0, 0)]

\* The copies a connection stages: one per hop, live to the next hop's read and
\* at the end to the last consumer; or one conversion in place.
Staged(k) ==
  LET c == plan.conns[k] IN
  IF ~Materializes(c) THEN <<>>
  ELSE [h \in 1 .. Pairs(c) |->
          Allocation(c.value, c.route[IF Len(c.route) > 1 THEN h + 1 ELSE 1], MoveStep(k, h),
                     IF h < Pairs(c) THEN MoveStep(k, h + 1)
                                     ELSE LastRead(c.value, MoveStep(k, h)), k, h)]

\* One borrow per boundary value and memory it is read in.
ReadSteps(v, m) ==
  {ComputeStep(n) : n \in {n \in Nodes : \E i \in DOMAIN plan.reads[n] :
                             plan.reads[n][i] = v /\ plan.at[n][i] = m}}

Borrowed(v) ==
  LET ms == SetToSeq({m \in Memories : ReadSteps(v, m) # {}})
  IN  [i \in DOMAIN ms |->
         Allocation(v, ms[i], Min(ReadSteps(v, ms[i])), Max(ReadSteps(v, ms[i])), 0, 0)]

AllocList ==
  Produced \o FlattenSeq([k \in Conns |-> Staged(k)])
           \o FlattenSeq([i \in DOMAIN plan.external |-> Borrowed(plan.external[i])])

\* The first allocation of the list that holds v in m, 0 if none does.
Find(l, v, m) ==
  IF \E i \in DOMAIN l : l[i].value = v /\ l[i].memory = m
    THEN Min({i \in DOMAIN l : l[i].value = v /\ l[i].memory = m}) ELSE 0

\* The allocation of the list that holds a produced value (producedAllocation).
Holding(l, v) == Min({i \in DOMAIN l : l[i].value = v})

\* What the reuse pass takes the writer of allocation i to read: the operands
\* of its node; a staged copy has no entry in allocationWriter and is looked up
\* as node 0.
WriterReads(l, i) ==
  LET n == IF l[i].conn = 0 THEN l[i].value ELSE 0
  IN  IF n \notin Nodes THEN {}
      ELSE {Holding(l, v) : v \in {v \in Range(plan.reads[n]) \cap Nodes :
                                     \E j \in DOMAIN l : l[j].value = v}}

\* Every first hop finds its source in the memory the route starts from.
SourcesFound(l) ==
  \A k \in Conns : Len(plan.conns[k].route) > 1 =>
    Find(l, plan.conns[k].value, plan.conns[k].route[1]) # 0

Resolved(l) == plan.unresolved = {} /\ SourcesFound(l)

Allocate ==
  /\ stage = "allocate"
  /\ complete' = Resolved(AllocList)
  /\ IF plan.strict /\ ~Resolved(AllocList)
       THEN stage' = "rejected" /\ UNCHANGED reuseVars
       ELSE /\ stage' = "reuse"
            /\ alloc' = [i \in DOMAIN AllocList |->
                           AllocList[i] @@ [reads |-> WriterReads(AllocList, i)]]
            /\ alias' = [i \in DOMAIN AllocList |-> NoAlias]
            /\ root' = [i \in DOMAIN AllocList |-> i]
            /\ later' = 1 /\ edges' = {}
  /\ UNCHANGED <<plan, stepVars, stepEdges, uses, peak, schedVars>>

ReuseBuffers ==
  /\ stage \in {"reuse", "list"} /\ ~Ordered /\ ReuseNext
  /\ UNCHANGED <<plan, stage, stepVars, stepEdges, complete, uses, peak, schedVars>>

-----------------------------------------------------------------------------
(* The event stream                                                        *)

\* The route takes more than one transfer engine.
RequiresBarrier(c) == Cardinality(Range(c.engines)) > 1

\* Events of a step.  A wait step without a barrier has none: it stands for the
\* last event of its movement.
EventCount(s) ==
  LET c == plan.conns[s.conn] IN
  IF s.kind = "compute" THEN 1
  ELSE IF s.kind = "wait" THEN (IF RequiresBarrier(c) THEN 1 ELSE 0)
  ELSE (IF Len(c.route) > 1 THEN 2 ELSE 0) + (IF Converts(c) /\ s.hop = Pairs(c) THEN 1 ELSE 0)

Offset(s) == MapThenSumSet(LAMBDA t : EventCount(steps[t]), 1 .. s - 1)

Forwards(s) == steps[s].kind = "wait" /\ EventCount(steps[s]) = 0
FirstEvent(s) == IF Forwards(s) THEN Offset(s) - 1 ELSE Offset(s)
LastEvent(s) == IF Forwards(s) THEN Offset(s) - 1 ELSE Offset(s) + EventCount(steps[s]) - 1

Event(kind, r, o, c, ds) ==
  [kind |-> kind, resource |-> r, owner |-> o, cycles |-> c, deps |-> ds]

\* The conversion runs where the first consumer computes.
ConvertEngine(c) == plan.engine[Min(c.to)]

\* The events a step emits, the first of them with id o.
Emitted(s, o) ==
  LET c == plan.conns[s.conn]
      hops == IF Len(c.route) = 1 THEN <<>>
              ELSE << Event("transfer", c.engines[s.hop], NoOwner, MoveCycles, {}),
                      Event("sync", Sync, NoOwner, WaitCycles, {o}) >>
  IN  IF s.kind = "compute"
        THEN <<Event("compute", plan.engine[s.node], plan.executor[s.node], plan.cycles[s.node], {})>>
      ELSE IF s.kind = "wait"
        THEN IF RequiresBarrier(c) THEN <<Event("sync", Sync, NoOwner, BarrierCycles, {})>> ELSE <<>>
      ELSE IF Converts(c) /\ s.hop = Pairs(c)
        THEN Append(hops, Event("transform", ConvertEngine(c), NoOwner, ConvertCycles,
                                IF hops = <<>> THEN {} ELSE {o + 1}))
      ELSE hops

\* The first event of a step follows the last event of each step before it.
EdgeDeps(e) ==
  {LastEvent(d[1]) : d \in {d \in stepEdges \cup edges :
     d[1] # d[2] /\ FirstEvent(d[2]) = e /\ LastEvent(d[1]) # e}}

\* The first consumer of a movement follows it.
DataDeps(e) ==
  {LastEvent(MoveStep(k, Pairs(plan.conns[k]))) :
     k \in {k \in Conns : /\ Materializes(plan.conns[k])
                          /\ FirstEvent(ComputeStep(Min(plan.conns[k].to))) = e}}

Stream ==
  LET l == FlattenSeq([s \in DOMAIN steps |-> Emitted(steps[s], Offset(s))])
  IN  [e \in 0 .. Len(l) - 1 |->
         [l[e + 1] EXCEPT !.deps = @ \cup EdgeDeps(e) \cup DataDeps(e)]]

Touch(a, w) == IF a = 0 THEN {} ELSE {[a |-> a, write |-> w]}

\* The storage a compute event touches: each operand where the port resolved
\* it, and nothing where no allocation holds it there.
ComputeUses(n) ==
  UNION {Touch(Find(alloc, plan.reads[n][i], plan.at[n][i]), FALSE) : i \in DOMAIN plan.reads[n]}
  \cup Touch(Find(alloc, n, plan.mem[n]), TRUE)

HopDest(k, h) == Min({i \in DOMAIN alloc : alloc[i].conn = k /\ alloc[i].hop = h})

HopSource(k, h) ==
  IF h = 1 THEN Find(alloc, plan.conns[k].value, plan.conns[k].route[1]) ELSE HopDest(k, h - 1)

MoveUses(k, h) == Touch(HopSource(k, h), FALSE) \cup Touch(HopDest(k, h), TRUE)

\* storageIds: the value's produced allocations, then the staged ones.
StorageIds(k) ==
  {i \in DOMAIN alloc : alloc[i].value = plan.conns[k].value /\ alloc[i].conn \in {0, k}}

ConvertUses(k) ==
  LET c == plan.conns[k] IN
  IF Cardinality(StorageIds(k)) < 2 THEN {}
  ELSE Touch(IF Len(c.route) > 1 THEN HopDest(k, Pairs(c)) ELSE Min(StorageIds(k)), FALSE)
       \cup Touch(Max(StorageIds(k)), TRUE)

StepUses(s) ==
  LET k == steps[s].conn IN
  IF steps[s].kind = "compute" THEN <<ComputeUses(steps[s].node)>>
  ELSE IF steps[s].kind = "wait" THEN (IF RequiresBarrier(plan.conns[k]) THEN <<{}>> ELSE <<>>)
  ELSE (IF Len(plan.conns[k].route) > 1 THEN <<MoveUses(k, steps[s].hop), {}>> ELSE <<>>)
       \o (IF Converts(plan.conns[k]) /\ steps[s].hop = Pairs(plan.conns[k])
             THEN <<ConvertUses(k)>> ELSE <<>>)

StreamUses ==
  LET l == FlattenSeq([s \in DOMAIN steps |-> StepUses(s)])
  IN  [e \in 0 .. Len(l) - 1 |-> l[e + 1]]

\* buildPlanEvents needs every output's memory and every engine.
Modelled == plan.unresolved = {} /\ Range(plan.engine) \subseteq DOMAIN Width

BuildEvents ==
  /\ stage = "reuse" /\ Ordered /\ Modelled
  /\ stage' = "schedule"
  /\ stepEdges' = stepEdges \cup edges
  /\ uses' = StreamUses
  /\ ev' = Stream
  /\ phase' = "place" /\ placed' = {} /\ spent' = 0 /\ predicted' = 0 /\ criticalId' = 0
  /\ waiting' = [e \in DOMAIN ev' |-> (ev'[e].deps \cap DOMAIN ev') \ {e}]
  /\ start' = [e \in DOMAIN ev' |-> 0] /\ finish' = [e \in DOMAIN ev' |-> 0]
  /\ free' = [p \in Pools |-> [i \in Slots(p) |-> 0]]
  /\ slot' = [e \in DOMAIN ev' |-> [p \in Pools |-> 1]]
  /\ UNCHANGED <<plan, stepVars, complete, peak, reuseVars>>

\* scheduleNormalizedEvents, and the validation of a strict caller.
Schedule ==
  /\ stage \in {"schedule", "stream"} /\ phase \in {"validate", "place"}
  /\ SchedNext
  /\ UNCHANGED <<plan, stage, stepVars, stepEdges, complete, uses, peak, reuseVars>>

-----------------------------------------------------------------------------
(* Liveness and the verdict                                                *)

Touching(a) == {e \in DOMAIN ev : \E u \in uses[e] : u.a = a}
Writing(a) == {e \in DOMAIN ev : [a |-> a, write |-> TRUE] \in uses[e]}

Opening(a) == IF Writing(a) # {} THEN Writing(a) ELSE Touching(a)

\* A written buffer is live from its writers, a borrowed one from its readers,
\* and both from the start of the first event of the stream that touches them.
From(a) ==
  Min({start[Min(Touching(a))]}
      \cup {start[e] : e \in Opening(a)})
Until(a) == Max({finish[e] : e \in Touching(a)})

Roots == {a \in Ids : root[a] = a}
Group(r) == {a \in Ids : root[a] = r}
GroupFrom(r) == Min({From(a) : a \in Group(r)})
GroupUntil(r) == Max({Until(a) : a \in Group(r)})

Weight(r) == alloc[r].bytes * Max({alloc[a].occ : a \in Group(r)})

\* Bytes of m reserved at cycle t.
LiveBytes(m, t) ==
  MapThenSumSet(Weight, {r \in Roots : /\ alloc[r].memory = m
                                       /\ GroupFrom(r) <= t /\ t < GroupUntil(r)})

\* The sum changes where a window starts or ends; it is evaluated at the starts.
Instants == {GroupFrom(r) : r \in Roots}

SchedulePeak(m) == Max({0} \cup {LiveBytes(m, t) : t \in Instants})

\* Bytes of m that occupants live at step s hold, and their maximum over steps.
StepBytes(m, s) ==
  MapThenSumSet(LAMBDA r : alloc[r].bytes * alloc[r].occ,
                {r \in Roots : \E a \in Group(r) : /\ alloc[a].memory = m
                                                   /\ alloc[a].begin <= s /\ s <= alloc[a].end})

StepPeak(m) == Max({0} \cup {StepBytes(m, s) : s \in DOMAIN steps})

Decide(p) == IF \E m \in Memories : p[m] > Capacity[m] THEN "overCapacity" ELSE "committed"

\* analyzeStorageLiveness refuses an allocation no event touches; that some
\* event touches each is the invariant Established, so the refusal and the
\* rejection it leads to are not actions here.
Verdict ==
  /\ stage = "schedule" /\ phase = "done"
  /\ peak' = [m \in Memories |-> SchedulePeak(m)]
  /\ stage' = Decide(peak')
  /\ UNCHANGED <<plan, stepVars, stepEdges, complete, uses, reuseVars, schedVars>>

\* The stream cannot be built: occupancy is taken from the steps.
FallbackVerdict ==
  /\ stage = "reuse" /\ Ordered /\ ~Modelled
  /\ peak' = [m \in Memories |-> StepPeak(m)]
  /\ stage' = Decide(peak')
  /\ stepEdges' = stepEdges \cup edges
  /\ UNCHANGED <<plan, stepVars, complete, uses, reuseVars, schedVars>>

Ended == \/ stage \in {"committed", "overCapacity", "rejected"}
         \/ stage = "stream" /\ phase \in {"done", "rejected"}
         \/ stage = "list" /\ Ordered

Terminated == Ended /\ UNCHANGED vars

NoPlan == [n |-> 0, conns |-> <<>>]

NoList == alloc = <<>> /\ alias = <<>> /\ root = <<>> /\ later = 1 /\ edges = {}

NoStream ==
  /\ ev = <<>> /\ phase = "place" /\ placed = {} /\ waiting = <<>> /\ start = <<>>
  /\ finish = <<>> /\ free = [p \in Pools |-> [i \in Slots(p) |-> 0]] /\ slot = <<>>
  /\ spent = 0 /\ predicted = 0 /\ criticalId = 0

\* The three callers: a plan to finalize, a stream, an allocation list.
Init ==
  /\ \/ plan \in Plans /\ stage = "cover" /\ NoList /\ NoStream
     \/ plan = NoPlan /\ stage = "stream" /\ NoList /\ SchedInit
     \/ plan = NoPlan /\ stage = "list" /\ ReuseInit /\ NoStream
  /\ emitted = {} /\ moved = {} /\ steps = <<>> /\ stepEdges = {}
  /\ complete = TRUE /\ uses = <<>> /\ peak = [m \in Memories |-> 0]

Next == \/ Cover \/ Cyclic \/ EmitRest \/ Connect \/ Allocate \/ ReuseBuffers
        \/ BuildEvents \/ Schedule \/ Verdict \/ FallbackVerdict
        \/ Terminated
        \/ \E n \in Nodes : EmitNode(n)

Spec == Init /\ [][Next]_vars
-----------------------------------------------------------------------------
(* Properties                                                              *)

\* Every allocation is touched by an event of the stream the plan makes, so
\* its live range is known (the error of analyzeStorageLiveness).
Established == stage = "schedule" => \A a \in Ids : Touching(a) # {}

\* Type invariant.
TypeOK ==
  /\ stage \in {"cover", "order", "edges", "allocate", "reuse", "schedule",
                "committed", "overCapacity", "rejected", "stream", "list"}
  /\ SchedTypeOK /\ ReuseTypeOK
  /\ emitted \subseteq Nodes /\ moved \subseteq Conns
  /\ \A s \in DOMAIN steps : steps[s].kind \in {"compute", "move", "wait"}
  /\ stepEdges \subseteq (DOMAIN steps) \X (DOMAIN steps)
  /\ stage # "stream" => DOMAIN uses = DOMAIN ev
  /\ peak \in [Memories -> Nat] /\ complete \in BOOLEAN

\* A plan's stream has been scheduled.
Scheduled == phase = "done" /\ stage # "stream"

\* finalizeStoragePlan schedules a stream nobody validated: no cycle of data,
\* movement and reuse edges leaves an event unplaced at cycle 0, where its
\* storage would seem to be live for no time at all.
EveryEventPlaced == Scheduled => placed = DOMAIN ev

ComputeEvent(n) == FirstEvent(ComputeStep(n))

\* A value that is moved is copied after it was computed, hop after hop, and is
\* there, converted and behind its barrier if it needs one, before any of its
\* consumers starts: the chain of step edges survives the translation into
\* events, where a wait step may have no event of its own.
MovedInOrder ==
  Scheduled => \A k \in Conns : Materializes(plan.conns[k]) =>
    LET c == plan.conns[k] IN
    /\ finish[ComputeEvent(c.value)] <= start[FirstEvent(MoveStep(k, 1))]
    /\ \A h \in 1 .. Pairs(c) :
         /\ finish[LastEvent(MoveStep(k, h))] <= finish[LastEvent(WaitStep(k, h))]
         /\ h > 1 => finish[LastEvent(WaitStep(k, h - 1))] <= start[FirstEvent(MoveStep(k, h))]
    /\ \A n \in Consumers(c.value) :
         finish[LastEvent(WaitStep(k, Pairs(c)))] <= start[ComputeEvent(n)]

\* Buffer r is reserved at cycle t: an event that opens one of its occupants
\* has started, and one that touches an occupant has not finished.
HeldAt(r, t) ==
  /\ \E a \in Group(r) : \E e \in Opening(a) : start[e] <= t
  /\ \E a \in Group(r) : \E e \in Touching(a) : t < finish[e]

\* A committed plan fits: at no cycle of the schedule do the buffers in use,
\* each as often as it is resident, exceed a memory, not only at the instants
\* the analysis looks at.
NeverOverCapacity ==
  stage = "committed" /\ Scheduled /\ complete =>
    \A m \in Memories, t \in 0 .. predicted :
      MapThenSumSet(LAMBDA r : alloc[r].bytes * alloc[r].occ,
                    {r \in Roots : alloc[r].memory = m /\ HeldAt(r, t)}) <= Capacity[m]

\* A plan that is finalized is scheduled completely, every allocation of it has
\* a live range, its values move in order, and a plan that is committed never
\* exceeds a memory (finalizeStoragePlan).
PlanSound == TypeOK /\ Established /\ EveryEventPlaced /\ MovedInOrder /\ NeverOverCapacity

\* No consumer starts before its producer has finished.
ConsumersFollowProducers ==
  Scheduled => \A n \in Nodes : \A v \in Range(plan.reads[n]) \cap (Nodes \ {n}) :
                 finish[ComputeEvent(v)] <= start[ComputeEvent(n)]

\* "An allocation only aliases an earlier one when the dependency order proves
\* they cannot overlap" (StorageLiveness.h): where j takes over the buffer of i,
\* whatever else touches i has finished when j is first written, even if we
\* only ask it of schedules in which every consumer follows its producer.
SharedNeverOverlaps ==
  stage = "committed" /\ Scheduled /\ complete /\ ConsumersFollowProducers =>
    \A i, j \in Ids : i # j /\ root[i] = root[j] /\ Precedes(i, j) =>
      \A e \in Touching(i) \ Touching(j) : finish[e] <= From(j)
=============================================================================
