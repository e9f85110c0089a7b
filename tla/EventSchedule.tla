---------------------------- MODULE EventSchedule ----------------------------
(***************************************************************************)
(* The list scheduler of lib/Mapping/EventSchedule.cpp, which turns a      *)
(* stream of cost events into start and finish cycles: among the events    *)
(* whose dependencies have been placed the lowest id goes first, and it    *)
(* starts when its dependencies have finished and a slot of its resource   *)
(* pool, and of its owner's pool if it has one, is free.  A strict caller  *)
(* validates the stream before (validateEventResources).                   *)
(*                                                                         *)
(* An event is a record [kind, resource, owner, cycles, deps].  The        *)
(* counter remaining[id] of the code is the set of dependencies that have  *)
(* not been placed yet: a duplicate dependency is counted twice up and     *)
(* twice down, a dependency on itself or outside the stream not at all.    *)
(***************************************************************************)
EXTENDS Integers, FiniteSets, Functions

CONSTANTS Resources,  \* names of compute and transfer resources and owners
          NoOwner,    \* the empty owner string
          Width,      \* what the machine models: [Modelled -> its slot count]
          Streams     \* the streams considered: each a function on 0 .. n - 1

Kinds == {"compute", "transform", "transfer", "sync", "capacity"}

Events == [kind : Kinds, resource : Resources, owner : Resources \cup {NoOwner},
           cycles : Nat, deps : SUBSET Nat]

ASSUME ScheduleAssumption ==
  /\ NoOwner \notin Resources
  /\ DOMAIN Width \subseteq Resources
  /\ \A r \in DOMAIN Width : Width[r] \in Nat
  /\ \A s \in Streams : /\ DOMAIN s \subseteq Nat
                        /\ IsFiniteSet(DOMAIN s)
                        /\ \A id \in DOMAIN s : s[id] \in Events

VARIABLES
  ev,        \* the stream
  phase,     \* "validate", "place", "done" or "rejected"
  placed,    \* the events popped from the ready heap
  waiting,   \* per event: the dependencies that are not placed yet
  start, finish,
  free,      \* per pool and slot: when it frees up (ResourcePool::available_)
  slot,      \* history: the slot each placed event took in each of its pools
  spent,     \* history: the cycles of all placed events together
  predicted, criticalId

schedVars == <<ev, phase, placed, waiting, start, finish, free, slot, spent,
          predicted, criticalId>>

EventIds == DOMAIN ev

\* The dependencies the scheduler honours.
Deps(id) == (ev[id].deps \cap EventIds) \ {id}

-----------------------------------------------------------------------------
(* Pools.  A name is the key's class and the resource or owner it is for.  *)

PoolClass(e) == IF e.kind \in {"compute", "transform"} THEN "engine"
                ELSE IF e.kind = "transfer" THEN "dma" ELSE "sync"

Pools == {"engine", "dma", "sync", "owner"} \X Resources

\* The pools an event occupies.
Uses(e) == {<<PoolClass(e), e.resource>>}
           \cup (IF e.owner = NoOwner THEN {} ELSE {<<"owner", e.owner>>})

\* std::max(1, the node's own count), and one slot for what is not modelled.
SlotCount(p) ==
  IF p[1] = "sync" \/ p[2] \notin DOMAIN Width \/ Width[p[2]] = 0
    THEN 1 ELSE Width[p[2]]

Slots(p) == 1 .. SlotCount(p)

\* min_element: the first slot among those that free up first.
NextSlot(p) ==
  CHOOSE s \in Slots(p) :
    \A r \in Slots(p) : free[p][s] < free[p][r] \/ (free[p][s] = free[p][r] /\ s <= r)

\* MUTANT of Taken: look at the first free slot, but take the last one.
TakenLast(p) == SlotCount(p)

\* The slot acquire() takes: the one earliestFree() looked at.
Taken(p) == NextSlot(p)

-----------------------------------------------------------------------------
SchedInit ==
  /\ ev \in Streams
  /\ phase \in {"validate", "place"}
  /\ placed = {}
  /\ waiting = [id \in EventIds |-> Deps(id)]
  /\ start = [id \in EventIds |-> 0] /\ finish = [id \in EventIds |-> 0]
  /\ free = [p \in Pools |-> [s \in Slots(p) |-> 0]]
  /\ slot = [id \in EventIds |-> [p \in Pools |-> 1]]
  /\ spent = 0 /\ predicted = 0 /\ criticalId = 0

\* validateEventResources: the resource of a compute or transfer event exists
\* and has a slot.
ResourceModelled(e) ==
  e.kind \in {"sync", "capacity"} \/ (e.resource \in DOMAIN Width /\ Width[e.resource] > 0)

\* Kahn's algorithm visits every event: no set of events waits on itself.
Acyclic == \A S \in SUBSET EventIds : S # {} => \E id \in S : ev[id].deps \cap S = {}

\* MUTANT of StreamValid: forget the search for cycles.
StreamValidCyclic ==
  \A id \in EventIds : ResourceModelled(ev[id]) /\ ev[id].deps \subseteq EventIds \ {id}

StreamValid ==
  /\ \A id \in EventIds : ResourceModelled(ev[id]) /\ ev[id].deps \subseteq EventIds \ {id}
  /\ Acyclic

Validate ==
  /\ phase = "validate"
  /\ phase' = IF StreamValid THEN "place" ELSE "rejected"
  /\ UNCHANGED <<ev, placed, waiting, start, finish, free, slot, spent, predicted, criticalId>>

Ready == {id \in EventIds \ placed : waiting[id] = {}}

\* b is a value of the set, or 0, and no value of the set is larger.
IsLatest(b, times) == b \in times \cup {0} /\ \A t \in times : t <= b

\* MUTANT of Bounds: start as soon as the slots allow.
BoundsWithoutDeps(id) == {free[p][NextSlot(p)] : p \in Uses(ev[id])}

\* What an event must wait for: its dependencies and a slot of each pool.
Bounds(id) == {finish[d] : d \in Deps(id)} \cup {free[p][NextSlot(p)] : p \in Uses(ev[id])}

\* MUTANT of Finish: charge a cycle that sequentialCycles does not count.
FinishPadded(begin, id) == begin + ev[id].cycles + 1

Finish(begin, id) == begin + ev[id].cycles

\* One turn of the loop: the lowest ready id is placed.
Place(id) ==
  /\ phase = "place"
  /\ id \in Ready /\ \A other \in Ready : id <= other
  /\ \E begin \in Bounds(id) \cup {0} :
       /\ IsLatest(begin, Bounds(id))
       /\ start' = [start EXCEPT ![id] = begin]
       /\ finish' = [finish EXCEPT ![id] = Finish(begin, id)]
       /\ free' = [p \in Pools |->
                     IF p \in Uses(ev[id])
                       THEN [free[p] EXCEPT ![Taken(p)] = Finish(begin, id)]
                       ELSE free[p]]
  /\ slot' = [slot EXCEPT ![id] = [p \in Pools |-> Taken(p)]]
  /\ spent' = spent + ev[id].cycles
  /\ placed' = placed \cup {id}
  /\ waiting' = [other \in EventIds |-> waiting[other] \ {id}]
  /\ UNCHANGED <<ev, phase, predicted, criticalId>>

\* The lowest event that finishes last.
CriticalId(last) ==
  CHOOSE id \in EventIds : finish[id] = last /\ \A o \in EventIds : finish[o] = last => id <= o

\* The last loop: the largest finish and the critical event.
Report ==
  /\ phase = "place" /\ Ready = {}
  /\ \E last \in {finish[id] : id \in EventIds} \cup {0} :
       /\ IsLatest(last, {finish[id] : id \in EventIds})
       /\ predicted' = last
       /\ criticalId' = IF last = 0 THEN 0 ELSE CriticalId(last)
  /\ phase' = "done"
  /\ UNCHANGED <<ev, placed, waiting, start, finish, free, slot, spent>>

SchedTerminated == phase \in {"done", "rejected"} /\ UNCHANGED schedVars

SchedNext == Validate \/ (\E id \in EventIds : Place(id)) \/ Report \/ SchedTerminated

SchedSpec == SchedInit /\ [][SchedNext]_schedVars

\* sequentialCycles
Sequential == SumFunction([id \in EventIds |-> ev[id].cycles])
-----------------------------------------------------------------------------
(* Properties                                                              *)

\* Type invariant.
SchedTypeOK ==
  /\ EventIds \subseteq Nat /\ \A id \in EventIds : ev[id] \in Events
  /\ phase \in {"validate", "place", "done", "rejected"}
  /\ placed \subseteq EventIds
  /\ waiting \in [EventIds -> SUBSET EventIds]
  /\ start \in [EventIds -> Nat] /\ finish \in [EventIds -> Nat]
  /\ DOMAIN free = Pools /\ \A p \in Pools : free[p] \in [Slots(p) -> Nat]
  /\ slot \in [EventIds -> [Pools -> Nat]]
  /\ \A id \in EventIds, p \in Pools : slot[id][p] \in Slots(p)
  /\ spent \in Nat /\ predicted \in Nat /\ criticalId \in Nat

\* A placed event's dependencies are placed, and have finished when it starts,
\* also where the dependency has the larger id.
DepsRespected ==
  \A id \in placed : \A d \in Deps(id) : d \in placed /\ finish[d] <= start[id]

Busy(p, t) == {id \in placed : p \in Uses(ev[id]) /\ start[id] <= t /\ t < finish[id]}

\* No cycle sees more events in a pool than the one node it names has slots,
\* for resource pools and owner pools at once.
CapacityRespected ==
  \A p \in Pools : \A e \in placed : Cardinality(Busy(p, start[e])) <= SlotCount(p)

\* Two events that took the same slot of a pool do not overlap in time.
SlotsExclusive ==
  \A p \in Pools : \A d, e \in placed :
    (d # e /\ p \in Uses(ev[d]) /\ p \in Uses(ev[e]) /\ slot[d][p] = slot[e][p])
      => finish[d] <= start[e] \/ finish[e] <= start[d]

\* No event finishes after the cycles of the events placed so far have run one
\* after the other: what it waits for never adds up to more.
WithinSequential == \A id \in placed : finish[id] <= spent

\* No event is delayed for nothing: it starts at cycle 0, or in the very cycle
\* in which one of its dependencies, or an event before it on a slot it takes,
\* has finished.
NoNeedlessDelay ==
  \A id \in placed :
    \/ start[id] = 0
    \/ \E d \in placed \ {id} :
         /\ finish[d] = start[id]
         /\ d \in Deps(id) \/ \E p \in Uses(ev[id]) \cap Uses(ev[d]) : slot[d][p] = slot[id][p]

\* "The scheduler's prediction is never larger" than the sequential sum.
Overlaps == phase = "done" => predicted <= Sequential

\* Once a strict caller's stream has passed validation, no event is left
\* unplaced at cycle 0.
ValidatedAllPlaced ==
  phase = "done" /\ StreamValid => placed = EventIds

\* The reported critical event is one that finishes last.
CriticalFinishesLast ==
  phase = "done" /\ predicted > 0 =>
    criticalId \in EventIds /\ \A id \in EventIds : finish[id] <= finish[criticalId]

\* The figures of a schedule belong together: no slot is used twice at a time,
\* every start has a reason, the critical event finishes last, and the latency
\* is no more than that of a sequential run (scheduleNormalizedEvents).
ScheduleSound ==
  SlotsExclusive /\ WithinSequential /\ NoNeedlessDelay /\ CriticalFinishesLast /\ Overlaps
=============================================================================
