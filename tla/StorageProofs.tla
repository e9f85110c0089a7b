-------------------------- MODULE StorageProofs --------------------------
(***************************************************************************)
(* Proofs about EventSchedule, for every stream and every machine, and     *)
(* about the reuse pass, for lists of every length and every step          *)
(* numbering.                                                              *)
(***************************************************************************)
EXTENDS EventSchedule, StorageReuse, SequenceLemmas

-----------------------------------------------------------------------------
(* Slots                                                                   *)

\* A non-empty set of naturals has a least element.
LEMMA LeastNatural ==
  ASSUME NEW T, T \subseteq Nat, T # {}
  PROVE  \E x \in T : \A y \in T : x <= y
<1> DEFINE Less == {ss \in Nat \X Nat : ss[1] < ss[2]}
<1>1. PICK x \in T : \A y \in T : ~(<<y, x>> \in Less)
  <2>1. IsWellFoundedOn(Less, Nat)
    BY NatLessThanWellFounded DEF OpToRel
  <2> HIDE DEF Less
  <2>2. QED
    BY <2>1, WFMin
<1>2. ASSUME NEW y \in T PROVE x <= y
  <2>1. <<y, x>> \in Nat \X Nat /\ x \in Nat /\ y \in Nat
    OBVIOUS
  <2>2. ~(y < x)
    BY <1>1, <2>1
  <2>3. QED
    BY <2>1, <2>2
<1>3. QED
  BY <1>2

\* Every pool has at least one slot.
LEMMA SlotCountType ==
  ASSUME NEW p \in Pools
  PROVE  SlotCount(p) \in Nat /\ SlotCount(p) >= 1
BY ScheduleAssumption DEF SlotCount, Pools

\* The slot earliestFree() looks at is a slot of the pool.
LEMMA NextSlotType ==
  ASSUME NEW p \in Pools, free[p] \in [Slots(p) -> Nat]
  PROVE  NextSlot(p) \in Slots(p)
<1>0. SlotCount(p) \in Nat /\ 1 \in Slots(p) /\ Slots(p) \subseteq Nat
  BY SlotCountType DEF Slots
<1> DEFINE Times == {free[p][s] : s \in Slots(p)}
<1>1. PICK v \in Times : \A w \in Times : v <= w
  <2>1. Times \subseteq Nat /\ Times # {}
    BY <1>0
  <2> HIDE DEF Times
  <2>2. QED
    BY <2>1, LeastNatural
<1> DEFINE First == {s \in Slots(p) : free[p][s] = v}
<1>2. PICK s \in First : \A r \in First : s <= r
  <2>1. First \subseteq Nat /\ First # {}
    BY <1>0, <1>1
  <2> HIDE DEF First
  <2>2. QED
    BY <2>1, LeastNatural
<1>3. ASSUME NEW r \in Slots(p)
      PROVE  free[p][s] < free[p][r] \/ (free[p][s] = free[p][r] /\ s <= r)
  <2>1. free[p][s] = v /\ v <= free[p][r] /\ v \in Nat /\ free[p][r] \in Nat
    BY <1>1, <1>2
  <2>2. CASE free[p][r] = v
    BY <2>1, <2>2, <1>2
  <2>3. CASE free[p][r] # v
    BY <2>1, <2>3
  <2>4. QED
    BY <2>2, <2>3
<1>4. QED
  BY <1>2, <1>3 DEF NextSlot

-----------------------------------------------------------------------------
(* The inductive invariant                                                 *)

\* The dependencies an event waits for are the ones not placed.
WaitInv == \A id \in EventIds : waiting[id] = Deps(id) \ placed

\* A slot is not free before the last event that took it has finished.
FreeAfterTaken ==
  \A p \in Pools : \A id \in placed :
    p \in Uses(ev[id]) => finish[id] <= free[p][slot[id][p]]

\* No slot is booked beyond the cycles of the events placed so far.
FreeWithinSpent == \A p \in Pools : \A s \in Slots(p) : free[p][s] <= spent

\* A slot that was used is free from the finish of an event that took it.
FreeAtFinish ==
  \A p \in Pools : \A s \in Slots(p) :
    free[p][s] = 0 \/ \E d \in placed : p \in Uses(ev[d]) /\ slot[d][p] = s /\ finish[d] = free[p][s]

Inv == /\ SchedTypeOK /\ WaitInv /\ FreeAfterTaken /\ FreeWithinSpent /\ FreeAtFinish
       /\ DepsRespected /\ SlotsExclusive /\ WithinSequential /\ NoNeedlessDelay

\* What the type of an event says of its parts.
LEMMA EventTypes ==
  ASSUME SchedTypeOK, NEW id \in EventIds
  PROVE  /\ ev[id].cycles \in Nat /\ id \in Nat
         /\ Uses(ev[id]) \subseteq Pools
         /\ Deps(id) \subseteq EventIds
BY DEF SchedTypeOK, Events, Uses, Pools, PoolClass, Deps

\* The cycle an event is placed at: what it waits for is over by then, and just
\* then if it has to wait at all.
LEMMA PlaceBegin ==
  ASSUME Inv, NEW id \in EventIds, Place(id)
  PROVE  \E begin \in Nat :
           /\ begin <= spent /\ (begin = 0 \/ begin \in Bounds(id))
           /\ \A d \in Deps(id) : d \in placed /\ finish[d] <= begin
           /\ \A p \in Uses(ev[id]) : free[p][NextSlot(p)] <= begin
           /\ start' = [start EXCEPT ![id] = begin]
           /\ finish' = [finish EXCEPT ![id] = begin + ev[id].cycles]
           /\ free' = [p \in Pools |->
                         IF p \in Uses(ev[id])
                           THEN [free[p] EXCEPT ![NextSlot(p)] = begin + ev[id].cycles]
                           ELSE free[p]]
<1>1. PICK begin \in Bounds(id) \cup {0} :
        /\ IsLatest(begin, Bounds(id))
        /\ start' = [start EXCEPT ![id] = begin]
        /\ finish' = [finish EXCEPT ![id] = begin + ev[id].cycles]
        /\ free' = [p \in Pools |->
                      IF p \in Uses(ev[id])
                        THEN [free[p] EXCEPT ![NextSlot(p)] = begin + ev[id].cycles]
                        ELSE free[p]]
  BY DEF Place, Finish, Taken
<1>2. Deps(id) \subseteq placed
  BY DEF Inv, WaitInv, Place, Ready
<1>3. ASSUME NEW d \in Deps(id) PROVE finish[d] \in Nat /\ finish[d] <= spent
  BY <1>2, EventTypes DEF Inv, WithinSequential, SchedTypeOK
<1>4. ASSUME NEW p \in Uses(ev[id])
      PROVE  free[p][NextSlot(p)] \in Nat /\ free[p][NextSlot(p)] <= spent
  <2>1. p \in Pools /\ free[p] \in [Slots(p) -> Nat]
    BY EventTypes DEF Inv, SchedTypeOK
  <2>2. QED
    BY <2>1, NextSlotType DEF Inv, FreeWithinSpent
<1>5. begin \in Nat /\ begin <= spent
  <2>1. CASE begin = 0
    BY <2>1 DEF Inv, SchedTypeOK
  <2>2. CASE begin \in Bounds(id)
    BY <2>2, <1>3, <1>4 DEF Bounds
  <2>3. QED
    BY <2>1, <2>2
<1>6. /\ \A d \in Deps(id) : finish[d] <= begin
      /\ \A p \in Uses(ev[id]) : free[p][NextSlot(p)] <= begin
  BY <1>1 DEF IsLatest, Bounds
<1>7. QED
  BY <1>1, <1>2, <1>5, <1>6

LEMMA InitInv == SchedInit => Inv
<1> SUFFICES ASSUME SchedInit PROVE Inv
  OBVIOUS
<1>1. EventIds \subseteq Nat /\ \A id \in EventIds : ev[id] \in Events
  BY ScheduleAssumption DEF SchedInit, EventIds
<1>2. \A p \in Pools : free[p] = [s \in Slots(p) |-> 0] /\ 1 \in Slots(p)
  BY SlotCountType DEF SchedInit, Slots
<1>3. SchedTypeOK
  BY <1>1, <1>2 DEF SchedInit, SchedTypeOK, Deps
<1>4. /\ WaitInv /\ FreeAfterTaken /\ DepsRespected /\ SlotsExclusive
      /\ WithinSequential /\ NoNeedlessDelay
  BY DEF SchedInit, WaitInv, FreeAfterTaken, DepsRespected, SlotsExclusive, WithinSequential,
         NoNeedlessDelay
<1>5. FreeWithinSpent /\ FreeAtFinish
  BY <1>2 DEF SchedInit, FreeWithinSpent, FreeAtFinish
<1>6. QED
  BY <1>3, <1>4, <1>5 DEF Inv

\* Steps that leave the schedule alone.
LEMMA OtherInv ==
  ASSUME Inv, UNCHANGED <<ev, placed, waiting, start, finish, free, slot, spent>>,
         phase' \in {"validate", "place", "done", "rejected"},
         predicted' \in Nat, criticalId' \in Nat
  PROVE  Inv'
<1>1. EventIds' = EventIds /\ \A id \in EventIds : Deps(id)' = Deps(id)
  BY DEF EventIds, Deps
<1>2. SchedTypeOK'
  BY <1>1 DEF Inv, SchedTypeOK
<1>3. WaitInv'
  BY <1>1 DEF Inv, WaitInv
<1>4. FreeAfterTaken' /\ FreeWithinSpent' /\ FreeAtFinish' /\ SlotsExclusive' /\ WithinSequential'
  BY DEF Inv, FreeAfterTaken, FreeWithinSpent, FreeAtFinish, SlotsExclusive, WithinSequential
<1>5. DepsRespected'
  BY <1>1 DEF Inv, DepsRespected, SchedTypeOK
<1>6. NoNeedlessDelay'
  <2> SUFFICES ASSUME NEW id \in placed, start[id] # 0
               PROVE  \E d \in placed \ {id} :
                        /\ finish[d] = start[id]
                        /\ \/ d \in Deps(id)'
                           \/ \E p \in Uses(ev[id]) \cap Uses(ev[d]) : slot[d][p] = slot[id][p]
    BY DEF NoNeedlessDelay
  <2>1. PICK d \in placed \ {id} :
          /\ finish[d] = start[id]
          /\ d \in Deps(id) \/ \E p \in Uses(ev[id]) \cap Uses(ev[d]) : slot[d][p] = slot[id][p]
    BY DEF Inv, NoNeedlessDelay
  <2>2. Deps(id)' = Deps(id)
    BY <1>1 DEF Inv, SchedTypeOK
  <2>3. QED
    BY <2>1, <2>2
<1>7. QED
  BY <1>2, <1>3, <1>4, <1>5, <1>6 DEF Inv

LEMMA ReportInv ==
  ASSUME Inv, Report
  PROVE  Inv'
<1>1. PICK last \in {finish[id] : id \in EventIds} \cup {0} :
        /\ predicted' = last
        /\ criticalId' = IF last = 0 THEN 0 ELSE CriticalId(last)
  BY DEF Report
<1>2. last \in Nat
  <2>1. finish \in [EventIds -> Nat]
    BY DEF Inv, SchedTypeOK
  <2>2. QED
    BY <2>1
<1>3. ASSUME last # 0 PROVE CriticalId(last) \in Nat
  <2> DEFINE Final == {id \in EventIds : finish[id] = last}
  <2>1. Final \subseteq Nat /\ Final # {}
    BY <1>1, <1>3 DEF Inv, SchedTypeOK
  <2>2. PICK id \in Final : \A o \in Final : id <= o
    <3> HIDE DEF Final
    <3>1. QED
      BY <2>1, LeastNatural
  <2>3. CriticalId(last) \in EventIds
    BY <2>2 DEF CriticalId
  <2>4. QED
    BY <2>3 DEF Inv, SchedTypeOK
<1>4. QED
  BY <1>1, <1>2, <1>3, OtherInv DEF Report

LEMMA PlaceInv ==
  ASSUME Inv, NEW id \in EventIds, Place(id)
  PROVE  Inv'
<1>1. PICK begin \in Nat :
        /\ begin <= spent /\ (begin = 0 \/ begin \in Bounds(id))
        /\ \A d \in Deps(id) : d \in placed /\ finish[d] <= begin
        /\ \A p \in Uses(ev[id]) : free[p][NextSlot(p)] <= begin
        /\ start' = [start EXCEPT ![id] = begin]
        /\ finish' = [finish EXCEPT ![id] = begin + ev[id].cycles]
        /\ free' = [p \in Pools |->
                      IF p \in Uses(ev[id])
                        THEN [free[p] EXCEPT ![NextSlot(p)] = begin + ev[id].cycles]
                        ELSE free[p]]
  BY PlaceBegin
<1>2. /\ ev' = ev /\ EventIds' = EventIds /\ placed' = placed \cup {id} /\ id \notin placed
      /\ \A x \in EventIds : Deps(x)' = Deps(x)
      /\ slot' = [slot EXCEPT ![id] = [p \in Pools |-> NextSlot(p)]]
      /\ spent' = spent + ev[id].cycles
      /\ waiting' = [other \in EventIds |-> waiting[other] \ {id}]
      /\ UNCHANGED <<phase, predicted, criticalId>>
  BY DEF Place, Ready, EventIds, Deps, Taken
<1>3. /\ placed \subseteq EventIds /\ start \in [EventIds -> Nat] /\ finish \in [EventIds -> Nat]
      /\ spent \in Nat /\ ev[id].cycles \in Nat /\ Uses(ev[id]) \subseteq Pools
      /\ waiting \in [EventIds -> SUBSET EventIds] /\ slot \in [EventIds -> [Pools -> Nat]]
      /\ \A x \in EventIds, p \in Pools : slot[x][p] \in Slots(p)
      /\ \A x \in EventIds : Deps(x) \subseteq EventIds
  BY EventTypes DEF Inv, SchedTypeOK
<1>4. \A p \in Pools : free[p] \in [Slots(p) -> Nat] /\ NextSlot(p) \in Slots(p)
  BY NextSlotType DEF Inv, SchedTypeOK
<1>5. \A p \in Pools : Slots(p) \subseteq Nat
  BY SlotCountType DEF Slots
<1>6. /\ start'[id] = begin /\ finish'[id] = begin + ev[id].cycles
      /\ \A x \in placed : start'[x] = start[x] /\ finish'[x] = finish[x]
      /\ \A p \in Pools : slot'[id][p] = NextSlot(p)
      /\ \A x \in placed : slot'[x] = slot[x]
  BY <1>1, <1>2, <1>3
<1>7. \A p \in Pools : \A s \in Slots(p) :
        free'[p][s] = IF p \in Uses(ev[id]) /\ s = NextSlot(p)
                        THEN begin + ev[id].cycles ELSE free[p][s]
  BY <1>1, <1>3, <1>4
<1>8. SchedTypeOK'
  <2>1. /\ EventIds' \subseteq Nat /\ \A x \in EventIds' : ev'[x] \in Events
        /\ phase' \in {"validate", "place", "done", "rejected"}
        /\ predicted' \in Nat /\ criticalId' \in Nat /\ spent' \in Nat
    BY <1>2, <1>3 DEF Inv, SchedTypeOK
  <2>2. /\ placed' \subseteq EventIds' /\ waiting' \in [EventIds' -> SUBSET EventIds']
        /\ start' \in [EventIds' -> Nat] /\ finish' \in [EventIds' -> Nat]
    BY <1>1, <1>2, <1>3
  <2>3. DOMAIN free' = Pools /\ \A p \in Pools : free'[p] \in [Slots(p) -> Nat]
    BY <1>1, <1>3, <1>4
  <2>4. slot' \in [EventIds' -> [Pools -> Nat]]
    BY <1>2, <1>3, <1>4, <1>5
  <2>5. \A x \in EventIds', p \in Pools : slot'[x][p] \in Slots(p)
    BY <1>2, <1>3, <1>4
  <2>6. QED
    BY <2>1, <2>2, <2>3, <2>4, <2>5 DEF SchedTypeOK
<1>9. WaitInv'
  BY <1>2, <1>3 DEF Inv, WaitInv
<1>10. FreeAfterTaken'
  <2> SUFFICES ASSUME NEW p \in Pools, NEW x \in placed', p \in Uses(ev[x])
               PROVE  finish'[x] <= free'[p][slot'[x][p]]
    BY <1>2 DEF FreeAfterTaken
  <2>1. CASE x = id
    BY <2>1, <1>3, <1>4, <1>6, <1>7
  <2>2. CASE x \in placed
    <3>1. finish[x] <= free[p][slot[x][p]] /\ slot[x][p] \in Slots(p)
      BY <2>2, <1>3 DEF Inv, FreeAfterTaken
    <3>2. finish[x] \in Nat /\ free[p][slot[x][p]] \in Nat
      BY <2>2, <3>1, <1>3, <1>4
    <3>3. CASE p \in Uses(ev[id]) /\ slot[x][p] = NextSlot(p)
      <4>1. free'[p][slot'[x][p]] = begin + ev[id].cycles
        BY <2>2, <3>1, <3>3, <1>6, <1>7
      <4>2. free[p][slot[x][p]] <= begin
        BY <3>3, <1>1
      <4>3. QED
        BY <4>1, <4>2, <3>1, <3>2, <2>2, <1>3, <1>6
    <3>4. CASE ~(p \in Uses(ev[id]) /\ slot[x][p] = NextSlot(p))
      BY <2>2, <3>1, <3>4, <1>6, <1>7
    <3>5. QED
      BY <3>3, <3>4
  <2>3. QED
    BY <2>1, <2>2, <1>2
<1>11. FreeWithinSpent'
  <2> SUFFICES ASSUME NEW p \in Pools, NEW s \in Slots(p)
               PROVE  free'[p][s] <= spent'
    BY DEF FreeWithinSpent
  <2>1. free[p][s] <= spent /\ free[p][s] \in Nat
    BY <1>4 DEF Inv, FreeWithinSpent
  <2>2. QED
    BY <2>1, <1>1, <1>2, <1>3, <1>7
<1>12. DepsRespected'
  <2> SUFFICES ASSUME NEW x \in placed', NEW d \in Deps(x)
               PROVE  d \in placed' /\ finish'[d] <= start'[x]
    BY <1>2, <1>3 DEF DepsRespected
  <2>1. CASE x = id
    BY <2>1, <1>1, <1>2, <1>6
  <2>2. CASE x \in placed
    BY <2>2, <1>2, <1>6 DEF Inv, DepsRespected
  <2>3. QED
    BY <2>1, <2>2, <1>2
<1>13. SlotsExclusive'
  <2>1. ASSUME NEW p \in Pools, NEW x \in placed,
               p \in Uses(ev[x]), p \in Uses(ev[id]), slot[x][p] = NextSlot(p)
        PROVE  finish[x] <= begin
    <3>1. finish[x] <= free[p][NextSlot(p)] /\ free[p][NextSlot(p)] <= begin
      BY <2>1, <1>1 DEF Inv, FreeAfterTaken
    <3>2. finish[x] \in Nat /\ free[p][NextSlot(p)] \in Nat
      BY <1>3, <1>4
    <3>3. QED
      BY <3>1, <3>2
  <2> SUFFICES ASSUME NEW p \in Pools, NEW d \in placed', NEW e \in placed', d # e,
                      p \in Uses(ev[d]), p \in Uses(ev[e]), slot'[d][p] = slot'[e][p]
               PROVE  finish'[d] <= start'[e] \/ finish'[e] <= start'[d]
    BY <1>2 DEF SlotsExclusive
  <2>2. CASE d \in placed /\ e \in placed
    BY <2>2, <1>6 DEF Inv, SlotsExclusive
  <2>3. CASE d = id /\ e \in placed
    BY <2>1, <2>3, <1>6
  <2>4. CASE d \in placed /\ e = id
    BY <2>1, <2>4, <1>6
  <2>5. QED
    BY <2>2, <2>3, <2>4, <1>2
<1>14. WithinSequential'
  <2> SUFFICES ASSUME NEW x \in placed' PROVE finish'[x] <= spent'
    BY DEF WithinSequential
  <2>1. CASE x = id
    BY <2>1, <1>1, <1>2, <1>3, <1>6
  <2>2. CASE x \in placed
    <3>1. finish[x] <= spent /\ finish[x] \in Nat
      BY <2>2, <1>3 DEF Inv, WithinSequential
    <3>2. QED
      BY <3>1, <2>2, <1>2, <1>3, <1>6
  <2>3. QED
    BY <2>1, <2>2, <1>2
<1>15. FreeAtFinish'
  <2> SUFFICES ASSUME NEW p \in Pools, NEW s \in Slots(p)
               PROVE  \/ free'[p][s] = 0
                      \/ \E d \in placed' : /\ p \in Uses(ev[d]) /\ slot'[d][p] = s
                                             /\ finish'[d] = free'[p][s]
    BY <1>2 DEF FreeAtFinish
  <2>1. CASE p \in Uses(ev[id]) /\ s = NextSlot(p)
    BY <2>1, <1>2, <1>6, <1>7
  <2>2. CASE ~(p \in Uses(ev[id]) /\ s = NextSlot(p))
    <3>1. free'[p][s] = free[p][s]
      BY <2>2, <1>7
    <3>2. CASE free[p][s] = 0
      BY <3>1, <3>2
    <3>3. CASE free[p][s] # 0
      <4>1. PICK d \in placed : p \in Uses(ev[d]) /\ slot[d][p] = s /\ finish[d] = free[p][s]
        BY <3>3 DEF Inv, FreeAtFinish
      <4>2. QED
        BY <3>1, <4>1, <1>2, <1>6
    <3>4. QED
      BY <3>2, <3>3
  <2>3. QED
    BY <2>1, <2>2
<1>16. NoNeedlessDelay'
  <2> SUFFICES ASSUME NEW x \in placed', start'[x] # 0
               PROVE  \E d \in placed' \ {x} :
                        /\ finish'[d] = start'[x]
                        /\ \/ d \in Deps(x)
                           \/ \E p \in Uses(ev[x]) \cap Uses(ev[d]) : slot'[d][p] = slot'[x][p]
    <3>1. ev' = ev /\ placed' \subseteq EventIds /\ \A x \in placed' : Deps(x)' = Deps(x)
      BY <1>2, <1>3
    <3>2. QED
      BY <3>1 DEF NoNeedlessDelay
  <2>1. CASE x \in placed
    <3>1. /\ x # id /\ start'[x] = start[x] /\ slot'[x] = slot[x] /\ placed \subseteq placed'
          /\ \A d \in placed : finish'[d] = finish[d] /\ slot'[d] = slot[d]
      BY <2>1, <1>2, <1>6
    <3>2. PICK d \in placed \ {x} :
            /\ finish[d] = start[x]
            /\ d \in Deps(x) \/ \E p \in Uses(ev[x]) \cap Uses(ev[d]) : slot[d][p] = slot[x][p]
      BY <2>1, <3>1 DEF Inv, NoNeedlessDelay
    <3>3. d \in placed' \ {x} /\ finish'[d] = start'[x] /\ slot'[d] = slot[d]
      BY <3>1, <3>2
    <3>4. QED
      BY ONLY <3>1, <3>2, <3>3
  <2>2. CASE x = id
    <3>1. begin # 0 /\ begin \in Bounds(id)
      BY <2>2, <1>1, <1>6
    <3>2. CASE \E d \in Deps(id) : begin = finish[d]
      <4>1. PICK d \in Deps(id) : begin = finish[d]
        BY <3>2
      <4>2. d \in placed /\ d \in placed' \ {id} /\ finish'[d] = start'[id]
        BY <4>1, <1>1, <1>2, <1>6
      <4>3. QED
        BY <2>2, <4>2
    <3>3. CASE \E p \in Uses(ev[id]) : begin = free[p][NextSlot(p)]
      <4>1. PICK p \in Uses(ev[id]) : begin = free[p][NextSlot(p)]
        BY <3>3
      <4>2. p \in Pools /\ NextSlot(p) \in Slots(p)
        BY <1>3, <1>4
      <4>3. PICK d \in placed :
              p \in Uses(ev[d]) /\ slot[d][p] = NextSlot(p) /\ finish[d] = free[p][NextSlot(p)]
        BY <3>1, <4>1, <4>2 DEF Inv, FreeAtFinish
      <4>4. d \in placed' \ {id} /\ finish'[d] = start'[id] /\ slot'[d][p] = slot'[id][p]
        BY <4>1, <4>2, <4>3, <1>2, <1>6
      <4>5. QED
        BY <2>2, <4>3, <4>4
    <3>4. QED
      BY <3>1, <3>2, <3>3 DEF Bounds
  <2>3. QED
    BY <2>1, <2>2, <1>2
<1>17. QED
  BY <1>8, <1>9, <1>10, <1>11, <1>12, <1>13, <1>14, <1>15, <1>16 DEF Inv

LEMMA NextInv ==
  ASSUME Inv, [SchedNext]_schedVars
  PROVE  Inv'
<1>1. CASE Validate
  <2>1. phase' \in {"validate", "place", "done", "rejected"}
    BY <1>1 DEF Validate
  <2>2. QED
    BY <1>1, <2>1, OtherInv DEF Validate, Inv, SchedTypeOK
<1>2. ASSUME NEW id \in EventIds, Place(id) PROVE Inv'
  BY <1>2, PlaceInv
<1>3. CASE Report
  BY <1>3, ReportInv
<1>4. CASE UNCHANGED schedVars
  <2>1. phase' \in {"validate", "place", "done", "rejected"}
    BY <1>4 DEF schedVars, Inv, SchedTypeOK
  <2>2. QED
    BY <1>4, <2>1, OtherInv DEF schedVars, Inv, SchedTypeOK
<1>5. QED
  BY <1>1, <1>2, <1>3, <1>4 DEF SchedNext, SchedTerminated

-----------------------------------------------------------------------------
(* What holds once the loop has ended                                      *)

DoneInv == /\ IsFiniteSet(EventIds)
           /\ phase = "done" => Ready = {}
           /\ CriticalFinishesLast

LEMMA InitDone == SchedInit => DoneInv
BY ScheduleAssumption DEF SchedInit, DoneInv, EventIds, CriticalFinishesLast

LEMMA NextDone ==
  ASSUME Inv, DoneInv, [SchedNext]_schedVars
  PROVE  DoneInv'
<1>1. EventIds' = EventIds
  BY DEF SchedNext, Validate, Place, Report, SchedTerminated, schedVars, EventIds
<1>2. IsFiniteSet(EventIds')
  BY <1>1 DEF DoneInv
<1>3. CASE Report
  <2>1. PICK last \in {finish[id] : id \in EventIds} \cup {0} :
          /\ IsLatest(last, {finish[id] : id \in EventIds})
          /\ predicted' = last
          /\ criticalId' = IF last = 0 THEN 0 ELSE CriticalId(last)
    BY <1>3 DEF Report
  <2>2. Ready' = {}
    BY <1>1, <1>3 DEF Report, Ready
  <2>3. ASSUME last # 0
        PROVE  CriticalId(last) \in EventIds /\ finish[CriticalId(last)] = last
    <3> DEFINE Final == {id \in EventIds : finish[id] = last}
    <3>1. Final \subseteq Nat /\ Final # {}
      BY <2>1, <2>3 DEF Inv, SchedTypeOK
    <3>2. PICK id \in Final : \A o \in Final : id <= o
      <4> HIDE DEF Final
      <4>1. QED
        BY <3>1, LeastNatural
    <3>3. QED
      BY <3>2 DEF CriticalId
  <2>4. CriticalFinishesLast'
    <3> SUFFICES ASSUME last # 0
                 PROVE  criticalId' \in EventIds /\ \A id \in EventIds : finish[id] <= finish[criticalId']
      BY <1>1, <1>3, <2>1 DEF CriticalFinishesLast, Report
    <3>1. QED
      BY <2>1, <2>3 DEF IsLatest
  <2>5. QED
    BY <1>2, <2>2, <2>4 DEF DoneInv
<1>4. CASE Validate
  BY <1>2, <1>4 DEF Validate, DoneInv, CriticalFinishesLast
<1>5. ASSUME NEW id \in EventIds, Place(id) PROVE DoneInv'
  BY <1>2, <1>5 DEF Place, DoneInv, CriticalFinishesLast
<1>6. CASE UNCHANGED schedVars
  BY <1>1, <1>2, <1>6 DEF schedVars, DoneInv, CriticalFinishesLast, Ready
<1>7. QED
  BY <1>3, <1>4, <1>5, <1>6 DEF SchedNext, SchedTerminated

-----------------------------------------------------------------------------
(* What the schedule charges                                               *)

Charges == [id \in EventIds |-> ev[id].cycles]

\* The cycles spent are those of the placed events, each counted once; nothing
\* finishes later, and nothing later is reported.
ChargeInv == /\ spent = SumFunctionOnSet(Charges, placed)
             /\ \A id \in EventIds : finish[id] <= spent
             /\ predicted <= spent

LEMMA InitCharge == SchedInit => ChargeInv
<1> SUFFICES ASSUME SchedInit PROVE ChargeInv
  OBVIOUS
<1>1. SchedTypeOK /\ IsFiniteSet(EventIds)
  BY InitInv, InitDone DEF Inv, DoneInv
<1>2. Charges \in [EventIds -> Nat]
  BY <1>1, EventTypes DEF Charges
<1>3. SumFunctionOnSet(Charges, {}) = 0
  BY <1>1, <1>2, SumOfPart
<1>4. QED
  BY <1>3 DEF SchedInit, ChargeInv

LEMMA NextCharge ==
  ASSUME Inv, DoneInv, ChargeInv, [SchedNext]_schedVars
  PROVE  ChargeInv'
<1>1. EventIds' = EventIds /\ Charges' = Charges
  BY DEF SchedNext, Validate, Place, Report, SchedTerminated, schedVars, EventIds, Charges
<1>2. Charges \in [EventIds -> Nat] /\ placed \subseteq EventIds /\ spent \in Nat
  BY EventTypes DEF Inv, SchedTypeOK, Charges
<1>3. ASSUME NEW id \in EventIds, Place(id) PROVE ChargeInv'
  <2>1. PICK begin \in Nat :
          begin <= spent /\ finish' = [finish EXCEPT ![id] = begin + ev[id].cycles]
    BY <1>3, PlaceBegin
  <2>2. /\ id \notin placed /\ placed' = placed \cup {id} /\ spent' = spent + ev[id].cycles
        /\ predicted' = predicted
    BY <1>3 DEF Place, Ready
  <2>3. SumFunctionOnSet(Charges, placed') = Charges[id] + SumFunctionOnSet(Charges, placed)
    <3>1. Charges \in [EventIds -> Int] /\ placed' \in SUBSET EventIds /\ id \in placed'
          /\ placed' \ {id} = placed
      BY <1>2, <2>2
    <3>2. QED
      BY <3>1, SumWithout DEF DoneInv
  <2>4. Charges[id] = ev[id].cycles /\ ev[id].cycles \in Nat
    BY EventTypes DEF Charges, Inv
  <2>5. spent' = SumFunctionOnSet(Charges', placed')
    BY <1>1, <1>2, <2>2, <2>3, <2>4 DEF ChargeInv
  <2>6. \A other \in EventIds : finish'[other] <= spent'
    BY <1>2, <2>1, <2>2, <2>4 DEF ChargeInv, Inv, SchedTypeOK
  <2>7. predicted' <= spent'
    BY <1>2, <2>2, <2>4 DEF ChargeInv, Inv, SchedTypeOK
  <2>8. QED
    BY <1>1, <2>5, <2>6, <2>7 DEF ChargeInv
<1>4. CASE Report
  <2>1. PICK last \in {finish[id] : id \in EventIds} \cup {0} : predicted' = last
    BY <1>4 DEF Report
  <2>2. predicted' <= spent
    BY <1>2, <2>1 DEF ChargeInv
  <2>3. QED
    BY <1>1, <1>4, <2>2 DEF ChargeInv, Report
<1>5. CASE Validate \/ UNCHANGED schedVars
  BY <1>1, <1>5 DEF Validate, schedVars, ChargeInv
<1>6. QED
  BY <1>3, <1>4, <1>5 DEF SchedNext, SchedTerminated

\* No prediction exceeds the sum of all charges.
LEMMA ChargesBoundPrediction ==
  ASSUME Inv, DoneInv, ChargeInv
  PROVE  Overlaps
<1>1. Charges \in [EventIds -> Nat] /\ placed \in SUBSET EventIds
  BY EventTypes DEF Inv, SchedTypeOK, Charges
<1>2. /\ SumFunctionOnSet(Charges, EventIds) \in Nat
      /\ SumFunctionOnSet(Charges, placed) <= SumFunctionOnSet(Charges, EventIds)
  BY <1>1, SumOfPart DEF DoneInv
<1>3. Sequential = SumFunctionOnSet(Charges, EventIds)
  <2>1. DOMAIN Charges = EventIds
    BY DEF Charges
  <2>2. Sequential = SumFunction(Charges)
    BY DEF Sequential, Charges
  <2>3. QED
    BY <2>1, <2>2 DEF SumFunction
<1>4. predicted <= Sequential
  BY <1>2, <1>3 DEF ChargeInv, Inv, SchedTypeOK
<1>5. QED
  BY <1>4 DEF Overlaps

-----------------------------------------------------------------------------
(* Theorems                                                                *)

LEMMA SpecInv == SchedSpec => [](Inv /\ DoneInv /\ ChargeInv)
<1>1. SchedInit => Inv /\ DoneInv /\ ChargeInv
  BY InitInv, InitDone, InitCharge
<1>2. Inv /\ DoneInv /\ ChargeInv /\ [SchedNext]_schedVars => Inv' /\ DoneInv' /\ ChargeInv'
  BY NextInv, NextDone, NextCharge
<1>3. QED
  BY <1>1, <1>2, PTL DEF SchedSpec

\* The scheduler's state is well typed; every event takes an existing slot.
THEOREM ScheduleTypes == SchedSpec => []SchedTypeOK
<1>1. Inv => SchedTypeOK
  BY DEF Inv
<1>2. QED
  BY <1>1, SpecInv, PTL

\* scheduleNormalizedEvents starts no event before its dependencies finished.
THEOREM DependenciesHold == SchedSpec => []DepsRespected
<1>1. Inv => DepsRespected
  BY DEF Inv
<1>2. QED
  BY <1>1, SpecInv, PTL

\* Two events that acquire() gave the same slot never overlap.
THEOREM SlotsHold == SchedSpec => []SlotsExclusive
<1>1. Inv => SlotsExclusive
  BY DEF Inv
<1>2. QED
  BY <1>1, SpecInv, PTL

\* No event finishes after the cycles of the placed events have run one after
\* the other, so the prediction cannot exceed the sum of all charges.
THEOREM NoLongerThanSequential == SchedSpec => []WithinSequential
<1>1. Inv => WithinSequential
  BY DEF Inv
<1>2. QED
  BY <1>1, SpecInv, PTL

\* scheduleNormalizedEvents delays no event for nothing: one that does not start
\* at cycle 0 starts when a dependency, or an event on one of its slots, ends.
THEOREM EveryStartHasAReason == SchedSpec => []NoNeedlessDelay
<1>1. Inv => NoNeedlessDelay
  BY DEF Inv
<1>2. QED
  BY <1>1, SpecInv, PTL

\* No pool ever holds more events than it has slots: were there more at some
\* cycle, two of them would share a slot.
THEOREM CapacityHolds == SchedSpec => []CapacityRespected
<1>1. ASSUME Inv, DoneInv PROVE CapacityRespected
  <2> SUFFICES ASSUME NEW p \in Pools, NEW e \in placed
               PROVE  Cardinality(Busy(p, start[e])) <= SlotCount(p)
    BY DEF CapacityRespected
  <2> DEFINE t == start[e]
             B == Busy(p, t)
             f == [x \in B |-> slot[x][p]]
  <2>1. t \in Nat /\ B \subseteq placed /\ placed \subseteq EventIds
    BY <1>1 DEF Inv, SchedTypeOK, Busy
  <2>2. IsFiniteSet(B) /\ Cardinality(B) \in Nat
    <3> HIDE DEF B
    <3>1. IsFiniteSet(B)
      BY <1>1, <2>1, FS_Subset DEF DoneInv
    <3>2. QED
      BY <3>1, FS_CardinalityType
  <2>3. IsFiniteSet(Slots(p)) /\ Cardinality(Slots(p)) = SlotCount(p) /\ SlotCount(p) \in Nat
    BY SlotCountType, FS_Interval DEF Slots
  <2>4. f \in [B -> Slots(p)]
    BY <1>1, <2>1 DEF Inv, SchedTypeOK
  <2>5. ASSUME SlotCount(p) < Cardinality(B) PROVE FALSE
    <3>1. PICK x \in B, y \in B : x # y /\ f[x] = f[y]
      <4> HIDE DEF f, B
      <4>1. QED
        BY <2>2, <2>3, <2>4, <2>5, FS_PigeonHole
    <3>2. slot[x][p] = slot[y][p] /\ p \in Uses(ev[x]) /\ p \in Uses(ev[y])
      BY <3>1 DEF Busy
    <3>3. finish[x] <= start[y] \/ finish[y] <= start[x]
      BY <1>1, <2>1, <3>1, <3>2 DEF Inv, SlotsExclusive
    <3>4. start[x] <= t /\ t < finish[x] /\ start[y] <= t /\ t < finish[y]
      BY <3>1 DEF Busy
    <3>5. start[x] \in Nat /\ start[y] \in Nat /\ finish[x] \in Nat /\ finish[y] \in Nat
      BY <1>1, <2>1 DEF Inv, SchedTypeOK
    <3>6. QED
      BY <2>1, <3>3, <3>4, <3>5
  <2>6. QED
    BY <2>2, <2>3, <2>5
<1>2. QED
  BY <1>1, SpecInv, PTL

\* A stream that validateEventResources accepts is scheduled completely: what
\* is left when the ready heap runs empty would wait on itself.
THEOREM ValidatedStreamsArePlaced == SchedSpec => []ValidatedAllPlaced
<1>1. ASSUME Inv, DoneInv PROVE ValidatedAllPlaced
  <2> SUFFICES ASSUME phase = "done", StreamValid PROVE placed = EventIds
    BY DEF ValidatedAllPlaced
  <2> DEFINE Left == EventIds \ placed
  <2>1. ASSUME Left # {} PROVE FALSE
    <3>1. PICK id \in Left : ev[id].deps \cap Left = {}
      BY <2>1 DEF StreamValid, Acyclic
    <3>2. waiting[id] = {}
      BY <1>1, <3>1 DEF Inv, WaitInv, Deps
    <3>3. id \in Ready
      BY <3>1, <3>2 DEF Ready
    <3>4. QED
      BY <1>1, <3>3 DEF DoneInv
  <2>2. QED
    BY <1>1, <2>1 DEF Inv, SchedTypeOK
<1>2. QED
  BY <1>1, SpecInv, PTL

\* The reported critical event finishes last.
THEOREM CriticalCorrect == SchedSpec => []CriticalFinishesLast
<1>1. DoneInv => CriticalFinishesLast
  BY DEF DoneInv
<1>2. QED
  BY <1>1, SpecInv, PTL

\* The figures of a schedule belong together: slots serve one event at a time,
\* an event waits for nothing but its dependencies and slots, the critical event
\* finishes last, and the latency is no larger than that of a sequential run.
THEOREM ScheduleIsSound == SchedSpec => []ScheduleSound
<1>1. Inv /\ DoneInv /\ ChargeInv => ScheduleSound
  BY ChargesBoundPrediction DEF Inv, DoneInv, ScheduleSound
<1>2. QED
  BY <1>1, SpecInv, PTL

-----------------------------------------------------------------------------
(***************************************************************************)
(* The reuse pass.  The invariant says three things of the buffers formed  *)
(* so far: an allocation whose turn has not come is still the root of its  *)
(* own buffer; a root is dead before, or updated in place by, each of its  *)
(* occupants; and a root can hold each of its occupants.  The second is    *)
(* what makes the merge of two buffers sound: everything in the buffer     *)
(* that is taken over is dead by the first step of the allocation that     *)
(* takes it, and that allocation comes before the occupants it brings      *)
(* along.                                                                  *)
(***************************************************************************)

Untouched == \A i \in Ids : i >= later => root[i] = i

RootFirst == \A i \in Ids : root[i] # i => Precedes(root[i], i)

RootIsRoot == \A i \in Ids : root[root[i]] = root[i]

ReuseInv == ReuseTypeOK /\ Untouched /\ RootIsRoot /\ RootFirst /\ OccupantsDisjoint /\ BufferFits

\* What the reuse step chooses: a root other than its own that can hold it and
\* is dead.
LEMMA BestIsReusable ==
  ASSUME NEW b \in Ids, IsFiniteSet(Ids), Ids = 1 .. Cardinality(Ids), \E r \in Ids : Reusable(r, b)
  PROVE  Best(b) \in Ids /\ Reusable(Best(b), b)
<1> DEFINE S == {r \in Ids : Reusable(r, b)}
<1>1. S # {} /\ S \subseteq Nat
  BY FS_CardinalityType
<1>2. PICK m \in S : \A s \in S : m <= s
  BY <1>1, LeastNatural
<1>3. \E r \in Ids : Reusable(r, b) /\ \A s \in Ids : Reusable(s, b) => r <= s
  BY <1>2
<1>4. QED
  BY <1>3 DEF Best

\* The list is well formed when the pass starts.
LEMMA ReuseInitInv == ReuseInit => ReuseInv
<1> SUFFICES ASSUME ReuseInit PROVE ReuseInv
  OBVIOUS
<1>1. IsFiniteSet(Ids) /\ Ids = 1 .. Cardinality(Ids) /\ \A i \in Ids : IsAllocation(alloc[i])
  BY ListsAssumption DEF ReuseInit, Ids
<1>2. Cardinality(Ids) \in Nat
  BY <1>1, FS_CardinalityType
<1>3. ReuseTypeOK
  BY <1>1, <1>2 DEF ReuseInit, ReuseTypeOK, NoAlias
<1>4. \A i \in Ids : root[i] = i
  BY DEF ReuseInit
<1>5. QED
  BY <1>3, <1>4 DEF ReuseInv, Untouched, RootIsRoot, RootFirst, OccupantsDisjoint, BufferFits

\* One buffer takes over another: the occupants of later's buffer move to Best.
LEMMA ReuseStep ==
  ASSUME ReuseInv, Reuse
  PROVE  ReuseInv'
<1>0. PICK b \in Ids, a \in Ids : b = later /\ a = Best(later)
  BY BestIsReusable DEF ReuseInv, ReuseTypeOK, Reuse
<1>1. /\ b \in Ids /\ ~alloc[b].borrowed /\ \E r \in Ids : Reusable(r, b)
      /\ alias' = [alias EXCEPT ![b] = a]
      /\ root' = [i \in Ids |-> IF root[i] = b THEN a ELSE root[i]]
      /\ later' = later + 1 /\ alloc' = alloc /\ edges' = edges /\ Ids' = Ids
  BY <1>0 DEF Reuse, Ids
<1>2. /\ IsFiniteSet(Ids) /\ Cardinality(Ids) \in Nat
      /\ Ids = 1 .. Cardinality(Ids) /\ later \in 1 .. Cardinality(Ids) + 2
      /\ \A i \in Ids : IsAllocation(alloc[i])
      /\ alias \in [Ids -> Ids \cup {NoAlias}] /\ root \in [Ids -> Ids]
      /\ edges \subseteq Nat \X Nat
  BY FS_CardinalityType DEF ReuseInv, ReuseTypeOK
<1>3. a \in Ids /\ a # b /\ root[a] = a /\ Holds(a, b) /\ Dead(a, b)
  BY <1>0, <1>1, <1>2, BestIsReusable DEF Reusable
<1>4. root[b] = b /\ b \in Nat
  BY <1>0, <1>1, <1>2 DEF ReuseInv, Untouched
<1>5. ReuseTypeOK'
  <2>1. later' \in 1 .. Cardinality(Ids) + 2
    BY <1>0, <1>1, <1>2
  <2>2. alias' \in [Ids -> Ids \cup {NoAlias}] /\ root' \in [Ids -> Ids]
    BY <1>1, <1>2, <1>3
  <2>3. QED
    BY <1>1, <1>2, <2>1, <2>2 DEF ReuseTypeOK, IsAllocation
<1>6. Untouched'
  BY <1>0, <1>1, <1>2, <1>4 DEF ReuseInv, Untouched
<1>7. RootIsRoot'
  BY <1>1, <1>2, <1>3, <1>4 DEF ReuseInv, RootIsRoot
<1>8. ASSUME NEW i \in Ids PROVE root'[i] = IF root[i] = b THEN a ELSE root[i]
  BY <1>1
<1>9. ASSUME NEW i \in Ids, NEW j \in Ids, root[i] = root[j], Precedes(i, j)
      PROVE  Precedes(i, j)'
  <2>1. CASE alloc[i].end < alloc[j].begin
    BY <1>1, <2>1 DEF Precedes
  <2>2. CASE alloc[i].end = alloc[j].begin /\ InPlace(j)
    <3>1. PICK r \in Ids : root[r] = root[j] /\ r \in alloc[j].reads
      BY <2>2 DEF InPlace, Members
    <3>2. root'[r] = root'[j]
      BY <1>8, <3>1
    <3>3. InPlace(j)'
      BY <1>1, <3>1, <3>2 DEF InPlace, Members
    <3>4. QED
      BY <1>1, <2>2, <3>3 DEF Precedes
  <2>3. QED
    BY <1>9, <2>1, <2>2 DEF Precedes
\* Everything in the buffer that is taken over precedes the new occupant.
<1>10. ASSUME NEW i \in Ids, root[i] = a
       PROVE  Precedes(i, b)' /\ alloc[i].end <= alloc[b].begin
  <2>1. i # b
    BY <1>3, <1>4, <1>10
  <2>2. i \in Occupants(a, b)
    BY <1>10, <2>1 DEF Occupants, Members
  <2>3. alloc[i].end \in Nat /\ alloc[b].begin \in Nat
    BY <1>1, <1>2 DEF IsAllocation
  <2>4. CASE alloc[i].end < alloc[b].begin
    BY <1>1, <2>3, <2>4 DEF Precedes
  <2>5. CASE ~(alloc[i].end < alloc[b].begin)
    <3>1. a \in alloc[b].reads /\ alloc[i].end <= alloc[b].begin
      BY <1>3, <2>2, <2>5 DEF Dead
    <3>2. alloc[i].end = alloc[b].begin
      BY <2>3, <2>5, <3>1
    <3>3. root'[a] = a /\ root'[b] = a
      BY <1>1, <1>3, <1>4, <1>8
    <3>4. InPlace(b)'
      BY <1>1, <1>3, <3>1, <3>3 DEF InPlace, Members
    <3>5. QED
      BY <1>1, <3>1, <3>2, <3>4 DEF Precedes
  <2>6. QED
    BY <2>4, <2>5
\* and precedes what the new occupant brings along.
<1>11. ASSUME NEW i \in Ids, NEW j \in Ids, root[i] = a, root[j] = b
       PROVE  Precedes(i, j)'
  <2>1. CASE j = b
    BY <1>10, <1>11, <2>1
  <2>2. CASE j # b
    <3>1. Precedes(b, j)
      BY <1>11, <2>2 DEF ReuseInv, RootFirst
    <3>2. Precedes(b, j)'
      BY <1>1, <1>4, <1>9, <1>11, <3>1
    <3>3. /\ alloc[i].end \in Nat /\ alloc[b].begin \in Nat /\ alloc[b].end \in Nat
          /\ alloc[j].begin \in Nat /\ alloc[b].begin <= alloc[b].end
          /\ alloc[i].end <= alloc[b].begin
      BY <1>1, <1>2, <1>10, <1>11 DEF IsAllocation
    <3>4. CASE alloc[b].end < alloc[j].begin
      BY <1>1, <3>3, <3>4 DEF Precedes
    <3>5. CASE ~(alloc[b].end < alloc[j].begin)
      <4>1. alloc[b].end = alloc[j].begin /\ InPlace(j)'
        BY <1>1, <3>2, <3>5 DEF Precedes
      <4>2. alloc[i].end < alloc[j].begin \/ alloc[i].end = alloc[j].begin
        BY <3>3, <4>1
      <4>3. QED
        BY <1>1, <4>1, <4>2 DEF Precedes
    <3>6. QED
      BY <3>4, <3>5
  <2>3. QED
    BY <2>1, <2>2
<1>12. RootFirst'
  <2> SUFFICES ASSUME NEW i \in Ids, NEW r \in Ids, root'[i] = r, r # i
               PROVE  Precedes(r, i)'
    <3>1. root' \in [Ids -> Ids]
      BY <1>1, <1>2, <1>3
    <3>2. QED
      BY <1>1, <3>1 DEF RootFirst
  <2>1. CASE root[i] = b
    BY <1>3, <1>8, <1>11, <2>1
  <2>2. CASE root[i] # b
    <3>1. r = root[i] /\ root[r] = root[i]
      BY <1>2, <1>8, <2>2 DEF ReuseInv, RootIsRoot
    <3>2. Precedes(r, i)
      BY <3>1 DEF ReuseInv, RootFirst
    <3>3. QED
      BY <1>9, <3>1, <3>2
  <2>3. QED
    BY <2>1, <2>2
<1>13. OccupantsDisjoint'
  <2> SUFFICES ASSUME NEW i \in Ids, NEW j \in Ids, i # j, root'[i] = root'[j]
               PROVE  Precedes(i, j)' \/ Precedes(j, i)'
    BY <1>1 DEF OccupantsDisjoint
  <2>1. CASE root[i] = root[j]
    BY <1>9, <2>1 DEF ReuseInv, OccupantsDisjoint
  <2>2. CASE root[i] # root[j]
    <3>1. \/ root[i] = a /\ root[j] = b
          \/ root[i] = b /\ root[j] = a
      BY <1>8, <2>2
    <3>2. QED
      BY <1>11, <3>1
  <2>3. QED
    BY <2>1, <2>2
<1>14. BufferFits'
  <2> SUFFICES ASSUME NEW i \in Ids, root'[i] # i
               PROVE  /\ ~alloc[i].borrowed /\ ~alloc[root'[i]].borrowed
                      /\ alloc[root'[i]].memory = alloc[i].memory
                      /\ alloc[root'[i]].bytes >= alloc[i].bytes
                      /\ alloc[root'[i]].occ >= alloc[i].occ
    BY <1>1 DEF BufferFits
  <2>1. CASE root[i] = b
    <3>1. /\ alloc[a].bytes \in Nat /\ alloc[b].bytes \in Nat /\ alloc[i].bytes \in Nat
          /\ alloc[a].occ \in Nat /\ alloc[b].occ \in Nat /\ alloc[i].occ \in Nat
      BY <1>1, <1>2, <1>3 DEF IsAllocation
    <3>2. i = b \/ (/\ ~alloc[i].borrowed /\ alloc[b].memory = alloc[i].memory
                    /\ alloc[b].bytes >= alloc[i].bytes /\ alloc[b].occ >= alloc[i].occ)
      BY <2>1 DEF ReuseInv, BufferFits
    <3>3. QED
      BY <1>1, <1>3, <1>8, <2>1, <3>1, <3>2 DEF Holds
  <2>2. CASE root[i] # b
    BY <1>8, <2>2 DEF ReuseInv, BufferFits
  <2>3. QED
    BY <2>1, <2>2
<1>15. QED
  BY <1>5, <1>6, <1>7, <1>12, <1>13, <1>14 DEF ReuseInv

\* The other steps leave the buffers alone.
LEMMA ReuseOtherStep ==
  ASSUME ReuseInv, UNCHANGED <<alloc, root>>, ReuseTypeOK', later' \in Nat, later <= later'
  PROVE  ReuseInv'
<1>1. /\ alloc' = alloc /\ root' = root /\ Ids' = Ids
  BY DEF Ids
<1>2. \A i, j \in Ids : Precedes(i, j)' <=> Precedes(i, j)
  BY <1>1 DEF Precedes, InPlace, Members
<1>3. Ids \subseteq Nat /\ later \in Nat
  BY FS_CardinalityType DEF ReuseInv, ReuseTypeOK
<1>4. Untouched'
  BY <1>1, <1>3 DEF ReuseInv, Untouched
<1>5. RootIsRoot' /\ BufferFits'
  BY <1>1 DEF ReuseInv, RootIsRoot, BufferFits
<1>6. root \in [Ids -> Ids]
  BY DEF ReuseInv, ReuseTypeOK
<1>7. RootFirst' /\ OccupantsDisjoint'
  BY <1>1, <1>2, <1>6 DEF ReuseInv, RootFirst, OccupantsDisjoint
<1>8. QED
  BY <1>4, <1>5, <1>7 DEF ReuseInv

LEMMA ReuseNextInv ==
  ASSUME ReuseInv, [ReuseNext]_reuseVars
  PROVE  ReuseInv'
<1>1. /\ IsFiniteSet(Ids) /\ Cardinality(Ids) \in Nat
      /\ Ids = 1 .. Cardinality(Ids) /\ later \in 1 .. Cardinality(Ids) + 2
      /\ \A i \in Ids : IsAllocation(alloc[i])
      /\ alias \in [Ids -> Ids \cup {NoAlias}] /\ root \in [Ids -> Ids]
      /\ edges \subseteq Nat \X Nat
  BY FS_CardinalityType DEF ReuseInv, ReuseTypeOK
<1>2. CASE Reuse
  BY <1>2, ReuseStep
<1>3. CASE Keep
  <2>1. /\ UNCHANGED <<alloc, alias, root, edges>> /\ later' = later + 1 /\ later \in Ids
        /\ Ids' = Ids
    BY <1>3 DEF Keep, Ids
  <2>2. later' \in 1 .. Cardinality(Ids) + 2 /\ later <= later' /\ later' \in Nat
    BY <1>1, <2>1
  <2>3. ReuseTypeOK'
    BY <1>1, <2>1, <2>2 DEF ReuseTypeOK, IsAllocation
  <2>4. QED
    BY <2>1, <2>2, <2>3, ReuseOtherStep
<1>4. CASE Order
  <2>1. /\ UNCHANGED <<alloc, alias, root>> /\ later' = later + 1
        /\ later = Cardinality(Ids) + 1 /\ Ids' = Ids
    BY <1>4 DEF Order, Ids
  <2>2. \A i \in Ids : alloc[i].begin \in Nat /\ alloc[i].end \in Nat
    BY <1>1 DEF IsAllocation
  <2>3. edges' \subseteq Nat \X Nat
    BY <1>4, <2>2 DEF Order
  <2>4. later' \in 1 .. Cardinality(Ids) + 2 /\ later <= later' /\ later' \in Nat
    BY <1>1, <2>1
  <2>5. ReuseTypeOK'
    BY <1>1, <2>1, <2>3, <2>4 DEF ReuseTypeOK, IsAllocation
  <2>6. QED
    BY <2>1, <2>4, <2>5, ReuseOtherStep
<1>5. CASE UNCHANGED reuseVars
  <2>1. UNCHANGED <<alloc, alias, root, later, edges>> /\ Ids' = Ids /\ later \in Nat
    BY <1>1, <1>5 DEF reuseVars, Ids
  <2>2. ReuseTypeOK'
    BY <1>1, <2>1 DEF ReuseTypeOK, IsAllocation
  <2>3. QED
    BY <2>1, <2>2, ReuseOtherStep
<1>6. QED
  BY <1>2, <1>3, <1>4, <1>5 DEF ReuseNext, ReuseTerminated
-----------------------------------------------------------------------------
(* The walk up the aliases.  A chain of aliases climbs: an allocation that is *)
(* the buffer of a lower one is still free of an alias when that is recorded, *)
(* so it can get one only at its own, later turn.                             *)

AliasInv ==
  \A i \in Ids :
    /\ alias[i] = NoAlias <=> root[i] = i
    /\ alias[i] # NoAlias =>
         /\ i < later /\ root[alias[i]] = root[i]
         /\ alias[alias[i]] # NoAlias => i < alias[i]

LEMMA AliasInit == ReuseInit => AliasInv
BY ReuseInitInv DEF ReuseInit, ReuseInv, ReuseTypeOK, AliasInv, Ids

LEMMA AliasNext ==
  ASSUME ReuseInv, AliasInv, [ReuseNext]_reuseVars
  PROVE  AliasInv'
<1>1. /\ Ids' = Ids /\ IsFiniteSet(Ids) /\ Cardinality(Ids) \in Nat /\ Ids = 1 .. Cardinality(Ids)
      /\ later \in Nat /\ alias \in [Ids -> Ids \cup {NoAlias}] /\ root \in [Ids -> Ids] /\ NoAlias \notin Ids
  <2>1. Ids' = Ids
    BY DEF Ids, ReuseNext, Reuse, Keep, Order, ReuseTerminated, reuseVars
  <2>2. QED
    BY <2>1, FS_CardinalityType DEF ReuseInv, ReuseTypeOK, NoAlias
<1>2. CASE Reuse
  <2>0. PICK b \in Ids, a \in Ids : b = later /\ a = Best(later)
    BY <1>1, <1>2, BestIsReusable DEF Reuse
  <2>1. /\ alias' = [alias EXCEPT ![b] = a] /\ later' = b + 1
        /\ root' = [i \in Ids |-> IF root[i] = b THEN a ELSE root[i]]
    BY <1>2, <2>0 DEF Reuse
  <2>2. a # b /\ root[a] = a /\ root[b] = b
    BY <1>1, <1>2, <2>0, BestIsReusable DEF Reuse, Reusable, ReuseInv, Untouched
  <2>3. alias[a] = NoAlias /\ alias[b] = NoAlias
    BY <2>2 DEF AliasInv
  <2>4. ASSUME NEW i \in Ids
        PROVE  /\ alias'[i] = NoAlias <=> root'[i] = i
               /\ alias'[i] # NoAlias =>
                    /\ i < later' /\ root'[alias'[i]] = root'[i]
                    /\ alias'[alias'[i]] # NoAlias => i < alias'[i]
    <3>1. CASE i = b
      <4>1. alias'[i] = a /\ root'[i] = a /\ root'[a] = a /\ alias'[a] = NoAlias
        BY <1>1, <2>1, <2>2, <2>3, <3>1
      <4>2. i < later'
        BY <1>1, <2>0, <2>1, <3>1
      <4>3. QED
        BY <1>1, <2>2, <3>1, <4>1, <4>2
    <3>2. CASE i # b
      <4>1. alias'[i] = alias[i] /\ root'[i] = (IF root[i] = b THEN a ELSE root[i])
        BY <1>1, <2>1, <3>2
      <4>2. alias[i] = NoAlias <=> root'[i] = i
        <5>1. CASE root[i] = b
          BY <2>2, <3>2, <4>1, <5>1 DEF AliasInv
        <5>2. CASE root[i] # b
          BY <4>1, <5>2 DEF AliasInv
        <5>3. QED
          BY <5>1, <5>2
      <4>3. ASSUME alias[i] # NoAlias
            PROVE  /\ i < later' /\ root'[alias[i]] = root'[i]
                   /\ alias'[alias[i]] # NoAlias => i < alias[i]
        <5>1. alias[i] \in Ids /\ i < b /\ root[alias[i]] = root[i]
          BY <1>1, <2>0, <4>3 DEF AliasInv
        <5>2. i < later'
          BY <1>1, <2>1, <5>1
        <5>3. root'[alias[i]] = root'[i]
          BY <2>1, <4>1, <5>1
        <5>4. alias[i] # b => alias'[alias[i]] = alias[alias[i]]
          BY <1>1, <2>1, <5>1
        <5>5. QED
          BY <4>3, <5>1, <5>2, <5>3, <5>4 DEF AliasInv
      <4>4. QED
        BY <4>1, <4>2, <4>3
    <3>3. QED
      BY <3>1, <3>2
  <2>5. QED
    BY <1>1, <2>4 DEF AliasInv
<1>3. CASE Keep \/ Order \/ UNCHANGED reuseVars
  <2>1. alias' = alias /\ root' = root /\ later' \in {later, later + 1}
    BY <1>3 DEF Keep, Order, reuseVars
  <2>2. QED
    BY <1>1, <2>1 DEF AliasInv
<1>4. QED
  BY <1>2, <1>3 DEF ReuseNext, ReuseTerminated

\* The walk ends at the root: after as many steps as there are allocations a
\* climbing chain has come to its end.
LEMMA WalksEnd ==
  ASSUME ReuseInv, AliasInv
  PROVE  RootIsWalk
<1> SUFFICES ASSUME NEW i \in Ids PROVE Walk(i) = root[i] /\ alias[root[i]] = NoAlias
  BY DEF RootIsWalk
<1> DEFINE N == Cardinality(Ids)
           Up == [x \in Ids |-> IF alias[x] = NoAlias THEN x ELSE alias[x]]
           Is(g) == g = [k \in 0 .. N |->
                           IF k = 0 THEN i
                           ELSE IF alias[g[k - 1]] = NoAlias THEN g[k - 1] ELSE alias[g[k - 1]]]
<1>1. /\ N \in Nat /\ Ids = 1 .. N
      /\ alias \in [Ids -> Ids \cup {NoAlias}] /\ root \in [Ids -> Ids]
  BY FS_CardinalityType DEF ReuseInv, ReuseTypeOK
<1>2. \E g : Is(g)
  <2>1. Up \in [Ids -> Ids]
    BY <1>1
  <2>2. PICK g \in [0 .. N -> Ids] : g[0] = i /\ \A k \in 1 .. N : g[k] = Up[g[k - 1]]
    <3> HIDE DEF N, Up
    <3>1. \E g \in [0 .. N -> Ids] : Iterates(g, Up, i, N)
      BY <1>1, <2>1, IteratesExist
    <3>2. QED
      BY <3>1 DEF Iterates
  <2>3. ASSUME NEW k \in 0 .. N
        PROVE  g[k] = IF k = 0 THEN i ELSE IF alias[g[k - 1]] = NoAlias THEN g[k - 1] ELSE alias[g[k - 1]]
    <3>1. CASE k = 0
      BY <2>2, <3>1
    <3>2. CASE k # 0
      <4>1. k \in 1 .. N /\ k - 1 \in 0 .. N
        BY <1>1, <3>2
      <4>2. g[k] = Up[g[k - 1]] /\ g[k - 1] \in Ids
        BY <2>2, <4>1
      <4>3. QED
        BY <3>2, <4>2
    <3>3. QED
      BY <3>1, <3>2
  <2>4. Is(g)
    BY <2>3
  <2>5. QED
    BY <2>4
<1>3. ASSUME NEW g, Is(g) PROVE g[N] = root[i] /\ alias[root[i]] = NoAlias
  <2> DEFINE Ok(k) == /\ g[k] \in Ids /\ root[g[k]] = root[i]
                      /\ alias[g[k]] # NoAlias => g[k] >= k + 1
             T == {k \in Nat : k <= N => Ok(k)}
  <2>1. ASSUME NEW k \in 0 .. N
        PROVE  g[k] = IF k = 0 THEN i ELSE IF alias[g[k - 1]] = NoAlias THEN g[k - 1] ELSE alias[g[k - 1]]
    BY <1>3
  <2>2. 0 \in T
    <3>1. g[0] = i
      BY <1>1, <2>1
    <3>2. QED
      BY <1>1, <3>1
  <2>3. ASSUME NEW k \in Nat, k \in T PROVE k + 1 \in T
    <3> SUFFICES ASSUME k + 1 <= N PROVE Ok(k + 1)
      OBVIOUS
    <3>1. k + 1 \in 0 .. N /\ (k + 1) - 1 = k /\ k + 1 # 0 /\ Ok(k)
      BY <1>1, <2>3
    <3>2. g[k + 1] = IF alias[g[k]] = NoAlias THEN g[k] ELSE alias[g[k]]
      BY <2>1, <3>1
    <3>3. CASE alias[g[k]] = NoAlias
      BY <3>1, <3>2, <3>3
    <3>4. CASE alias[g[k]] # NoAlias
      <4>1. g[k] \in Ids /\ g[k + 1] = alias[g[k]] /\ g[k + 1] \in Ids
        BY <1>1, <3>1, <3>2, <3>4
      <4>2. root[g[k + 1]] = root[i] /\ (alias[g[k + 1]] # NoAlias => g[k] < g[k + 1])
        BY <3>1, <3>4, <4>1 DEF AliasInv
      <4>3. g[k] >= k + 1
        BY <3>1, <3>4
      <4>4. QED
        <5>1. g[k] \in Nat /\ g[k + 1] \in Nat
          BY <1>1, <4>1
        <5>2. QED
          BY <4>1, <4>2, <4>3, <5>1
    <3>5. QED
      BY <3>3, <3>4
  <2>4. N \in T
    <3> HIDE DEF T
    <3>1. QED
      BY <1>1, <2>2, <2>3, NaturalsAllIn
  <2>5. Ok(N)
    BY <1>1, <2>4
  <2>6. alias[g[N]] = NoAlias
    BY <1>1, <2>5
  <2>7. root[g[N]] = g[N]
    BY <2>5, <2>6 DEF AliasInv
  <2>8. QED
    BY <2>5, <2>6, <2>7
<1>4. Walk(i) = (CHOOSE g : Is(g))[N]
  BY DEF Walk
<1>5. Is(CHOOSE g : Is(g))
  <2> HIDE DEF Is
  <2>1. QED
    BY <1>2, Zenon
<1>6. QED
  <2> HIDE DEF Is
  <2>1. QED
    BY <1>3, <1>4, <1>5
-----------------------------------------------------------------------------
(* The edges.  Order links each occupant of a buffer to the next one; from an *)
(* occupant to any later one there is a chain of such links.                  *)

EdgesInv ==
  Ordered => \A i, j \in Ids : Neighbours(i, j) => <<alloc[i].end, alloc[j].begin>> \in edges

LEMMA EdgesInit == ReuseInit => EdgesInv
<1> SUFFICES ASSUME ReuseInit PROVE ~Ordered
  BY DEF EdgesInv
<1>1. Cardinality(Ids) \in Nat
  BY ReuseInitInv, FS_CardinalityType DEF ReuseInv, ReuseTypeOK
<1>2. QED
  BY <1>1 DEF ReuseInit, Ordered

LEMMA EdgesNext ==
  ASSUME ReuseInv, EdgesInv, [ReuseNext]_reuseVars
  PROVE  EdgesInv'
<1>1. /\ Ids' = Ids /\ Cardinality(Ids) \in Nat /\ Ids = 1 .. Cardinality(Ids) /\ alloc' = alloc
      /\ root \in [Ids -> Ids]
  BY FS_CardinalityType DEF Ids, ReuseInv, ReuseTypeOK, ReuseNext, Reuse, Keep, Order, ReuseTerminated, reuseVars
<1>2. CASE Reuse \/ Keep
  <2>1. later \in 1 .. Cardinality(Ids) /\ later' = later + 1
    BY <1>1, <1>2 DEF Reuse, Keep
  <2>2. ~Ordered'
    BY <1>1, <2>1 DEF Ordered
  <2>3. QED
    BY <2>2 DEF EdgesInv
<1>3. ASSUME root' = root
      PROVE  \A i, j \in Ids : Neighbours(i, j)' <=> Neighbours(i, j)
  BY <1>1, <1>3 DEF Neighbours, Before, Members
<1>4. CASE Order
  <2>1. ASSUME NEW i \in Ids, NEW j \in Ids, Neighbours(i, j)
        PROVE  <<alloc[i].end, alloc[j].begin>> \in edges'
    <3> DEFINE e == <<i, j>>
    <3>1. e \in {f \in Ids \X Ids : Neighbours(f[1], f[2])} /\ e[1] = i /\ e[2] = j
      BY <2>1
    <3> HIDE DEF e
    <3>2. QED
      BY <1>4, <3>1 DEF Order
  <2>2. root' = root
    BY <1>4 DEF Order
  <2>3. QED
    BY <1>1, <1>3, <2>1, <2>2 DEF EdgesInv
<1>5. CASE UNCHANGED reuseVars
  <2>1. root' = root /\ edges' = edges /\ (Ordered' <=> Ordered)
    BY <1>1, <1>5 DEF reuseVars, Ordered
  <2>2. QED
    BY <1>1, <1>3, <2>1 DEF EdgesInv
<1>6. QED
  BY <1>2, <1>4, <1>5 DEF ReuseNext, ReuseTerminated

\* Of some allocations, one is written first; of those written before another,
\* one is written last.
LEMMA FirstWritten ==
  ASSUME ReuseTypeOK, NEW T, T \subseteq Ids, T # {}
  PROVE  \E j \in T : \A k \in T : ~Before(k, j)
<1>1. Ids \subseteq Nat /\ \A i \in Ids : alloc[i].begin \in Nat
  BY FS_CardinalityType DEF ReuseTypeOK, IsAllocation
<1>2. PICK b \in {alloc[k].begin : k \in T} : \A c \in {alloc[k].begin : k \in T} : b <= c
  BY <1>1, LeastNatural
<1> DEFINE U == {k \in T : alloc[k].begin = b}
<1>3. PICK j \in U : \A k \in U : j <= k
  <2>1. U \subseteq Nat /\ U # {}
    BY <1>1, <1>2
  <2> HIDE DEF U
  <2>2. QED
    BY <2>1, LeastNatural
<1>4. ASSUME NEW k \in T PROVE ~Before(k, j)
  <2>1. b <= alloc[k].begin /\ alloc[k].begin \in Nat /\ b \in Nat /\ k \in Nat /\ j \in Nat
    BY <1>1, <1>2, <1>3
  <2>2. alloc[j].begin = b
    BY <1>3
  <2>3. CASE alloc[k].begin = b
    <3>1. j <= k
      BY <1>3, <2>3
    <3>2. QED
      BY <2>1, <2>2, <2>3, <3>1 DEF Before
  <2>4. CASE alloc[k].begin # b
    BY <2>1, <2>2, <2>4 DEF Before
  <2>5. QED
    BY <2>3, <2>4
<1>5. QED
  BY <1>3, <1>4

LEMMA LastWritten ==
  ASSUME ReuseTypeOK, NEW j \in Ids, NEW T, T \subseteq {k \in Ids : Before(k, j)}, T # {}
  PROVE  \E m \in T : \A k \in T : ~Before(m, k)
<1> DEFINE N == Cardinality(Ids)
           Wait(k) == alloc[j].begin - alloc[k].begin
<1>1. /\ N \in Nat /\ Ids = 1 .. N /\ T \subseteq Ids
      /\ \A i \in Ids : alloc[i].begin \in Nat
  BY FS_CardinalityType DEF ReuseTypeOK, IsAllocation
<1>2. \A k \in T : k \in Ids /\ Wait(k) \in Nat /\ N - k \in Nat
  BY <1>1 DEF Before
<1> HIDE DEF N
<1>3. PICK b \in {Wait(k) : k \in T} : \A c \in {Wait(k) : k \in T} : b <= c
  <2> HIDE DEF Wait
  <2>1. {Wait(k) : k \in T} \subseteq Nat /\ {Wait(k) : k \in T} # {}
    BY <1>2
  <2>2. QED
    BY <2>1, LeastNatural
<1> DEFINE U == {k \in T : Wait(k) = b}
<1>4. PICK d \in {N - k : k \in U} : \A c \in {N - k : k \in U} : d <= c
  <2>1. {N - k : k \in U} \subseteq Nat /\ {N - k : k \in U} # {}
    BY <1>2, <1>3
  <2> HIDE DEF U
  <2>2. QED
    BY <2>1, LeastNatural
<1>5. PICK m \in U : d = N - m
  BY <1>4
<1>6. ASSUME NEW k \in T PROVE ~Before(m, k)
  <2>1. b <= Wait(k) /\ Wait(m) = b
    BY <1>3, <1>5
  <2>2. /\ alloc[k].begin \in Nat /\ alloc[m].begin \in Nat /\ alloc[j].begin \in Nat
        /\ k \in Nat /\ m \in Nat
    BY <1>1, <1>5
  <2>3. CASE Wait(k) = b
    <3>1. N - m <= N - k
      BY <1>4, <1>5, <2>3
    <3>2. QED
      BY SMTT(30), <1>1, <2>1, <2>2, <2>3, <3>1 DEF Before
  <2>4. CASE Wait(k) # b
    BY <2>1, <2>2, <2>4 DEF Before
  <2>5. QED
    BY <2>3, <2>4
<1>7. QED
  BY <1>5, <1>6

\* An occupant left behind by the links would have a last occupant before it,
\* and that one is linked to it.
LEMMA EdgesReach ==
  ASSUME ReuseInv, EdgesInv
  PROVE  EdgesChain
<1> SUFFICES ASSUME Ordered, NEW i \in Ids, NEW j \in Ids, root[i] = root[j], Before(i, j),
                    NEW S \in SUBSET Ids, i \in S, \A a \in S, b \in Ids : Linked(a, b) => b \in S,
                    j \notin S
             PROVE  FALSE
  BY DEF EdgesChain
<1> DEFINE Buffer == Members(root[i])
<1>1. ReuseTypeOK /\ Buffer \subseteq Ids /\ (\A k \in Ids : k \in Buffer <=> root[k] = root[i])
  BY DEF ReuseInv, Members
<1>2. Ids \subseteq Nat /\ \A k \in Ids : alloc[k].begin \in Nat
  BY FS_CardinalityType DEF ReuseInv, ReuseTypeOK, IsAllocation
<1> HIDE DEF Buffer
<1>3. PICK t \in {k \in Buffer \ S : Before(i, k)} : \A k \in {k \in Buffer \ S : Before(i, k)} : ~Before(k, t)
  <2> DEFINE T == {k \in Buffer \ S : Before(i, k)}
  <2>1. T \subseteq Ids /\ T # {}
    BY <1>1
  <2> HIDE DEF T
  <2>2. \E x \in T : \A k \in T : ~Before(k, x)
    BY <1>1, <2>1, FirstWritten
  <2>3. QED
    BY <2>2 DEF T
<1>4. t \in Ids /\ t \in Buffer /\ t \notin S /\ Before(i, t)
  BY <1>1, <1>3
<1>5. PICK m \in {k \in Buffer \cap S : Before(k, t)} : \A k \in {k \in Buffer \cap S : Before(k, t)} : ~Before(m, k)
  <2> DEFINE T == {k \in Buffer \cap S : Before(k, t)}
  <2>1. T \subseteq {k \in Ids : Before(k, t)} /\ T # {}
    BY <1>1, <1>4
  <2> HIDE DEF T
  <2>2. \E x \in T : \A k \in T : ~Before(x, k)
    BY <1>1, <1>4, <2>1, LastWritten
  <2>3. QED
    BY <2>2 DEF T
<1>6. m \in Ids /\ m \in Buffer /\ m \in S /\ Before(m, t)
  BY <1>1, <1>5
<1>7. \A a, b, c \in Ids : Before(a, b) /\ Before(b, c) => Before(a, c)
  BY <1>2 DEF Before
<1>8. ASSUME NEW a \in Ids, NEW b \in Ids PROVE a = b \/ Before(a, b) \/ Before(b, a)
  <2>1. a \in Nat /\ b \in Nat /\ alloc[a].begin \in Nat /\ alloc[b].begin \in Nat
    BY <1>2
  <2>2. QED
    BY <2>1 DEF Before
<1>9. ~Before(m, i)
  BY <1>1, <1>4, <1>5
<1>10. Neighbours(m, t)
  <2>1. ASSUME NEW k \in Ids, k \in Buffer, Before(m, k), Before(k, t) PROVE FALSE
    <3>1. k \notin S
      BY <1>5, <2>1
    <3>2. Before(i, k)
      BY <1>6, <1>7, <1>8, <1>9, <2>1
    <3>3. QED
      BY <1>3, <2>1, <3>1, <3>2
  <2>2. root[m] = root[t] /\ Members(root[m]) = Buffer
    BY <1>1, <1>4, <1>6 DEF Buffer
  <2>3. QED
    BY <1>1, <1>6, <2>1, <2>2 DEF Neighbours
<1>11. Linked(m, t)
  BY <1>4, <1>6, <1>10 DEF EdgesInv, Linked, Neighbours
<1>12. QED
  BY <1>4, <1>6, <1>11
-----------------------------------------------------------------------------
\* The pass leaves the list well typed: every alias names an allocation of the
\* list, for every list finalizeStoragePlan can build.
THEOREM ReuseTypes == ReuseSpec => []ReuseTypeOK
<1>1. ReuseInv => ReuseTypeOK
  BY DEF ReuseInv
<1>2. QED
  BY <1>1, ReuseInitInv, ReuseNextInv, PTL DEF ReuseSpec

\* Two allocations that share a buffer are separated in the step order, for
\* every list: the check against the ends of all occupants is enough, even when
\* a buffer with occupants is itself taken over.
THEOREM SharingIsSeparated == ReuseSpec => []OccupantsDisjoint
<1>1. ReuseInv => OccupantsDisjoint
  BY DEF ReuseInv
<1>2. QED
  BY <1>1, ReuseInitInv, ReuseNextInv, PTL DEF ReuseSpec

\* A shared buffer fits all its occupants and is not borrowed.
THEOREM SharedBufferFits == ReuseSpec => []BufferFits
<1>1. ReuseInv => BufferFits
  BY DEF ReuseInv
<1>2. QED
  BY <1>1, ReuseInitInv, ReuseNextInv, PTL DEF ReuseSpec

\* The result of the reuse pass is usable, for every list: every chain of
\* aliases ends at the buffer's owner, the buffer fits and keeps its occupants
\* apart, and the edges merged into the step order lead from every occupant to
\* every later one.
THEOREM ReuseIsSound == ReuseSpec => []ReuseSound
<1> DEFINE I == ReuseInv /\ AliasInv /\ EdgesInv
<1>1. I => ReuseSound
  BY WalksEnd, EdgesReach DEF ReuseInv, ReuseSound
<1>2. ReuseInit => I
  BY ReuseInitInv, AliasInit, EdgesInit
<1>3. I /\ [ReuseNext]_reuseVars => I'
  BY ReuseNextInv, AliasNext, EdgesNext
<1> HIDE DEF I
<1>4. QED
  BY <1>1, <1>2, <1>3, PTL DEF ReuseSpec
=============================================================================
