----------------------------- MODULE PoolBarrier -----------------------------
(***************************************************************************)
(* ThreadPool::barrier of runtime/ThreadPool.cpp: a central counter and an *)
(* epoch.  The last of barrier_target_ arrivals advances the epoch and     *)
(* then, in a second store, clears the counter; the others spin until the  *)
(* epoch they read on entry has passed.  A multi-phase kernel calls the    *)
(* barrier once per phase from the same threads.                           *)
(***************************************************************************)
EXTENDS Integers, FiniteSets

CONSTANTS Participants,  \* the threads that meet, barrier_target_ of them
          MaxPhases      \* bound: phases, that is barrier calls per thread

VARIABLES pc,       \* where each thread is
          epoch,    \* barrier_epoch_
          count,    \* barrier_count_
          seen,     \* each thread's local epoch
          reached,  \* history: how many barriers each thread has arrived at
          passed    \* history: how many barriers each thread has left

vars == <<pc, epoch, count, seen, reached, passed>>

Init ==
  /\ pc = [p \in Participants |-> "compute"]
  /\ epoch = 0 /\ count = 0
  /\ seen    = [p \in Participants |-> 0]
  /\ reached = [p \in Participants |-> 0]
  /\ passed  = [p \in Participants |-> 0]

\* int epoch = barrier_epoch_.load()
Enter(p) ==
  /\ pc[p] = "compute" /\ passed[p] < MaxPhases
  /\ seen' = [seen EXCEPT ![p] = epoch]
  /\ pc' = [pc EXCEPT ![p] = "arrive"]
  /\ UNCHANGED <<epoch, count, reached, passed>>

\* fetch_add(1) + 1 == barrier_target_
IsLast == count + 1 = Cardinality(Participants)

Arrive(p) ==
  /\ pc[p] = "arrive"
  /\ count' = count + 1
  /\ reached' = [reached EXCEPT ![p] = @ + 1]
  /\ pc' = [pc EXCEPT ![p] = IF IsLast THEN "advance" ELSE "spin"]
  /\ UNCHANGED <<epoch, seen, passed>>

\* barrier_epoch_++
Advance(p) ==
  /\ pc[p] = "advance"
  /\ epoch' = epoch + 1
  /\ pc' = [pc EXCEPT ![p] = "reset"]
  /\ UNCHANGED <<count, seen, reached, passed>>

\* barrier_count_ = 0, and the last arriver leaves.
Reset(p) ==
  /\ pc[p] = "reset"
  /\ count' = 0
  /\ passed' = [passed EXCEPT ![p] = @ + 1]
  /\ pc' = [pc EXCEPT ![p] = "compute"]
  /\ UNCHANGED <<epoch, seen, reached>>

\* while (barrier_epoch_.load() == epoch) yield, and the others leave.
Leave(p) ==
  /\ pc[p] = "spin" /\ epoch # seen[p]
  /\ passed' = [passed EXCEPT ![p] = @ + 1]
  /\ pc' = [pc EXCEPT ![p] = "compute"]
  /\ UNCHANGED <<epoch, count, seen, reached>>

Step(p) == Enter(p) \/ Arrive(p) \/ Advance(p) \/ Reset(p) \/ Leave(p)

Next == \E p \in Participants : Step(p)

Spec == Init /\ [][Next]_vars

\* Every participant runs all phases of its kernel and is scheduled.
FairSpec == Spec /\ \A p \in Participants : WF_vars(Step(p))
-----------------------------------------------------------------------------
\* A barrier that every participant calls releases every participant.
Releases ==
  \A p \in Participants : \A n \in 1 .. MaxPhases :
    reached[p] = n ~> passed[p] = n
=============================================================================
