------------------------------ MODULE ForkJoin ------------------------------
(***************************************************************************)
(* What a parallel-for promises its caller, without threads, locks or      *)
(* chunks: between the call and the return every tile of the job runs      *)
(* exactly once and nothing else runs, and the pool is closed only between *)
(* jobs.  ThreadPool is shown to implement this module.                    *)
(***************************************************************************)
EXTENDS Integers

CONSTANT Tile               \* the tile ids a callback can be handed

VARIABLES active,           \* a parallelFor call is in progress
          total,            \* its number of tiles
          ran,              \* how often each tile of the last job has run
          closed            \* the pool has been shut down

vars == <<active, total, ran, closed>>

NothingRan == [t \in Tile |-> 0]

Init == active = FALSE /\ total = 0 /\ ran = NothingRan /\ closed = FALSE

\* A call that has work to do.
Begin(n) ==
  /\ ~active /\ ~closed
  /\ active' = TRUE /\ total' = n /\ ran' = NothingRan
  /\ UNCHANGED closed

\* Some thread runs one tile that has not run yet.
Run(t) ==
  /\ active
  /\ t \in 0 .. total - 1
  /\ ran[t] = 0
  /\ ran' = [ran EXCEPT ![t] = 1]
  /\ UNCHANGED <<active, total, closed>>

\* The call returns; by then all of its tiles have run.
Return ==
  /\ active
  /\ \A t \in 0 .. total - 1 : ran[t] = 1
  /\ active' = FALSE
  /\ UNCHANGED <<total, ran, closed>>

Close ==
  /\ ~active /\ ~closed
  /\ closed' = TRUE
  /\ UNCHANGED <<active, total, ran>>

Next == (\E n \in Tile : n > 0 /\ Begin(n)) \/ (\E t \in Tile : Run(t)) \/ Return \/ Close

Spec == Init /\ [][Next]_vars
=============================================================================
