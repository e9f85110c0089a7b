----------------------------- MODULE ThreadPool -----------------------------
(***************************************************************************)
(* The worker pool of runtime/ThreadPool.cpp: parallelFor hands out tiles  *)
(* from an atomic cursor to the pool's workers and to the calling thread,  *)
(* the workers sleep on cv_work_ between jobs, the caller sleeps on        *)
(* cv_done_ until every worker has reported, and the destructor wakes and  *)
(* joins the workers.                                                      *)
(*                                                                         *)
(* A step is what a thread does between two accesses another thread can    *)
(* observe.  cv.wait(lock, pred) is four steps (take the mutex, evaluate   *)
(* the predicate, release-and-sleep, wake up), since a notification that   *)
(* falls between two of them is what loses wakeups.                        *)
(***************************************************************************)
EXTENDS Integers, FiniteSets

CONSTANTS Workers,      \* the pool's threads, num_workers_ of them
          Caller,       \* the thread that owns the pool and calls parallelFor
          Free,         \* no thread holds mutex_
          Jobs,         \* arguments of parallelFor: [total : Int, grain : Int]
          MaxInt,       \* INT64_MAX, the largest value of next_tile_
          MaxCalls,     \* bound: parallelFor calls in the life of a pool
          MaxSpurious   \* bound: wakeups of a condition variable nobody asked for

ASSUME PoolAssumption ==
  /\ IsFiniteSet(Workers) /\ Workers # {}
  /\ Caller \notin Workers /\ Free \notin Workers /\ Free # Caller
  /\ MaxInt \in Nat /\ MaxCalls \in Nat /\ MaxSpurious \in Nat
  /\ \A j \in Jobs : /\ DOMAIN j = {"total", "grain"}
                     /\ j.total \in Int /\ j.total <= MaxInt
                     /\ j.grain \in Int /\ j.grain <= MaxInt

Threads == Workers \cup {Caller}
Tile    == (-MaxInt - 1) .. MaxInt       \* int64_t
NoFrame == 0                             \* callback_ == nullptr

VARIABLES
  pc,         \* where each thread is
  mutex,      \* the holder of mutex_, or Free
  running,    \* running_[i], which the destructor clears for all i at once
  done,       \* worker_done_[i]
  callback,   \* callback_: the number of the call whose frame it points into
  next,       \* next_tile_
  total,      \* total_tiles_
  grain,      \* grain_size_
  cur, end,   \* each thread's chunk: the tile to run next and the chunk's end
  calls,      \* parallelFor calls so far
  spurious,   \* spurious wakeups so far
  hits        \* history: how often the callback ran on each tile in this job

vars == <<pc, mutex, running, done, callback, next, total, grain, cur, end,
          calls, spurious, hits>>

jobVars  == <<next, total, grain, calls>>
tileVars == <<cur, end, hits>>

Goto(p, label) == pc' = [pc EXCEPT ![p] = label]

\* int64_t addition as std::atomic performs it.
Wrap(n) == IF n > MaxInt THEN n - 2 * (MaxInt + 1) ELSE n

MinOf(a, b) == IF a <= b THEN a ELSE b

Init ==
  /\ pc = [p \in Threads |-> IF p = Caller THEN "idle" ELSE "test"]
  /\ mutex = Free /\ running = TRUE /\ done = [w \in Workers |-> FALSE]
  /\ callback = NoFrame
  /\ next = 0 /\ total = 0 /\ grain = 0
  /\ cur = [p \in Threads |-> 0] /\ end = [p \in Threads |-> 0]
  /\ calls = 0 /\ spurious = 0 /\ hits = [t \in Tile |-> 0]

-----------------------------------------------------------------------------
(* Steps shared by the workers and the caller.                             *)

\* Both waits, and the re-acquisition after a wakeup, take mutex_ first.
Acquire(p) ==
  /\ pc[p] = "lock" /\ mutex = Free
  /\ mutex' = p /\ Goto(p, "pred")
  /\ UNCHANGED <<running, done, callback, jobVars, tileVars, spurious>>

\* The predicate was false: release mutex_ and sleep, atomically.
Block(p) ==
  /\ pc[p] = "block"
  /\ mutex' = Free /\ Goto(p, "asleep")
  /\ UNCHANGED <<running, done, callback, jobVars, tileVars, spurious>>

\* std::condition_variable may wake a waiter nobody notified.
SpuriousWake(p) ==
  /\ pc[p] = "asleep" /\ spurious < MaxSpurious
  /\ spurious' = spurious + 1 /\ Goto(p, "lock")
  /\ UNCHANGED <<mutex, running, done, callback, jobVars, tileVars>>

\* Where a thread goes once the cursor has run past the job's last tile.
AfterLoop(p) == IF p = Caller THEN "lock" ELSE "finish"

\* MUTANT of ChunkEnds: forget to clip the last chunk to total_tiles_.
ChunkEndsUnclipped(start) == {start + grain}

\* start + grain_size_ is a plain signed addition: where it overflows, the
\* build may wrap it or compute the exact sum.
ChunkEnds(start) == {MinOf(start + grain, total), MinOf(Wrap(start + grain), total)}

\* start = next_tile_.fetch_add(grain_size_), and the loop test.
Fetch(p) ==
  /\ pc[p] = "fetch"
  /\ next' = Wrap(next + grain)
  /\ \/ /\ next >= total
        /\ Goto(p, AfterLoop(p))
        /\ UNCHANGED <<cur, end>>
     \/ /\ next < total
        /\ \E e \in ChunkEnds(next) :
             /\ cur' = [cur EXCEPT ![p] = next]
             /\ end' = [end EXCEPT ![p] = e]
             /\ Goto(p, IF next < e THEN "run" ELSE "fetch")
  /\ UNCHANGED <<mutex, running, done, callback, total, grain, calls, hits, spurious>>

\* One call of the callback and the increment of t.
RunTile(p) ==
  /\ pc[p] = "run"
  /\ hits' = [hits EXCEPT ![cur[p]] = @ + 1]
  /\ cur' = [cur EXCEPT ![p] = @ + 1]
  /\ Goto(p, IF cur[p] + 1 < end[p] THEN "run" ELSE "fetch")
  /\ UNCHANGED <<mutex, running, done, callback, jobVars, end, spurious>>

-----------------------------------------------------------------------------
(* workerLoop                                                              *)

\* while (running_[worker_id])
Test(w) ==
  /\ pc[w] = "test"
  /\ Goto(w, IF running THEN "lock" ELSE "stopped")
  /\ UNCHANGED <<mutex, running, done, callback, jobVars, tileVars, spurious>>

\* MUTANT of WorkerReady: forget that this worker has finished the job.
WorkerReadyIgnoringDone(w) == ~running \/ callback # NoFrame

\* The predicate of cv_work_.wait.
WorkerReady(w) == ~running \/ (callback # NoFrame /\ ~done[w])

\* Evaluate it; leave the loop, start on the job, or get ready to sleep.
WorkerPred(w) ==
  /\ pc[w] = "pred"
  /\ \/ /\ WorkerReady(w)
        /\ mutex' = Free
        /\ Goto(w, IF running THEN "fetch" ELSE "stopped")
     \/ /\ ~WorkerReady(w)
        /\ Goto(w, "block")
        /\ UNCHANGED mutex
  /\ UNCHANGED <<running, done, callback, jobVars, tileVars, spurious>>

\* MUTANT of MayReport: set worker_done_ without taking mutex_.
MayReportUnlocked(w) == pc[w] = "finish"

\* A worker reports with mutex_ held.
MayReport(w) == pc[w] = "finish" /\ mutex = Free

\* worker_done_ = true and cv_done_.notify_one(), which only the caller awaits.
Finish(w) ==
  /\ MayReport(w)
  /\ done' = [done EXCEPT ![w] = TRUE]
  /\ pc' = [pc EXCEPT ![w] = "test",
                      ![Caller] = IF @ = "asleep" THEN "lock" ELSE @]
  /\ UNCHANGED <<mutex, running, callback, jobVars, tileVars, spurious>>

-----------------------------------------------------------------------------
(* parallelFor                                                             *)

\* The early return, or the three stores made before mutex_ is taken.
ParallelFor(j) ==
  /\ pc[Caller] = "idle" /\ calls < MaxCalls
  /\ calls' = calls + 1
  /\ \/ /\ j.total <= 0
        /\ UNCHANGED <<pc, next, total, grain, hits>>
     \/ /\ j.total > 0
        /\ total' = j.total
        /\ grain' = IF j.grain < 1 THEN 1 ELSE j.grain
        /\ next' = 0
        /\ hits' = [t \in Tile |-> 0]
        /\ Goto(Caller, "publish")
  /\ UNCHANGED <<mutex, running, done, callback, cur, end, spurious>>

ResetDone == [w \in Workers |-> FALSE]

\* The locked block that clears worker_done_ and sets callback_.
Publish ==
  /\ pc[Caller] = "publish" /\ mutex = Free
  /\ done' = ResetDone
  /\ callback' = calls
  /\ Goto(Caller, "notify")
  /\ UNCHANGED <<mutex, running, jobVars, tileVars, spurious>>

\* cv_work_.notify_all()
WakeWorkers(label) ==
  pc' = [p \in Threads |-> IF p = Caller THEN label
                           ELSE IF pc[p] = "asleep" THEN "lock" ELSE pc[p]]

NotifyWork ==
  /\ pc[Caller] = "notify"
  /\ WakeWorkers("fetch")
  /\ UNCHANGED <<mutex, running, done, callback, jobVars, tileVars, spurious>>

\* MUTANT of AllReported: the caller only waits for some worker.
AllReportedSome == \E w \in Workers : done[w]

\* The predicate of cv_done_.wait.
AllReported == \A w \in Workers : done[w]

\* Return from parallelFor, or get ready to sleep.
CallerPred ==
  /\ pc[Caller] = "pred"
  /\ \/ /\ AllReported
        /\ callback' = NoFrame /\ mutex' = Free
        /\ Goto(Caller, "idle")
     \/ /\ ~AllReported
        /\ Goto(Caller, "block")
        /\ UNCHANGED <<callback, mutex>>
  /\ UNCHANGED <<running, done, jobVars, tileVars, spurious>>

-----------------------------------------------------------------------------
(* ~ThreadPool                                                             *)

\* MUTANT of MayStop: clear running_ without taking mutex_.
MayStopUnlocked == pc[Caller] = "idle"

MayStop == pc[Caller] = "idle" /\ mutex = Free

\* running_[i] = false under mutex_.
Stop ==
  /\ MayStop
  /\ running' = FALSE
  /\ Goto(Caller, "wake")
  /\ UNCHANGED <<mutex, done, callback, jobVars, tileVars, spurious>>

NotifyStop ==
  /\ pc[Caller] = "wake"
  /\ WakeWorkers("join")
  /\ UNCHANGED <<mutex, running, done, callback, jobVars, tileVars, spurious>>

Join ==
  /\ pc[Caller] = "join" /\ \A w \in Workers : pc[w] = "stopped"
  /\ Goto(Caller, "destroyed")
  /\ UNCHANGED <<mutex, running, done, callback, jobVars, tileVars, spurious>>

\* The end of the pool's life, so that any other halt counts as a deadlock.
Gone == pc[Caller] = "destroyed" /\ UNCHANGED vars

-----------------------------------------------------------------------------
WorkerStep(w) == Test(w) \/ Acquire(w) \/ WorkerPred(w) \/ Block(w)
                 \/ Fetch(w) \/ RunTile(w) \/ Finish(w)

\* What the caller does inside a call; calls themselves are the client's choice.
CallerStep == Publish \/ NotifyWork \/ Fetch(Caller) \/ RunTile(Caller)
              \/ Acquire(Caller) \/ CallerPred \/ Block(Caller)
              \/ NotifyStop \/ Join

Next ==
  \/ \E w \in Workers : WorkerStep(w)
  \/ CallerStep
  \/ \E p \in Threads : SpuriousWake(p)
  \/ \E j \in Jobs : ParallelFor(j)
  \/ Stop
  \/ Gone

Spec == Init /\ [][Next]_vars

\* Every thread the operating system schedules keeps taking steps.  Calls and
\* spurious wakeups are not forced to happen.
FairSpec == Spec /\ WF_vars(CallerStep) /\ \A w \in Workers : WF_vars(WorkerStep(w))
-----------------------------------------------------------------------------
(* Properties                                                              *)

WorkerLabels == {"test", "lock", "pred", "block", "asleep", "fetch", "run",
                 "finish", "stopped"}
FrameLabels  == {"publish", "notify", "fetch", "run", "lock", "pred", "block",
                 "asleep"}
CallerLabels == FrameLabels \cup {"idle", "wake", "join", "destroyed"}

\* The caller is inside a parallelFor that did not return early.
InFrame == pc[Caller] \in FrameLabels

\* No fetch_add of the job takes next_tile_ beyond INT64_MAX: the last chunk
\* and the one surplus fetch of each participant stay representable.
JobFits == total - 1 + (Cardinality(Workers) + 2) * grain <= MaxInt

\* Type invariant: in particular next_tile_ and the chunk bounds are int64_t.
TypeOK ==
  /\ pc \in [Threads -> WorkerLabels \cup CallerLabels]
  /\ pc[Caller] \in CallerLabels
  /\ \A w \in Workers : pc[w] \in WorkerLabels
  /\ mutex \in Threads \cup {Free}
  /\ running \in BOOLEAN /\ done \in [Workers -> BOOLEAN]
  /\ callback \in 0 .. MaxCalls /\ calls \in 0 .. MaxCalls
  /\ spurious \in 0 .. MaxSpurious
  /\ next \in Tile /\ total \in 0 .. MaxInt /\ grain \in 0 .. MaxInt
  /\ cur \in [Threads -> Tile] /\ end \in [Threads -> Tile]
  /\ hits \in [Tile -> Nat]

\* When parallelFor has returned, its callback has run exactly once on each of
\* the job's tiles and on no other value, however the chunks were divided
\* between the workers and the caller.
ExactlyOnce ==
  pc[Caller] = "idle" /\ JobFits =>
    \A t \in Tile : hits[t] = IF t \in 0 .. total - 1 THEN 1 ELSE 0

\* A worker that reads total_tiles_, grain_size_ or *callback_ (all without
\* mutex_) does so while the call that wrote them is still on the caller's
\* stack: parallelFor's std::function parameter is never used after it dies,
\* and the next call's stores never race with a straggler of the last one.
FrameAlive ==
  \A w \in Workers : pc[w] \in {"fetch", "run", "finish"} =>
    /\ pc[Caller] \in FrameLabels \ {"publish"}
    /\ callback = calls
    /\ ~done[w]

\* Every parallelFor returns: neither a worker's report nor the publication of
\* a job is lost between a predicate check and the sleep that follows it.
Returns == InFrame ~> pc[Caller] = "idle"

\* The destructor returns: every worker sees running_ = false, also one that
\* was on its way into the wait.
ShutsDown == ~running ~> pc[Caller] = "destroyed"

\* The pool implements the fork-join contract, for jobs that fit.
FJ == INSTANCE ForkJoin WITH active <- InFrame, ran <- hits, closed <- ~running
ForkJoinSpec == FJ!Spec
=============================================================================
