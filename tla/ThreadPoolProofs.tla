-------------------------- MODULE ThreadPoolProofs --------------------------
(***************************************************************************)
(* Proofs about ThreadPool for any number of workers, any jobs and any     *)
(* integer width.                                                          *)
(***************************************************************************)
EXTENDS ThreadPool, FiniteSetTheorems, TLAPS

USE DEF Goto, jobVars, tileVars, Threads, Tile

(***************************************************************************)
(* A thread inside the callback loop has a tile left in its chunk; this is *)
(* what keeps the loop counter within int64_t.                             *)
(***************************************************************************)
ChunkOpen == \A p \in Threads : pc[p] = "run" => cur[p] < end[p]

TypeInv == TypeOK /\ ChunkOpen

\* What PoolAssumption says of the constants other than Jobs.
LEMMA ConstantTypes ==
  /\ Caller \notin Workers /\ Free \notin Workers /\ Free # Caller
  /\ MaxInt \in Nat /\ MaxCalls \in Nat /\ MaxSpurious \in Nat
BY PoolAssumption

\* What PoolAssumption says of a job.
LEMMA JobTypes ==
  ASSUME NEW j \in Jobs
  PROVE  j.total \in Int /\ j.total <= MaxInt /\ j.grain \in Int /\ j.grain <= MaxInt
BY PoolAssumption

\* Fetching a chunk keeps the cursor and the chunk in int64_t.
LEMMA FetchType ==
  ASSUME TypeInv, NEW p \in Threads, Fetch(p)
  PROVE  TypeInv'
<1>0. /\ next \in Tile /\ total \in 0 .. MaxInt /\ grain \in 0 .. MaxInt
      /\ next \in Int /\ total \in Int /\ MaxInt \in Nat
  BY ConstantTypes DEF TypeInv, TypeOK
<1>1. next' \in Tile
  BY <1>0 DEF Fetch, Wrap
<1>2. CASE next >= total
  <2>1. Goto(p, AfterLoop(p)) /\ UNCHANGED <<cur, end>>
    BY <1>0, <1>2 DEF Fetch
  <2>2. QED
    BY <1>1, <2>1, ConstantTypes DEF Fetch, AfterLoop, TypeInv, TypeOK, ChunkOpen,
       WorkerLabels, CallerLabels, FrameLabels
<1>3. CASE ~(next >= total)
  <2> DEFINE Chunk(e) == /\ cur' = [cur EXCEPT ![p] = next]
                         /\ end' = [end EXCEPT ![p] = e]
                         /\ pc' = [pc EXCEPT ![p] = IF next < e THEN "run" ELSE "fetch"]
  <2>1. \E e \in ChunkEnds(next) : Chunk(e)
    BY <1>3 DEF Fetch
  <2>2. PICK e \in ChunkEnds(next) : Chunk(e)
    BY <2>1
  <2>3. e \in Tile
    BY <1>0, <1>3 DEF ChunkEnds, MinOf, Wrap
  <2>4. UNCHANGED <<mutex, running, done, callback, total, grain, calls, hits, spurious>>
    BY DEF Fetch
  <2>5. QED
    BY <1>0, <1>1, <2>2, <2>3, <2>4, ConstantTypes DEF TypeInv, TypeOK, ChunkOpen,
       WorkerLabels, CallerLabels, FrameLabels
<1>4. QED
  BY <1>2, <1>3

\* Running a tile keeps the loop counter in int64_t.
LEMMA RunTileType ==
  ASSUME TypeInv, NEW p \in Threads, RunTile(p)
  PROVE  TypeInv'
<1>1. /\ cur[p] \in Tile /\ end[p] \in Tile /\ cur[p] < end[p] /\ MaxInt \in Nat
  BY ConstantTypes DEF TypeInv, TypeOK, ChunkOpen, RunTile
<1>2. cur[p] + 1 \in Tile
  BY <1>1
<1>3. cur' \in [Threads -> Tile] /\ hits' \in [Tile -> Nat]
  <2>1. cur' = [cur EXCEPT ![p] = cur[p] + 1] /\ cur \in [Threads -> Tile]
    BY DEF TypeInv, TypeOK, RunTile
  <2>2. hits' = [hits EXCEPT ![cur[p]] = hits[cur[p]] + 1] /\ hits \in [Tile -> Nat]
    BY DEF TypeInv, TypeOK, RunTile
  <2> HIDE DEF Tile
  <2>3. hits[cur[p]] + 1 \in Nat
    BY <1>1, <2>2
  <2>4. QED
    BY <1>2, <2>1, <2>2, <2>3
<1>4. pc' = [pc EXCEPT ![p] = IF cur[p] + 1 < end[p] THEN "run" ELSE "fetch"]
  BY DEF RunTile
<1>5. TypeOK'
  BY ZenonT(30), <1>3, <1>4, ConstantTypes DEF TypeInv, TypeOK, RunTile, WorkerLabels, CallerLabels, FrameLabels
<1>6. ChunkOpen'
  BY <1>1, <1>4 DEF TypeInv, TypeOK, ChunkOpen, RunTile
<1>7. QED
  BY <1>5, <1>6 DEF TypeInv

\* A new job's parameters are within int64_t.
LEMMA ParallelForType ==
  ASSUME TypeInv, NEW j \in Jobs, ParallelFor(j)
  PROVE  TypeInv'
<1>0. /\ j.total \in Int /\ j.grain \in Int /\ j.total <= MaxInt /\ j.grain <= MaxInt
      /\ MaxInt \in Nat /\ MaxCalls \in Nat /\ calls \in 0 .. MaxCalls
  BY JobTypes, ConstantTypes DEF TypeInv, TypeOK
<1>1. calls' \in 0 .. MaxCalls
  BY <1>0 DEF ParallelFor
<1>2. CASE j.total <= 0
  <2>1. UNCHANGED <<pc, next, total, grain, hits>>
    BY <1>0, <1>2 DEF ParallelFor
  <2>2. QED
    BY <1>1, <2>1 DEF ParallelFor, TypeInv, TypeOK, ChunkOpen
<1>3. CASE ~(j.total <= 0)
  <2>1. /\ total' = j.total
        /\ grain' = IF j.grain < 1 THEN 1 ELSE j.grain
        /\ next' = 0
        /\ hits' = [t \in Tile |-> 0]
        /\ pc' = [pc EXCEPT ![Caller] = "publish"]
    BY <1>3 DEF ParallelFor
  <2>2. next' \in Tile /\ total' \in 0 .. MaxInt /\ grain' \in 0 .. MaxInt
    BY <1>0, <1>3, <2>1
  <2>3. hits' \in [Tile -> Nat]
    BY <2>1
  <2>4. QED
    BY <1>1, <2>1, <2>2, <2>3, ConstantTypes DEF ParallelFor, TypeInv, TypeOK, ChunkOpen,
       WorkerLabels, CallerLabels, FrameLabels
<1>4. QED
  BY <1>2, <1>3

\* Every step keeps the type invariant.
LEMMA TypeStep == TypeInv /\ [Next]_vars => TypeInv'
<1> SUFFICES ASSUME TypeInv, [Next]_vars PROVE TypeInv'
  OBVIOUS
<1> USE ConstantTypes DEF TypeInv, TypeOK, ChunkOpen, WorkerLabels, CallerLabels, FrameLabels
<1>1. ASSUME NEW w \in Workers, WorkerStep(w) PROVE TypeInv'
  <2>1. CASE Test(w)        BY <2>1 DEF Test
  <2>2. CASE Acquire(w)     BY <2>2 DEF Acquire
  <2>3. CASE WorkerPred(w)  BY <2>3 DEF WorkerPred
  <2>4. CASE Block(w)       BY <2>4 DEF Block
  <2>5. CASE Fetch(w)       BY <2>5, FetchType
  <2>6. CASE RunTile(w)     BY <2>6, RunTileType
  <2>7. CASE Finish(w)      BY <2>7 DEF Finish, MayReport
  <2>8. QED BY <1>1, <2>1, <2>2, <2>3, <2>4, <2>5, <2>6, <2>7 DEF WorkerStep
<1>2. CASE CallerStep
  <2>1. CASE Publish         BY <2>1 DEF Publish, ResetDone
  <2>2. CASE NotifyWork      BY <2>2 DEF NotifyWork, WakeWorkers
  <2>3. CASE Fetch(Caller)   BY <2>3, FetchType
  <2>4. CASE RunTile(Caller) BY <2>4, RunTileType
  <2>5. CASE Acquire(Caller) BY <2>5 DEF Acquire
  <2>6. CASE CallerPred
    <3>1. callback' \in 0 .. MaxCalls /\ mutex' \in Threads \cup {Free}
      BY <2>6 DEF CallerPred, NoFrame
    <3>2. pc' = [pc EXCEPT ![Caller] = "idle"] \/ pc' = [pc EXCEPT ![Caller] = "block"]
      BY <2>6 DEF CallerPred
    <3>3. QED
      BY <2>6, <3>1, <3>2 DEF CallerPred
  <2>7. CASE Block(Caller)   BY <2>7 DEF Block
  <2>8. CASE NotifyStop      BY <2>8 DEF NotifyStop, WakeWorkers
  <2>9. CASE Join            BY <2>9 DEF Join
  <2>10. QED BY <1>2, <2>1, <2>2, <2>3, <2>4, <2>5, <2>6, <2>7, <2>8, <2>9 DEF CallerStep
<1>3. ASSUME NEW p \in Threads, SpuriousWake(p) PROVE TypeInv'
  BY SMTT(30), <1>3 DEF SpuriousWake
<1>4. ASSUME NEW j \in Jobs, ParallelFor(j) PROVE TypeInv'
  BY <1>4, ParallelForType
<1>5. CASE Stop
  BY <1>5 DEF Stop, MayStop
<1>6. CASE UNCHANGED vars
  BY <1>6 DEF vars
<1>7. QED
  BY <1>1, <1>2, <1>3, <1>4, <1>5, <1>6 DEF Next, Gone

(***************************************************************************)
(* runtime/ThreadPool.cpp keeps every field in its declared type; the tile *)
(* cursor and the chunk bounds never leave int64_t.                        *)
(***************************************************************************)
THEOREM TypeCorrect == Spec => []TypeOK
<1>1. Init => TypeInv
  BY PoolAssumption DEF Init, TypeInv, TypeOK, ChunkOpen, NoFrame, WorkerLabels, CallerLabels, FrameLabels
<1>2. QED
  BY <1>1, TypeStep, PTL DEF Spec, TypeInv

-----------------------------------------------------------------------------
(***************************************************************************)
(* The caller's frame.  callback_ is set exactly while the frame of the    *)
(* call that set it exists, and a worker only gets past its predicate      *)
(* while callback_ is set and it has not reported yet; the caller cannot   *)
(* leave before every worker has reported.                                 *)
(***************************************************************************)
Published == pc[Caller] \in FrameLabels \ {"publish"}

CallbackInv == /\ callback = IF Published THEN calls ELSE NoFrame
               /\ pc[Caller] \in FrameLabels => calls > 0

FrameInv == CallbackInv /\ FrameAlive

LEMMA FrameStep == TypeInv /\ FrameInv /\ [Next]_vars => FrameInv'
<1> SUFFICES ASSUME TypeInv, FrameInv, [Next]_vars PROVE FrameInv'
  OBVIOUS
<1>0. /\ pc \in [Threads -> WorkerLabels \cup CallerLabels]
      /\ done \in [Workers -> BOOLEAN] /\ calls \in Nat /\ Caller \notin Workers
  BY ConstantTypes DEF TypeInv, TypeOK
<1> USE <1>0 DEF FrameInv, CallbackInv, FrameAlive, Published, FrameLabels, NoFrame
<1>1. ASSUME NEW w \in Workers, WorkerStep(w) PROVE FrameInv'
  <2>1. CASE Test(w)        BY <2>1 DEF Test
  <2>2. CASE Acquire(w)     BY <2>2 DEF Acquire
  <2>3. CASE WorkerPred(w)  BY <2>3 DEF WorkerPred, WorkerReady
  <2>4. CASE Block(w)       BY <2>4 DEF Block
  <2>5. CASE Fetch(w)
    <3>1. pc' = [pc EXCEPT ![w] = pc'[w]] /\ pc[w] = "fetch"
      BY <2>5 DEF Fetch, AfterLoop
    <3>2. QED
      BY <2>5, <3>1 DEF Fetch
  <2>6. CASE RunTile(w)
    <3>1. pc' = [pc EXCEPT ![w] = pc'[w]] /\ pc[w] = "run"
      BY <2>6 DEF RunTile
    <3>2. QED
      BY <2>6, <3>1 DEF RunTile
  <2>7. CASE Finish(w)      BY <2>7 DEF Finish, MayReport
  <2>8. QED BY <1>1, <2>1, <2>2, <2>3, <2>4, <2>5, <2>6, <2>7 DEF WorkerStep
<1>2. CASE CallerStep
  <2>1. CASE Publish         BY <2>1 DEF Publish, ResetDone
  <2>2. CASE NotifyWork      BY <2>2 DEF NotifyWork, WakeWorkers
  <2>3. CASE Fetch(Caller)   BY <2>3 DEF Fetch, AfterLoop
  <2>4. CASE RunTile(Caller) BY <2>4 DEF RunTile
  <2>5. CASE Acquire(Caller) BY <2>5 DEF Acquire
  <2>6. CASE CallerPred      BY <2>6 DEF CallerPred, AllReported
  <2>7. CASE Block(Caller)   BY <2>7 DEF Block
  <2>8. CASE NotifyStop      BY <2>8 DEF NotifyStop, WakeWorkers
  <2>9. CASE Join            BY <2>9 DEF Join
  <2>10. QED BY <1>2, <2>1, <2>2, <2>3, <2>4, <2>5, <2>6, <2>7, <2>8, <2>9 DEF CallerStep
<1>3. ASSUME NEW p \in Threads, SpuriousWake(p) PROVE FrameInv'
  BY <1>3 DEF SpuriousWake
<1>4. ASSUME NEW j \in Jobs, ParallelFor(j) PROVE FrameInv'
  BY <1>4, JobTypes DEF ParallelFor
<1>5. CASE Stop
  BY <1>5 DEF Stop, MayStop
<1>6. CASE UNCHANGED vars
  BY <1>6 DEF vars
<1>7. QED
  BY <1>1, <1>2, <1>3, <1>4, <1>5, <1>6 DEF Next, Gone

LEMMA FrameInit == Init => TypeInv /\ FrameInv
BY PoolAssumption DEF Init, TypeInv, TypeOK, ChunkOpen, NoFrame, WorkerLabels, CallerLabels,
   FrameLabels, FrameInv, CallbackInv, FrameAlive, Published

\* The std::function that parallelFor passes to the workers by address, and
\* total_tiles_ and grain_size_, are only used while the call is in progress.
THEOREM FrameOutlivesWorkers == Spec => []FrameAlive
<1>1. TypeInv /\ FrameInv /\ [Next]_vars => (TypeInv /\ FrameInv)'
  BY TypeStep, FrameStep
<1>2. FrameInv => FrameAlive
  BY DEF FrameInv
<1>3. QED
  BY <1>1, <1>2, FrameInit, PTL DEF Spec

-----------------------------------------------------------------------------
(***************************************************************************)
(* The tiles of a job that fits.  A tile below the cursor has run once,    *)
(* unless it is in the chunk some thread still works on; a thread that has *)
(* left the loop saw the cursor at the end.  The cursor cannot wrap:       *)
(* each thread moves it past the end at most once per job.                 *)
(***************************************************************************)
Left(p) == IF p = Caller THEN pc[p] \in {"lock", "pred", "block", "asleep"}
           ELSE pc[p] = "finish" \/ done[p]

AllLeft == {p \in Threads : Left(p)}

Held(p, t) == pc[p] = "run" /\ cur[p] <= t /\ t < end[p]

Chunks == \A p \in Threads : pc[p] = "run" =>
            0 <= cur[p] /\ cur[p] < end[p] /\ end[p] <= total /\ end[p] <= next

Disjoint == \A p, q \in Threads :
  p # q /\ pc[p] = "run" /\ pc[q] = "run" => end[p] <= cur[q] \/ end[q] <= cur[p]

Counted == \A t \in Tile :
  hits[t] = IF 0 <= t /\ t < total /\ t < next /\ ~\E p \in Threads : Held(p, t) THEN 1 ELSE 0

AtEnd == /\ pc[Caller] # "publish" /\ AllLeft # {} => next >= total
         /\ ~InFrame => next >= total

Cursor == /\ 0 <= next
          /\ pc[Caller] = "publish" => next = 0
          /\ InFrame => /\ 1 <= grain /\ 1 <= total
                        /\ next <= total - 1 + (1 + Cardinality(AllLeft)) * grain

WorkInv == JobFits => Chunks /\ Disjoint /\ Counted /\ AtEnd /\ Cursor

\* Types in the form the arithmetic below needs.
LEMMA WorkTypes ==
  ASSUME TypeInv
  PROVE  /\ next \in Int /\ total \in Nat /\ grain \in Nat /\ MaxInt \in Nat
         /\ next \in Tile
         /\ cur \in [Threads -> Int] /\ end \in [Threads -> Int]
         /\ hits \in [Tile -> Nat]
         /\ pc \in [Threads -> WorkerLabels \cup CallerLabels]
         /\ done \in [Workers -> BOOLEAN]
         /\ Caller \notin Workers
BY ConstantTypes DEF TypeInv, TypeOK

\* The threads that have left the loop are finitely many.
LEMMA LeftFinite ==
  /\ IsFiniteSet(Threads) /\ Cardinality(Threads) = Cardinality(Workers) + 1
  /\ Cardinality(Workers) \in Nat
  /\ IsFiniteSet(AllLeft) /\ Cardinality(AllLeft) \in Nat
  /\ Cardinality(AllLeft) <= Cardinality(Workers) + 1
<1>1. IsFiniteSet(Workers) /\ Caller \notin Workers
  BY PoolAssumption
<1>2. /\ IsFiniteSet(Threads) /\ Cardinality(Threads) = Cardinality(Workers) + 1
      /\ Cardinality(Workers) \in Nat
  BY <1>1, FS_AddElement, FS_CardinalityType
<1>3. AllLeft \subseteq Threads
  BY DEF AllLeft
<1> HIDE DEF Threads
<1>4. IsFiniteSet(AllLeft) /\ Cardinality(AllLeft) <= Cardinality(Threads)
  BY <1>2, <1>3, FS_Subset
<1>5. QED
  BY <1>2, <1>4, FS_CardinalityType

\* Steps that move no tile: they neither start nor end a chunk, and no thread
\* enters or leaves the loop, except that the caller may return at the end.
LEMMA QuietStep ==
  ASSUME TypeInv, WorkInv,
         UNCHANGED <<next, total, grain, cur, end, hits>>,
         \A p \in Threads : pc'[p] = "run" <=> pc[p] = "run",
         pc'[Caller] = "publish" <=> pc[Caller] = "publish",
         InFrame' => InFrame,
         InFrame' => \A p \in Threads : Left(p)' <=> Left(p),
         JobFits /\ InFrame /\ ~InFrame' => next >= total
  PROVE  WorkInv'
<1> SUFFICES ASSUME JobFits' PROVE (Chunks /\ Disjoint /\ Counted /\ AtEnd /\ Cursor)'
  BY DEF WorkInv
<1>1. JobFits /\ Chunks /\ Disjoint /\ Counted /\ AtEnd /\ Cursor
  BY DEF WorkInv, JobFits
<1>2. Chunks' /\ Disjoint'
  BY <1>1 DEF Chunks, Disjoint
<1>3. Counted'
  BY <1>1 DEF Counted, Held
<1>4. InFrame' => AllLeft' = AllLeft
  BY DEF AllLeft
<1>5. ~InFrame' => next >= total
  BY <1>1 DEF AtEnd
<1>6. AtEnd'
  BY <1>1, <1>4, <1>5 DEF AtEnd
<1>7. Cursor'
  BY <1>1, <1>4 DEF Cursor
<1>8. QED
  BY <1>2, <1>3, <1>6, <1>7

\* Multiplication by a grain.
LEMMA GrainTimes ==
  ASSUME NEW g \in Nat, NEW a \in Nat, NEW b \in Nat, a <= b
  PROVE  a * g <= b * g /\ (a + 1) * g = a * g + g /\ 0 <= a * g
OBVIOUS

\* A fetching thread is inside the loop of a published job, and the fetch does
\* not take the cursor of a job that fits beyond INT64_MAX.
LEMMA FetchFits ==
  ASSUME TypeInv, FrameInv, WorkInv, JobFits, NEW p \in Threads, pc[p] = "fetch"
  PROVE  /\ Published /\ InFrame /\ ~Left(p)
         /\ next + grain <= total - 1 + (2 + Cardinality(AllLeft)) * grain
         /\ next + grain <= MaxInt
         /\ Wrap(next + grain) = next + grain
<1>0. /\ next \in Int /\ total \in Nat /\ grain \in Nat /\ MaxInt \in Nat
  BY WorkTypes
<1>1. Published /\ InFrame /\ ~Left(p)
  BY ConstantTypes DEF FrameInv, FrameAlive, Published, InFrame, FrameLabels, Left
<1> DEFINE c == Cardinality(AllLeft)
           n == Cardinality(Workers)
<1>2. c \in Nat /\ n \in Nat /\ c <= n
  <2>1. AllLeft \subseteq Threads \ {p}
    BY <1>1 DEF AllLeft
  <2>2. IsFiniteSet(Threads) /\ Cardinality(Threads) = n + 1 /\ n \in Nat
    BY LeftFinite
  <2> HIDE DEF Threads, n
  <2>3. IsFiniteSet(Threads \ {p}) /\ Cardinality(Threads \ {p}) = Cardinality(Threads) - 1
    BY <2>2, FS_RemoveElement
  <2>4. c <= Cardinality(Threads \ {p}) /\ c \in Nat
    BY <2>1, <2>3, FS_Subset, FS_CardinalityType
  <2>5. QED
    BY <2>2, <2>3, <2>4
<1>3. next <= total - 1 + (1 + c) * grain
  BY <1>1 DEF WorkInv, Cursor
<1>4. total - 1 + (n + 2) * grain <= MaxInt
  BY DEF JobFits
<1> HIDE DEF c, n
<1>5. (2 + c) * grain = (1 + c) * grain + grain
  BY <1>0, <1>2
<1>6. (2 + c) * grain <= (n + 2) * grain
  <2>1. (2 + c) \in Nat /\ (n + 2) \in Nat /\ 2 + c <= n + 2
    BY <1>2
  <2>2. QED
    BY <2>1, <1>0, GrainTimes
<1>7. (1 + c) * grain \in Int /\ (2 + c) * grain \in Int /\ (n + 2) * grain \in Int
  BY <1>0, <1>2
<1>8. next + grain <= total - 1 + (2 + c) * grain /\ next + grain <= MaxInt
  BY <1>0, <1>3, <1>4, <1>5, <1>6, <1>7
<1>9. QED
  BY <1>0, <1>1, <1>8 DEF Wrap, c

LEMMA FetchWork ==
  ASSUME TypeInv, FrameInv, WorkInv, NEW p \in Threads, Fetch(p)
  PROVE  WorkInv'
<1> SUFFICES ASSUME JobFits' PROVE (Chunks /\ Disjoint /\ Counted /\ AtEnd /\ Cursor)'
  BY DEF WorkInv
<1>1. JobFits /\ Chunks /\ Disjoint /\ Counted /\ AtEnd /\ Cursor
  BY DEF WorkInv, JobFits, Fetch
<1>2. pc[p] = "fetch" /\ UNCHANGED <<done, total, grain, hits>>
  BY DEF Fetch
<1>3. /\ Published /\ InFrame /\ ~Left(p)
      /\ next + grain <= total - 1 + (2 + Cardinality(AllLeft)) * grain
      /\ next + grain <= MaxInt
      /\ next' = next + grain
  BY <1>1, <1>2, FetchFits DEF Fetch
<1>4. /\ next \in Int /\ total \in Nat /\ grain \in Nat /\ MaxInt \in Nat
      /\ cur \in [Threads -> Int] /\ end \in [Threads -> Int]
      /\ pc \in [Threads -> WorkerLabels \cup CallerLabels] /\ Caller \notin Workers
  BY WorkTypes
<1>5. 0 <= next /\ 1 <= grain /\ 1 <= total
  BY <1>1, <1>3 DEF Cursor
<1>6. CASE next >= total
  <2>1. pc' = [pc EXCEPT ![p] = AfterLoop(p)] /\ UNCHANGED <<cur, end>>
    BY <1>4, <1>6 DEF Fetch
  <2>2. /\ pc'[p] # "run" /\ \A q \in Threads : pc'[q] = "run" <=> pc[q] = "run"
        /\ InFrame'
    BY <1>2, <1>3, <1>4, <2>1 DEF AfterLoop, InFrame, FrameLabels
  <2>3. Chunks' /\ Disjoint'
    BY <1>1, <1>2, <1>3, <1>4, <2>1, <2>2 DEF Chunks, Disjoint
  <2>4. \A q \in Threads, t \in Tile : Held(q, t)' <=> Held(q, t)
    BY <2>1, <2>2 DEF Held
  <2>5. Counted'
    <3> SUFFICES ASSUME NEW t \in Tile
                 PROVE hits[t] = IF 0 <= t /\ t < total /\ t < next' /\ ~\E q \in Threads : Held(q, t)
                                   THEN 1 ELSE 0
      BY <1>2, <2>4 DEF Counted
    <3>1. t \in Int
      BY <1>4
    <3>2. t < total => (t < next /\ t < next')
      BY <1>3, <1>4, <1>6, <3>1
    <3>3. QED
      BY <1>1, <3>2 DEF Counted
  <2>6. AllLeft' = AllLeft \cup {p} /\ p \notin AllLeft
    BY <1>2, <1>3, <1>4, <2>1 DEF AllLeft, Left, AfterLoop
  <2>7. Cardinality(AllLeft') = Cardinality(AllLeft) + 1 /\ Cardinality(AllLeft) \in Nat
    BY <2>6, LeftFinite, FS_AddElement
  <2>8. AtEnd'
    BY <1>2, <1>3, <1>4, <1>5, <1>6, <2>2 DEF AtEnd
  <2>9. Cursor'
    <3>1. pc'[Caller] # "publish"
      BY <1>2, <1>3, <1>4, <2>1 DEF AfterLoop, Published
    <3>2. next' <= total - 1 + (1 + Cardinality(AllLeft')) * grain
      <4>1. 1 + Cardinality(AllLeft') = 2 + Cardinality(AllLeft)
        BY <2>7
      <4>2. QED
        BY <1>3, <4>1
    <3>3. QED
      BY <1>2, <1>3, <1>4, <1>5, <3>1, <3>2 DEF Cursor
  <2>10. QED
    BY <2>3, <2>5, <2>8, <2>9
<1>7. CASE ~(next >= total)
  <2> DEFINE e == MinOf(next + grain, total)
  <2>1. e \in Int /\ next < e /\ e <= total /\ e <= next' /\ (e = total \/ e = next')
    BY <1>3, <1>4, <1>5, <1>7 DEF MinOf
  <2>2. ChunkEnds(next) = {e}
    BY <1>1, <1>2, FetchFits DEF ChunkEnds
  <2> HIDE DEF e
  <2>3. /\ cur' = [cur EXCEPT ![p] = next] /\ end' = [end EXCEPT ![p] = e]
        /\ pc' = [pc EXCEPT ![p] = "run"]
    BY <1>4, <1>7, <2>1, <2>2 DEF Fetch
  <2>4. /\ pc'[p] = "run" /\ cur'[p] = next /\ end'[p] = e
        /\ \A q \in Threads : q # p => pc'[q] = pc[q] /\ cur'[q] = cur[q] /\ end'[q] = end[q]
    BY <1>4, <2>3
  <2>5. Chunks'
    BY <1>1, <1>2, <1>3, <1>4, <1>5, <2>1, <2>4 DEF Chunks
  <2>6. \A q \in Threads : pc[q] = "run" => end[q] <= next
    BY <1>1 DEF Chunks
  <2>7. Disjoint'
    BY <1>1, <2>4, <2>6 DEF Disjoint
  <2>8. Counted'
    <3> SUFFICES ASSUME NEW t \in Tile
                 PROVE hits[t] = IF 0 <= t /\ t < total /\ t < next' /\ ~\E q \in Threads : Held(q, t)'
                                   THEN 1 ELSE 0
      BY <1>2 DEF Counted
    <3>1. t \in Int
      BY <1>4
    <3>2. \A q \in Threads : q # p => (Held(q, t)' <=> Held(q, t))
      BY <2>4 DEF Held
    <3>3. ~Held(p, t) /\ (Held(p, t)' <=> (next <= t /\ t < e))
      BY <1>2, <2>4 DEF Held
    <3>4. CASE t < next
      <4>1. (\E q \in Threads : Held(q, t)') <=> (\E q \in Threads : Held(q, t))
        BY <3>1, <3>2, <3>3, <3>4, <1>4
      <4>2. t < next'
        BY <3>1, <3>4, <1>3, <1>4
      <4>3. QED
        BY <1>1, <3>4, <4>1, <4>2 DEF Counted
    <3>5. CASE ~(t < next)
      <4>1. hits[t] = 0
        BY <1>1, <3>5 DEF Counted
      <4>2. t < total /\ t < next' => Held(p, t)'
        BY <3>1, <3>3, <3>5, <1>4, <2>1
      <4>3. QED
        BY <4>1, <4>2
    <3>6. QED
      BY <3>4, <3>5
  <2>9. AllLeft = {}
    BY <1>1, <1>3, <1>7 DEF AtEnd, Published
  <2>10. AllLeft' = {} /\ InFrame' /\ pc'[Caller] # "publish"
    BY <1>2, <1>3, <1>4, <2>3, <2>9 DEF AllLeft, Left, InFrame, FrameLabels, Published
  <2>11. AtEnd'
    BY <2>10 DEF AtEnd
  <2>12. Cursor'
    <3>1. Cardinality(AllLeft') = 0
      BY <2>10, FS_EmptySet
    <3>2. next' <= total - 1 + (1 + Cardinality(AllLeft')) * grain
      BY <1>3, <1>4, <1>7, <3>1
    <3>3. QED
      BY <1>2, <1>3, <1>4, <1>5, <2>10, <3>2 DEF Cursor
  <2>13. QED
    BY <2>5, <2>7, <2>8, <2>11, <2>12
<1>8. QED
  BY <1>6, <1>7

LEMMA RunTileWork ==
  ASSUME TypeInv, FrameInv, WorkInv, NEW p \in Threads, RunTile(p)
  PROVE  WorkInv'
<1> SUFFICES ASSUME JobFits' PROVE (Chunks /\ Disjoint /\ Counted /\ AtEnd /\ Cursor)'
  BY DEF WorkInv
<1>1. JobFits /\ Chunks /\ Disjoint /\ Counted /\ AtEnd /\ Cursor
  BY DEF WorkInv, JobFits, RunTile
<1>2. /\ pc[p] = "run" /\ UNCHANGED <<done, next, total, grain, end>>
      /\ hits' = [hits EXCEPT ![cur[p]] = @ + 1]
      /\ cur' = [cur EXCEPT ![p] = @ + 1]
      /\ pc' = [pc EXCEPT ![p] = IF cur[p] + 1 < end[p] THEN "run" ELSE "fetch"]
  BY DEF RunTile
<1>3. /\ next \in Int /\ total \in Nat /\ hits \in [Tile -> Nat]
      /\ cur \in [Threads -> Int] /\ end \in [Threads -> Int]
      /\ pc \in [Threads -> WorkerLabels \cup CallerLabels] /\ Caller \notin Workers
  BY WorkTypes
<1>4. cur[p] \in Tile
  BY DEF TypeInv, TypeOK
<1>5. 0 <= cur[p] /\ cur[p] < end[p] /\ end[p] <= total /\ end[p] <= next
  BY <1>1, <1>2 DEF Chunks
<1>6. /\ cur'[p] = cur[p] + 1 /\ end'[p] = end[p]
      /\ pc'[p] = IF cur[p] + 1 < end[p] THEN "run" ELSE "fetch"
      /\ \A q \in Threads : q # p => pc'[q] = pc[q] /\ cur'[q] = cur[q] /\ end'[q] = end[q]
  BY <1>2, <1>3
<1>7. Chunks'
  BY <1>1, <1>2, <1>3, <1>5, <1>6 DEF Chunks
<1>8. Disjoint'
  <2> SUFFICES ASSUME NEW q \in Threads, NEW r \in Threads, q # r,
                      pc'[q] = "run", pc'[r] = "run"
               PROVE  end'[q] <= cur'[r] \/ end'[r] <= cur'[q]
    BY DEF Disjoint
  <2>1. pc[q] = "run" /\ pc[r] = "run"
    BY <1>2, <1>6
  <2>2. end[q] <= cur[r] \/ end[r] <= cur[q]
    BY <1>1, <2>1 DEF Disjoint
  <2>3. QED
    BY <1>3, <1>6, <2>2
<1>9. Counted'
  <2> SUFFICES ASSUME NEW t \in Tile
               PROVE hits'[t] = IF 0 <= t /\ t < total /\ t < next /\ ~\E q \in Threads : Held(q, t)'
                                 THEN 1 ELSE 0
    BY <1>2 DEF Counted
  <2>1. t \in Int
    BY WorkTypes
  <2>2. \A q \in Threads : q # p => (Held(q, t)' <=> Held(q, t))
    BY <1>6 DEF Held
  <2>3. Held(p, t)' <=> Held(p, t) /\ t # cur[p]
    BY <1>2, <1>3, <1>5, <1>6, <2>1 DEF Held
  <2>4. CASE t = cur[p]
    <3>1. Held(p, t) /\ 0 <= t /\ t < total /\ t < next
      BY <1>2, <1>3, <1>5, <2>4 DEF Held
    <3>2. \A q \in Threads : q # p => ~Held(q, t)
      BY <1>1, <1>2, <1>3, <1>5, <2>4 DEF Held, Disjoint
    <3>3. hits[t] = 0
      BY <1>1, <3>1 DEF Counted
    <3>4. hits'[t] = 1
      <4> HIDE DEF Tile
      <4>1. QED
        BY <1>2, <1>3, <2>4, <3>3
    <3>5. QED
      BY <2>2, <2>3, <2>4, <3>1, <3>2, <3>4
  <2>5. CASE t # cur[p]
    <3>1. hits'[t] = hits[t]
      <4> HIDE DEF Tile
      <4>1. QED
        BY <1>2, <1>3, <2>5
    <3>2. (\E q \in Threads : Held(q, t)') <=> (\E q \in Threads : Held(q, t))
      BY <2>2, <2>3, <2>5
    <3>3. QED
      BY <1>1, <3>1, <3>2 DEF Counted
  <2>6. QED
    BY <2>4, <2>5
<1>10. /\ AllLeft' = AllLeft /\ (InFrame' <=> InFrame)
       /\ (pc'[Caller] = "publish" <=> pc[Caller] = "publish")
  BY <1>2, <1>3 DEF AllLeft, Left, InFrame, FrameLabels
<1>11. AtEnd' /\ Cursor'
  BY <1>1, <1>2, <1>10 DEF AtEnd, Cursor
<1>12. QED
  BY <1>7, <1>8, <1>9, <1>11

LEMMA ParallelForWork ==
  ASSUME TypeInv, FrameInv, WorkInv, NEW j \in Jobs, ParallelFor(j)
  PROVE  WorkInv'
<1>1. CASE j.total <= 0
  <2>1. UNCHANGED <<pc, done, next, total, grain, cur, end, hits>>
    BY <1>1, JobTypes DEF ParallelFor
  <2>2. (InFrame' <=> InFrame) /\ \A p \in Threads : Left(p)' <=> Left(p)
    BY <2>1 DEF InFrame, Left
  <2>3. QED
    BY <2>1, <2>2, QuietStep
<1>2. CASE ~(j.total <= 0)
  <2>0. j.total \in Int /\ j.grain \in Int
    BY JobTypes
  <2>1. /\ total' = j.total /\ grain' = IF j.grain < 1 THEN 1 ELSE j.grain
        /\ next' = 0 /\ hits' = [t \in Tile |-> 0]
        /\ pc' = [pc EXCEPT ![Caller] = "publish"] /\ pc[Caller] = "idle"
    BY <1>2 DEF ParallelFor
  <2>2. pc \in [Threads -> WorkerLabels \cup CallerLabels] /\ Caller \notin Workers
    BY WorkTypes
  <2>3. \A p \in Threads : pc'[p] # "run"
    BY <2>1, <2>2 DEF FrameInv, FrameAlive, FrameLabels
  <2>4. pc'[Caller] = "publish" /\ InFrame'
    BY <2>1, <2>2 DEF InFrame, FrameLabels
  <2>5. total' \in Nat /\ grain' \in Nat /\ 1 <= grain' /\ 1 <= total'
    BY <1>2, <2>0, <2>1
  <2>6. Chunks' /\ Disjoint'
    BY <2>3 DEF Chunks, Disjoint
  <2>7. Counted'
    <3> SUFFICES ASSUME NEW t \in Tile
                 PROVE hits'[t] = IF 0 <= t /\ t < total' /\ t < next' /\ ~\E q \in Threads : Held(q, t)'
                                   THEN 1 ELSE 0
      BY DEF Counted
    <3>1. ~(0 <= t /\ t < next')
      BY <2>1, WorkTypes
    <3>2. QED
      BY <2>1, <3>1
  <2>8. AtEnd'
    BY <2>4 DEF AtEnd
  <2>9. Cursor'
    <3>1. Cardinality(AllLeft') \in Nat
      <4>1. AllLeft' \subseteq Threads
        BY DEF AllLeft
      <4> HIDE DEF Threads
      <4>2. QED
        BY <4>1, LeftFinite, FS_Subset, FS_CardinalityType
    <3>2. (1 + Cardinality(AllLeft')) * grain' \in Nat
      BY <2>5, <3>1
    <3>3. QED
      BY <2>1, <2>5, <3>2 DEF Cursor
  <2>10. QED
    BY <2>6, <2>7, <2>8, <2>9 DEF WorkInv
<1>3. QED
  BY <1>1, <1>2

LEMMA PublishWork ==
  ASSUME TypeInv, FrameInv, WorkInv, Publish
  PROVE  WorkInv'
<1> SUFFICES ASSUME JobFits' PROVE (Chunks /\ Disjoint /\ Counted /\ AtEnd /\ Cursor)'
  BY DEF WorkInv
<1>1. JobFits /\ Chunks /\ Disjoint /\ Counted /\ AtEnd /\ Cursor
  BY DEF WorkInv, JobFits, Publish
<1>2. /\ pc[Caller] = "publish" /\ pc' = [pc EXCEPT ![Caller] = "notify"]
      /\ done' = [w \in Workers |-> FALSE]
      /\ UNCHANGED <<next, total, grain, cur, end, hits>>
  BY DEF Publish, ResetDone
<1>3. /\ pc \in [Threads -> WorkerLabels \cup CallerLabels] /\ Caller \notin Workers
      /\ total \in Nat /\ grain \in Nat
  BY WorkTypes
<1>4. \A p \in Threads : pc'[p] = "run" <=> pc[p] = "run"
  BY <1>2, <1>3
<1>5. Chunks' /\ Disjoint'
  BY <1>1, <1>2, <1>4 DEF Chunks, Disjoint
<1>6. Counted'
  BY <1>1, <1>2, <1>4 DEF Counted, Held
<1>7. AllLeft' = {}
  BY <1>2, <1>3 DEF AllLeft, Left, FrameInv, FrameAlive
<1>8. InFrame /\ InFrame' /\ pc'[Caller] = "notify"
  BY <1>2, <1>3 DEF InFrame, FrameLabels
<1>9. AtEnd'
  BY <1>7, <1>8 DEF AtEnd
<1>10. Cursor'
  <2>1. next = 0 /\ 1 <= grain /\ 1 <= total
    BY <1>1, <1>2, <1>8 DEF Cursor
  <2>2. Cardinality(AllLeft') = 0
    BY <1>7, FS_EmptySet
  <2>3. QED
    BY <1>2, <1>3, <1>8, <2>1, <2>2 DEF Cursor
<1>11. QED
  BY <1>5, <1>6, <1>9, <1>10

\* Every step keeps the account of the tiles.
LEMMA WorkStep == TypeInv /\ FrameInv /\ WorkInv /\ [Next]_vars => WorkInv'
<1> SUFFICES ASSUME TypeInv, FrameInv, WorkInv, [Next]_vars PROVE WorkInv'
  OBVIOUS
<1>0. /\ pc \in [Threads -> WorkerLabels \cup CallerLabels] /\ Caller \notin Workers
      /\ done \in [Workers -> BOOLEAN]
  BY WorkTypes
<1> DEFINE Quiet == /\ UNCHANGED <<next, total, grain, cur, end, hits>>
                    /\ \A p \in Threads : pc'[p] = "run" <=> pc[p] = "run"
                    /\ pc'[Caller] = "publish" <=> pc[Caller] = "publish"
                    /\ InFrame' => InFrame
                    /\ InFrame' => \A p \in Threads : Left(p)' <=> Left(p)
                    /\ JobFits /\ InFrame /\ ~InFrame' => next >= total
<1>q. Quiet => WorkInv'
  BY QuietStep
<1>1. ASSUME NEW w \in Workers, WorkerStep(w) PROVE WorkInv'
  <2> USE <1>0 DEF InFrame, FrameLabels, Left
  <2>1. CASE Test(w)
    <3>1. Quiet BY <2>1 DEF Test
    <3>2. QED BY <3>1, <1>q
  <2>2. CASE Acquire(w)
    <3>1. Quiet BY <2>2 DEF Acquire
    <3>2. QED BY <3>1, <1>q
  <2>3. CASE WorkerPred(w)
    <3>1. Quiet BY <2>3 DEF WorkerPred
    <3>2. QED BY <3>1, <1>q
  <2>4. CASE Block(w)
    <3>1. Quiet BY <2>4 DEF Block
    <3>2. QED BY <3>1, <1>q
  <2>5. CASE Fetch(w)       BY <2>5, FetchWork
  <2>6. CASE RunTile(w)     BY <2>6, RunTileWork
  <2>7. CASE Finish(w)
    <3>1. Quiet BY <2>7 DEF Finish, MayReport
    <3>2. QED BY <3>1, <1>q
  <2>8. QED BY <1>1, <2>1, <2>2, <2>3, <2>4, <2>5, <2>6, <2>7 DEF WorkerStep
<1>2. CASE CallerStep
  <2> USE <1>0 DEF InFrame, FrameLabels, Left
  <2>1. CASE Publish         BY <2>1, PublishWork
  <2>2. CASE NotifyWork
    <3>1. Quiet BY <2>2 DEF NotifyWork, WakeWorkers
    <3>2. QED BY <3>1, <1>q
  <2>3. CASE Fetch(Caller)   BY <2>3, FetchWork
  <2>4. CASE RunTile(Caller) BY <2>4, RunTileWork
  <2>5. CASE Acquire(Caller)
    <3>1. Quiet BY <2>5 DEF Acquire
    <3>2. QED BY <3>1, <1>q
  <2>6. CASE CallerPred
    <3>1. ASSUME JobFits PROVE next >= total
      <4>1. Caller \in AllLeft /\ pc[Caller] # "publish"
        BY <2>6 DEF CallerPred, AllLeft
      <4>2. QED
        BY <3>1, <4>1 DEF WorkInv, AtEnd
    <3>2. Quiet BY <2>6, <3>1 DEF CallerPred
    <3>3. QED BY <3>2, <1>q
  <2>7. CASE Block(Caller)
    <3>1. Quiet BY <2>7 DEF Block
    <3>2. QED BY <3>1, <1>q
  <2>8. CASE NotifyStop
    <3>1. Quiet BY <2>8 DEF NotifyStop, WakeWorkers
    <3>2. QED BY <3>1, <1>q
  <2>9. CASE Join
    <3>1. Quiet BY <2>9 DEF Join
    <3>2. QED BY <3>1, <1>q
  <2>10. QED BY <1>2, <2>1, <2>2, <2>3, <2>4, <2>5, <2>6, <2>7, <2>8, <2>9 DEF CallerStep
<1>3. ASSUME NEW p \in Threads, SpuriousWake(p) PROVE WorkInv'
  <2>1. Quiet BY <1>0, <1>3 DEF SpuriousWake, InFrame, FrameLabels, Left
  <2>2. QED BY <2>1, <1>q
<1>4. ASSUME NEW j \in Jobs, ParallelFor(j) PROVE WorkInv'
  BY <1>4, ParallelForWork
<1>5. CASE Stop
  <2>1. Quiet BY <1>0, <1>5 DEF Stop, MayStop, InFrame, FrameLabels, Left
  <2>2. QED BY <2>1, <1>q
<1>6. CASE UNCHANGED vars
  <2>1. Quiet BY <1>6 DEF vars, InFrame, Left
  <2>2. QED BY <2>1, <1>q
<1>7. QED
  BY <1>1, <1>2, <1>3, <1>4, <1>5, <1>6 DEF Next, Gone

LEMMA WorkInit == Init => WorkInv
<1> SUFFICES ASSUME Init PROVE Chunks /\ Disjoint /\ Counted /\ AtEnd /\ Cursor
  BY DEF WorkInv
<1>1. ~InFrame /\ pc[Caller] # "publish" /\ \A p \in Threads : pc[p] # "run"
  BY DEF Init, InFrame, FrameLabels
<1>2. Chunks /\ Disjoint
  BY <1>1 DEF Chunks, Disjoint
<1>3. Counted
  <2> SUFFICES ASSUME NEW t \in Tile, 0 <= t, t < total PROVE FALSE
    BY DEF Counted, Init
  <2>1. QED
    BY ConstantTypes DEF Init
<1>4. AtEnd /\ Cursor
  BY <1>1 DEF AtEnd, Cursor, Init
<1>5. QED
  BY <1>2, <1>3, <1>4

\* parallelFor runs its callback exactly once on every tile of a job, for any
\* number of workers, any division into chunks and any interleaving, as long as
\* the tile cursor stays representable.
THEOREM TilesRunExactlyOnce == Spec => []ExactlyOnce
<1>1. TypeInv /\ FrameInv /\ WorkInv /\ [Next]_vars => (TypeInv /\ FrameInv /\ WorkInv)'
  BY TypeStep, FrameStep, WorkStep
<1>2. TypeInv /\ FrameInv /\ WorkInv => ExactlyOnce
  <2> SUFFICES ASSUME TypeInv, FrameInv, WorkInv, pc[Caller] = "idle", JobFits, NEW t \in Tile
               PROVE  hits[t] = IF t \in 0 .. total - 1 THEN 1 ELSE 0
    BY DEF ExactlyOnce
  <2>1. Counted /\ next >= total
    BY DEF WorkInv, AtEnd, InFrame, FrameLabels
  <2>2. \A p \in Threads : pc[p] # "run"
    BY DEF FrameInv, FrameAlive, FrameLabels
  <2>3. t \in Int /\ total \in Nat /\ next \in Int
    BY WorkTypes
  <2>4. QED
    BY <2>1, <2>2, <2>3 DEF Counted, Held
<1>3. QED
  BY <1>1, <1>2, FrameInit, WorkInit, PTL DEF Spec

-----------------------------------------------------------------------------
(***************************************************************************)
(* Refinement.  When every job the client submits fits, the pool is a      *)
(* fork-join: its steps are the abstract Begin, Run, Return and Close, or  *)
(* change nothing the caller of parallelFor can see.                       *)
(***************************************************************************)
Fits(j) == j.total - 1 + (Cardinality(Workers) + 2) * (IF j.grain < 1 THEN 1 ELSE j.grain)
             <= MaxInt

OpenInv == running <=> pc[Caller] \notin {"wake", "join", "destroyed"}

FitInv == InFrame => JobFits

PoolInv == TypeInv /\ FrameInv /\ WorkInv /\ OpenInv /\ FitInv

LEMMA OpenStep == TypeInv /\ OpenInv /\ [Next]_vars => OpenInv'
<1> SUFFICES ASSUME TypeInv, OpenInv, [Next]_vars PROVE OpenInv'
  OBVIOUS
<1>0. /\ pc \in [Threads -> WorkerLabels \cup CallerLabels] /\ Caller \notin Workers
      /\ running \in BOOLEAN
  BY WorkTypes DEF TypeInv, TypeOK
<1> USE <1>0 DEF OpenInv
<1>1. ASSUME NEW w \in Workers, WorkerStep(w) PROVE OpenInv'
  <2>1. running' = running /\ (pc'[Caller] = pc[Caller] \/ (pc[Caller] = "asleep" /\ pc'[Caller] = "lock"))
    BY <1>1 DEF WorkerStep, Test, Acquire, WorkerPred, Block, Fetch, RunTile, Finish, MayReport
  <2>2. QED
    BY <2>1
<1>2. CASE CallerStep
  <2>1. CASE Publish         BY <2>1 DEF Publish
  <2>2. CASE NotifyWork      BY <2>2 DEF NotifyWork, WakeWorkers
  <2>3. CASE Fetch(Caller)   BY <2>3 DEF Fetch, AfterLoop
  <2>4. CASE RunTile(Caller) BY <2>4 DEF RunTile
  <2>5. CASE Acquire(Caller) BY <2>5 DEF Acquire
  <2>6. CASE CallerPred      BY <2>6 DEF CallerPred
  <2>7. CASE Block(Caller)   BY <2>7 DEF Block
  <2>8. CASE NotifyStop      BY <2>8 DEF NotifyStop, WakeWorkers
  <2>9. CASE Join            BY <2>9 DEF Join
  <2>10. QED BY <1>2, <2>1, <2>2, <2>3, <2>4, <2>5, <2>6, <2>7, <2>8, <2>9 DEF CallerStep
<1>3. ASSUME NEW p \in Threads, SpuriousWake(p) PROVE OpenInv'
  BY <1>3 DEF SpuriousWake
<1>4. ASSUME NEW j \in Jobs, ParallelFor(j) PROVE OpenInv'
  BY <1>4 DEF ParallelFor
<1>5. CASE Stop
  BY <1>5 DEF Stop, MayStop
<1>6. CASE UNCHANGED vars
  BY <1>6 DEF vars
<1>7. QED
  BY <1>1, <1>2, <1>3, <1>4, <1>5, <1>6 DEF Next, Gone

\* A step that is none of the four abstract ones.
Invisible == UNCHANGED <<total, grain, hits, running>> /\ (InFrame' <=> InFrame)

\* Every step is visible in one of four ways, or invisible.
LEMMA StepKinds ==
  ASSUME TypeInv, FrameInv, [Next]_vars
  PROVE  \/ Invisible
         \/ \E j \in Jobs : ParallelFor(j) /\ ~(j.total <= 0)
         \/ \E p \in Threads : RunTile(p)
         \/ CallerPred /\ AllReported
         \/ Stop
<1>0. pc \in [Threads -> WorkerLabels \cup CallerLabels] /\ Caller \notin Workers
  BY WorkTypes
<1> USE <1>0 DEF Invisible, InFrame, FrameLabels
<1>1. ASSUME NEW w \in Workers, WorkerStep(w), ~RunTile(w) PROVE Invisible
  <2>1. CASE Test(w)        BY <2>1 DEF Test
  <2>2. CASE Acquire(w)     BY <2>2 DEF Acquire
  <2>3. CASE WorkerPred(w)  BY <2>3 DEF WorkerPred
  <2>4. CASE Block(w)       BY <2>4 DEF Block
  <2>5. CASE Fetch(w)       BY <2>5 DEF Fetch, AfterLoop
  <2>7. CASE Finish(w)      BY <2>7 DEF Finish, MayReport
  <2>8. QED BY <1>1, <2>1, <2>2, <2>3, <2>4, <2>5, <2>7 DEF WorkerStep
<1>2. ASSUME CallerStep, ~RunTile(Caller), ~(CallerPred /\ AllReported) PROVE Invisible
  <2>1. CASE Publish         BY <2>1 DEF Publish
  <2>2. CASE NotifyWork      BY <2>2 DEF NotifyWork, WakeWorkers
  <2>3. CASE Fetch(Caller)   BY <2>3 DEF Fetch, AfterLoop
  <2>5. CASE Acquire(Caller) BY <2>5 DEF Acquire
  <2>6. CASE CallerPred      BY <1>2, <2>6 DEF CallerPred
  <2>7. CASE Block(Caller)   BY <2>7 DEF Block
  <2>8. CASE NotifyStop      BY <2>8 DEF NotifyStop, WakeWorkers
  <2>9. CASE Join            BY <2>9 DEF Join
  <2>10. QED BY <1>2, <2>1, <2>2, <2>3, <2>5, <2>6, <2>7, <2>8, <2>9 DEF CallerStep
<1>3. ASSUME NEW p \in Threads, SpuriousWake(p) PROVE Invisible
  BY <1>3 DEF SpuriousWake
<1>4. ASSUME NEW j \in Jobs, ParallelFor(j), j.total <= 0 PROVE Invisible
  BY <1>4, JobTypes DEF ParallelFor
<1>5. CASE UNCHANGED vars
  BY <1>5 DEF vars
<1>6. QED
  BY <1>1, <1>2, <1>3, <1>4, <1>5 DEF Next, Gone

\* One call of the callback is the abstract Run of a tile that has not run yet.
LEMMA RunTileRuns ==
  ASSUME PoolInv, NEW p \in Threads, RunTile(p)
  PROVE  Invisible \/ FJ!Run(cur[p])
<1>1. /\ pc[p] = "run" /\ UNCHANGED <<total, running>>
      /\ hits' = [hits EXCEPT ![cur[p]] = @ + 1]
      /\ pc' = [pc EXCEPT ![p] = IF cur[p] + 1 < end[p] THEN "run" ELSE "fetch"]
  BY DEF RunTile
<1>2. InFrame /\ InFrame'
  BY <1>1, WorkTypes DEF PoolInv, FrameInv, FrameAlive, InFrame, FrameLabels
<1>3. Chunks /\ Counted
  BY <1>2 DEF PoolInv, FitInv, WorkInv
<1>4. 0 <= cur[p] /\ cur[p] < end[p] /\ end[p] <= total
  BY <1>1, <1>3 DEF Chunks
<1>5. cur[p] \in Tile /\ cur[p] \in Int /\ end[p] \in Int /\ total \in Nat /\ hits \in [Tile -> Nat]
  BY WorkTypes DEF PoolInv, TypeInv, TypeOK
<1>6. Held(p, cur[p])
  BY <1>1, <1>4, <1>5 DEF Held
<1>7. hits[cur[p]] = 0
  BY <1>3, <1>5, <1>6 DEF Counted
<1>8. hits' = [hits EXCEPT ![cur[p]] = 1]
  BY <1>1, <1>7
<1>9. cur[p] \in 0 .. total - 1
  BY <1>4, <1>5
<1>10. QED
  BY <1>1, <1>2, <1>7, <1>8, <1>9 DEF FJ!Run

\* A step of the pool is a step of the fork-join, or changes nothing of it.
LEMMA StepRefines ==
  ASSUME PoolInv, [Next]_vars
  PROVE  [FJ!Next]_(FJ!vars)
<1>0. /\ pc \in [Threads -> WorkerLabels \cup CallerLabels] /\ Caller \notin Workers
      /\ total \in Nat /\ next \in Int /\ hits \in [Tile -> Nat] /\ running \in BOOLEAN
  BY WorkTypes DEF PoolInv, TypeInv, TypeOK
<1>1. CASE Invisible
  BY <1>1 DEF Invisible, FJ!vars
<1>2. ASSUME NEW j \in Jobs, ParallelFor(j), ~(j.total <= 0)
      PROVE  FJ!Next
  <2>0. j.total \in Int /\ j.total <= MaxInt /\ MaxInt \in Nat
    BY JobTypes, ConstantTypes
  <2>1. /\ pc[Caller] = "idle" /\ pc' = [pc EXCEPT ![Caller] = "publish"]
        /\ total' = j.total /\ hits' = [t \in Tile |-> 0] /\ running' = running
    BY <1>2 DEF ParallelFor
  <2>2. ~InFrame /\ InFrame' /\ running
    BY <1>0, <2>1 DEF InFrame, FrameLabels, PoolInv, OpenInv
  <2>3. FJ!Begin(j.total)
    BY <2>1, <2>2 DEF FJ!Begin, FJ!NothingRan
  <2>4. j.total \in Tile /\ j.total > 0
    BY <1>2, <2>0
  <2>5. QED
    BY <2>3, <2>4 DEF FJ!Next
<1>3. ASSUME NEW p \in Threads, RunTile(p)
      PROVE  [FJ!Next]_(FJ!vars)
  <2>1. CASE Invisible
    BY <1>1, <2>1
  <2>2. CASE FJ!Run(cur[p])
    <3>1. cur[p] \in Tile
      BY DEF PoolInv, TypeInv, TypeOK
    <3>2. QED
      BY <2>2, <3>1 DEF FJ!Next
  <2>3. QED
    BY <1>3, <2>1, <2>2, RunTileRuns
<1>4. ASSUME CallerPred, AllReported
      PROVE  FJ!Next
  <2>1. /\ pc[Caller] = "pred" /\ pc' = [pc EXCEPT ![Caller] = "idle"]
        /\ UNCHANGED <<total, hits, running>>
    BY <1>4 DEF CallerPred
  <2>2. InFrame /\ ~InFrame'
    BY <1>0, <2>1 DEF InFrame, FrameLabels
  <2>3. Counted /\ AtEnd
    BY <2>2 DEF PoolInv, FitInv, WorkInv
  <2>4. next >= total
    BY <2>1, <2>3 DEF AtEnd, AllLeft, Left
  <2>5. \A p \in Threads : pc[p] # "run"
    BY <1>4, <2>1 DEF AllReported, PoolInv, FrameInv, FrameAlive
  <2>6. ASSUME NEW t \in 0 .. total - 1 PROVE hits[t] = 1
    <3>1. t \in Tile /\ 0 <= t /\ t < total /\ t < next
      BY <1>0, <2>4, ConstantTypes DEF PoolInv, TypeInv, TypeOK
    <3>2. QED
      BY <2>3, <2>5, <3>1 DEF Counted, Held
  <2>7. FJ!Return
    BY <2>1, <2>2, <2>6 DEF FJ!Return
  <2>8. QED
    BY <2>7 DEF FJ!Next
<1>5. CASE Stop
  <2>1. ~InFrame /\ ~InFrame' /\ running /\ ~running' /\ UNCHANGED <<total, hits>>
    BY <1>0, <1>5 DEF Stop, MayStop, InFrame, FrameLabels, PoolInv, OpenInv
  <2>2. InFrame' = InFrame /\ (~running)' = TRUE
    BY <2>1 DEF InFrame
  <2>3. FJ!Close
    BY <2>1, <2>2 DEF FJ!Close
  <2>4. QED
    BY <2>3 DEF FJ!Next
<1>6. TypeInv /\ FrameInv
  BY DEF PoolInv
<1>7. QED
  BY <1>1, <1>2, <1>3, <1>4, <1>5, <1>6, StepKinds

\* The running job is one the client submitted.
LEMMA FitStep ==
  ASSUME \A j \in Jobs : Fits(j), PoolInv, [Next]_vars
  PROVE  FitInv'
<1>1. CASE Invisible
  BY <1>1 DEF Invisible, PoolInv, FitInv, JobFits
<1>2. ASSUME NEW j \in Jobs, ParallelFor(j), ~(j.total <= 0)
      PROVE  FitInv'
  BY <1>2 DEF ParallelFor, FitInv, JobFits, Fits
<1>3. ASSUME NEW p \in Threads, RunTile(p)
      PROVE  FitInv'
  <2>1. InFrame
    BY <1>3 DEF RunTile, PoolInv, FrameInv, FrameAlive, InFrame, FrameLabels
  <2>2. QED
    BY <1>3, <2>1 DEF RunTile, PoolInv, FitInv, JobFits
<1>4. ASSUME CallerPred, AllReported
      PROVE  FitInv'
  BY <1>4, WorkTypes DEF CallerPred, PoolInv, FitInv, InFrame, FrameLabels
<1>5. CASE Stop
  BY <1>5, WorkTypes DEF Stop, PoolInv, FitInv, InFrame, FrameLabels
<1>6. TypeInv /\ FrameInv
  BY DEF PoolInv
<1>7. QED
  BY <1>1, <1>2, <1>3, <1>4, <1>5, <1>6, StepKinds

\* The pool of runtime/ThreadPool.cpp implements the fork-join contract, for a
\* client whose jobs leave room for the surplus fetches in int64_t.
THEOREM PoolIsForkJoin ==
  ASSUME \A j \in Jobs : Fits(j)
  PROVE  Spec => ForkJoinSpec
<1>1. Init => PoolInv /\ FJ!Init
  <2> SUFFICES ASSUME Init PROVE PoolInv /\ FJ!Init
    OBVIOUS
  <2>1. ~InFrame /\ OpenInv
    BY DEF Init, InFrame, FrameLabels, OpenInv
  <2>2. PoolInv
    BY <2>1, FrameInit, WorkInit DEF PoolInv, FitInv
  <2>3. FJ!Init
    BY <2>1 DEF Init, FJ!Init, FJ!NothingRan
  <2>4. QED
    BY <2>2, <2>3
<1>2. PoolInv /\ [Next]_vars => PoolInv'
  BY TypeStep, FrameStep, WorkStep, OpenStep, FitStep DEF PoolInv
<1>3. PoolInv /\ [Next]_vars => [FJ!Next]_(FJ!vars)
  BY StepRefines
<1>4. QED
  BY <1>1, <1>2, <1>3, PTL DEF Spec, ForkJoinSpec, FJ!Spec
=============================================================================
