# Formal models of the DSLCompiler

TLA+ specifications of the parts of the compiler and its runtime where several
actors, several passes or long sequences of calls meet: from the import of a
captured program over the mapping search, its rules, layouts, router, storage
planner and event scheduler, to the compiled kernel, the caches around it, the
way it is called, and the tuning sessions that measure it. Every module names
the file it models; `PROJECT.json` maps each definition to its lines.

## 1. The system

A program (LLK dialect, a Python function, a Triton kernel or a Torch graph)
becomes a *workload graph*. The **mapping** layer chooses, for a *machine
model* and a set of *mapping rules*, an implementation of every node, a memory
for every value, routes between memories and a schedule. The chosen plan is
materialized as Micro IR, lowered by a target backend, compiled with LLVM and
called through a small ABI. The **tuning** layer repeats this for many
candidates and keeps measurements.

| Part | State | Operations | Meets | What makes it hard | Correct when |
|---|---|---|---|---|---|
| Thread pool (`runtime/ThreadPool.cpp`) | tile cursor, callback pointer, done flags, two condition variables | `parallelFor`, worker loop, destructor, `barrier` | generated code | lost wakeups, stack frame used after return, cursor overflow, barrier reuse | every tile runs once; no worker uses a dead frame; calls return |
| JIT cache (`runtime/JitCache.cpp`) | four LRU levels, one LLJIT library | lookup, insert, evict, clear, `getOrCompile` | executables | pointers into evicted entries, symbol collisions | index = list; a key gets its own code |
| Kernel call (`MappedKernelAbi`, `MappedExecutable`, `MappedInvocation`, `ShapeContract`, `_buffers.py`, `CAPI`, `Frontend/Compiler`) | ABI, descriptors, bound symbols | prepare, create, three ways to invoke | generated code, which trusts its types | address arithmetic at the word limit, argument order, aliasing, empty ranges | code touches only what the caller offered |
| Specialization cache (`_cache.py`, `_ffi.py`, `CAPI`) | buckets, entries, leases, two reference counts | `get_or_compile`, invoke, close, evict | native handles | concurrent misses, failed compiles, close during invoke | one compile per miss; no use after free, no leak |
| Frontend import (`Frontend/Program.cpp`, `Importer.cpp`) | affine facts about every value, the recovered operation | validate, prove, recover, choose the anchor tile | capture in Python, mapping pipeline | rounded grids, masks, residues, loops, overflow: facts stronger than what they describe | what is accepted computes the recovered operation everywhere |
| Machine loader (`Machine/*.cpp`) | the document walked, deferred keys, the model | read, verify, hash, query | router, placement | key order, versions, containment | the verdict is the document's; passes may trust the model |
| Layouts (`LayoutConstraints.cpp`, `LlkMap.cpp`) | registry, enumeration, quantifier budget | parse, print, solve, verify | rules, placement, plans read back | budgets that leave constraints undecided, pinned domains | solved = satisfies; print and parse agree |
| Rules, placement (`MappingRules.cpp`, `Placement.cpp`, tables of `CoveringSearch.cpp`) | registry, matches, tables | parse, match, place, select, verify | search, machine | caps, symmetry, fused matches | a table holds every legal choice or says it was cut |
| Covering search (`CoveringSearch.cpp`) | partial cover, memory ledger, best plans | place, connect, undo, evaluate, rank | router, evaluator | undo must be exact; caps must be reported; beam vs exact | covers are partitions; untruncated = exhaustive |
| Router (`Routing.cpp`) | work list, routes | enumerate | machine model | caps, parallel links, cycles | legal, complete unless reported, in order |
| Storage planner (`StoragePlan.cpp`, `StorageLiveness.cpp`, `CostEvent.cpp`) | steps, edges, allocations, aliases, events | order, allocate, reuse, build events, judge | scheduler | step order against real time; sharing across engines | no memory over capacity, no two live values in one buffer |
| Event scheduler (`EventSchedule.cpp`) | placed events, free times | validate, place, report | cost model, storage planner | cycles, missing dependencies, ties | dependencies and slots respected |
| Plan evaluation (`CompletePlanEvaluation.cpp`, `ShapeProfile.cpp`, `ShapeSpecialization.cpp`) | the proposal's artifact, samples, scores | finalize, bind, analyze, compare, aggregate | search, planner, analysis | partial artifacts, several paths to one verdict, sums at the word limit | what is kept fits and can be executed |
| Plan binding and reading back (`PlanBinder.cpp`, `PlanMaterialization.cpp`, `MappingMetadata.cpp`, `PlanVerification.cpp`) | the kernel's operations, their records, the plan's metadata, emitted chains | encode, emit per connection, rewire, bind or refuse, verify, decode | the search before it, lowering after it | insertion order, shared chains and views, abandoned emissions, a kernel changed between two passes | every consumer reads its value over its route; what is accepted is the selected plan |
| Compilation (`MappedCompilation.cpp`, `BoundaryDerivation.cpp`, `TargetCoverageValidation.cpp`) | a clone of the kernel, groups, coverage | bind, cover, group, emit, lower, make executable, stop | emitters, binder, ABI | refusal after the first rewrite, convexity, credit | whole groups, all accepted before any is rewritten |
| Sources and contracts (`CandidateInstantiation.cpp`, `WorkloadContract.cpp`, `SourceAdapter.cpp`, `BindingSchema.cpp`) | contract, instance identity, receipt | select a root, realize, complete | adapters, mapping | identities over text and ordinal, parameters realized twice or never | one identity per source and schedule |
| Performance model (`MicroDAG.cpp`, `MicroOpDAGBuilders.cpp`, `MicroCostModel.cpp`, `SelectedKernelAnalysis.cpp`) | walk stack, pending events, charges | unroll, emit, analyze, schedule | binder's kernels, scheduler | who waits for what across pipelines and loops | order kept and not invented; each movement charged once |
| Static tuning (`SearchSpace.cpp`, `Legality.cpp`, `Candidate*.cpp`, `TuningSession.cpp`) | points, verdicts, rankings | load, generate, check, bind, rank, measure | analysis, providers | legality and kernel state padding separately; lists cut and re-sorted | every candidate once; ranked kernels compute the workload |
| Mapped tuning, store (`MappedTuningSession.cpp`, `MeasurementStore.cpp`) | candidates, budgets, files | admit, rank, measure, reuse, report | file system, providers | crash between steps, digest collisions, failing providers | only verified measurements of the same key are used |
| Dialects, conversions, transforms, backends, tools | IR | rewrites | | beyond finite models | not modelled (section 7) |

`PROJECT.json` lists every part under `components`, with a reason for the ones
that are not modelled, and the places where the code is hard to test under
`hazards`.

## 2. Modules

### Runtime

**ForkJoin / ThreadPool / PoolBarrier.** `ThreadPool` has a program counter for
every thread; one step is what a thread does between two accesses others can
observe. `cv.wait(lock, pred)` is four steps, so that a notification between
the test and the sleep is possible; spurious wakeups are allowed up to
`MaxSpurious`. Tile numbers have a width (`MaxInt`), and `fetch_add` wraps.
`hits` is a history variable. `ForkJoin` is the promise: a call publishes a
job and returns when each of its tiles has run once; `ThreadPool` implements
it under the mapping at the end of the module. `PoolBarrier` models the
epoch/counter barrier for several phases.

**LruLevel / JitCache.** `LruLevel` is one `CacheLevel` with its list, index
and shared mutex; `lookup` returns a pointer whose later use is a step of its
own. `JitCache` extends it with the compiled kernels over a single JIT library,
where modules of one operation carry one entry symbol, and with `clear`.

**KernelCall.** From a lowered function to the code: `Prepare` (ABI version 1
or 2), `Create`, then calls through the typed, deprecated or Python entry,
descriptor by descriptor. What the code touches is defined from the function's
own types (`TouchedBytes`), not from the checks. Addresses and byte counts are
words up to `WordMax`, extents integers up to `IntMax`. `CallAssumption` types
what a caller can pass: a native descriptor is any data at all; a Python object
has its memory in the address space, and an array that does not export it is
believed; the frontend's private destination is memory no such object shares.
The overlap test is made once all descriptors are there; in version 1 the code
interleaves it with the checks, which changes only the error reported. Lowering,
host requirements and linking may fail nondeterministically (`CreateFails`).

### Frontend

**SpecializationCache.** Threads, entries, wrappers and native handles with
their reference counts. Sections under one lock are one step; compilation and
native calls are long. A wrapper's finalizer (`__del__`, `_ffi.py:471`) is a
`close` like any other; that the cyclic garbage collector may run it inside a
section that holds the handle's own lock is not modelled.

**FrontendImport.** A captured program is a record of ports, launch, operations
and at most one counted loop. `Validate` is the type and scope walk of
`Program.cpp`; then either `CheckLaunch`, one `ProveValue`/`ProveStore` per
operation and `Finish` (the elementwise proof), or `StartContraction`,
`EvaluateTop`, `RecognizeStore`, `EnterLoop`, `EvaluateBody`, `RecognizeLoop`,
`Confirm` and `Anchor` (the contraction proof and the tile of its schedule).
`facts` are the affine forms, masks, residue requirements and addresses the code
keeps; the machine is there and has a rank-three matrix fragment, without which
`Anchor` would refuse the contraction (`Importer.cpp:1862`), or, without a machine,
take a fixed schedule (`:1637`). The history variable `meaning` holds the value of every operation for
every program id, iteration and lane, computed from the operation alone. The
properties compare the two. JSON, spans, other element types than f32 and the
emitted IR are left out; `MaxInt` stands for the largest int64.

### Machine and performance

**MachineModel.** The loader is one pass over the entries of a document, one
step per entry; unknown keys are deferred until the schema minor is known.
`Verify` makes the semantic checks, `LoadAnother` reads a second document in the
same process. The walk up the parents is given by the set it visits (`Upwards`).
Numeric attributes no pass distinguishes are left out.

**Routing.** A best-first enumeration with a hop and a route cap over a constant
machine.

**MicroDag.** The recursive walk of a kernel with an explicit stack: `BuildOp`
emits the events of one operation, loops and pipelines are entered, iterated and
left, `FinishWalk` closes the stream; `Analyze` and `Schedule` are the two cost
levels and the strict analysis. Report text, prediction validation and the
registry of custom builders are left out.

### Mapping

**EventSchedule.** The list scheduler: `Validate`, `Place` the ready event that
can start first on a slot of its resource and one of its owner, `Report`. **StorageReuse**: the reuse pass over allocations in
list order. **StoragePlan** extends both: it emits steps, orders them, allocates,
hands its allocations to the reuse pass and its events to the scheduler, then
takes the verdict from the scheduled events or, if they cannot be built, from
the steps. Both passes have callers besides the planner, so `Init` also starts
the scheduler on a stream, and the reuse pass on a list, of their own.
A compute event is owned by the executor of its placement. A wait step emits the
barrier its route asked for when it takes more than one engine, and otherwise
stands for the last event of its movement (`RequiresBarrier`, `Forwards`).
Carried loop values, reductions across connections, the caps on
enumerated occurrences and steps and byte overflow are left out.

**LlkMap / LayoutSolve / RuleMatch / RuleTables**, each extending the one
before. `LlkMap` is the expression language over tokens: parser, printer,
identifiers, evaluation under a quantifier budget. `LayoutSolve` adds layout
declarations, their registry, the bounded solver and the verification of a
recorded assignment. `RuleMatch` is the parsing of rules, matching against an
operation or a subgraph, and the candidate of a match. `RuleTables` goes from a
rule file to the tables the search walks (matching under one budget, placement
with cap and symmetry), and verifies a recorded selection. A recorded executor
must be known: `verifyRuleSelection` alone skips an empty name
(`MappingRules.cpp:2294`), its caller does not (`PlanVerification.cpp:1128-1139`). The wording of
diagnostics is left out.

**CoveringSearch**: tables of instances, the ledger, place/connect/undo, the
evaluator's verdict, the three modes. The machine there is reduced to
reachability with costs; layouts are left out.

**PlanEvaluation.** `LoadShapes` parses a profile, `FinalizePlan` the proposal,
`BindPreview` and `CertifyDomain` the clone, then one `ScoreSample` per sample
and `Aggregate`, or `AnalyzePlan` and `FallbackScore`, then `CheckStable`. The
passes it calls are answers of the `eval` record, since they are components of
their own; sums of bytes are taken in words of `MaxBytes`. A weighted total beyond
`MaxDouble` is no finite double, and `Aggregate` ends the search with the error of
`weightedMeanCost`; the same bound stands for its three checks (total weight, byte
counts, metrics), and rounding of doubles below it is left out.

**PlanBinding.** A kernel is a list of operations in program order; views are
operations without data of their own. `Encode` stamps records and metadata,
then one step per connection emits copies, waits, a transform, a gather or a
barrier, merges with an earlier chain, or reports why it could not (the
operations emitted before a failure stay, as in the code: `AbandonMove`,
`AbandonGather`). `Rewire` redirects one recorded endpoint. `Bind` or `Refuse`
applies the contract. `Edit` stands for other passes and people between binding
and verification: each kind of change to operands, stamps, records, declared
endpoints or version fields happens at most once. `Verify` and `Decode` are
`verifyMappedMicroIR` and `decodeSelectedPlan`; they see the source graph
through the projection (`Semantic`, `Alias`, `ProjectedId`). A node's class stands
for its structural key, types are reduced to whether the code finds a legal
retyping, and every plan places all nodes and names its consumers.

**WorkloadContract / CandidateSource / MappedCompile.** `WorkloadContract` has
the validation, canonical form and attribute of a contract; the other two extend
it. `CandidateSource` takes an ask (by contract or by shape) to an instance:
`TakeConcrete`, or `SelectRoot`, `Realize` and a receipt that mapping completes
later. `MappedCompile` has one action per stage of `compileMappedKernel` and
`compileConcreteMicroKernel`; what emitters, MLIR passes and adapters rewrite is
an answer of the task. `AsksAssumption` and `TasksAssumption` say what the types
behind an ask and a task guarantee: roots have ids of their own, an operation
reads results of earlier ones, only loads, stores and contractions have extents,
a symbol names one kernel of a module.

### Tuning

**SearchSpace / CandidateKernel / TuningSession**, each extending the one
before: the verifier and loader of a search space with the legality rules, the
kernel a candidate is bound to, and the static session that generates, judges,
ranks, measures and reports.

**MappedTuning.** Sessions over one store, with crashes between any two steps
and each provider answer possible at each call. A store is `WriteTemp` and
`Rename`; when either fails, `Cleanup` removes the temporary file or fails to, and
the session ends with the error. Zero plans requested is no cut,
as in the search. Reports are arranged by counting for each
candidate how many come before it, which is what the stable sort computes.

### Compositions

The `MC*` modules give constants their values, and four of them compose:
`MCMapping` (layouts, rules, covering search, mapped tuning, sources,
compilation, evaluation), `MCMachine` (loader, router, performance model, JIT
cache, calls), `MCBinding` (plan binding, static tuning) and `MCFrontend`
(specialization cache, import). Their parts hand each other finished results and
share no variable, so each part is walked from its own initial states while the
others rest: interleaving them would multiply states and show nothing.
`StoragePlan`, `JitCache`, `RuleTables` and `TuningSession` on the other hand
compose parts that do share state.

Recursive operators are used only in modules without proofs.

## 3. Runs

Passing runs. Properties that belong together are conjoined; each part has its
own definition and comment. `mutants` in `PROJECT.json` names, for every
property, a plausible mistake in the code that breaks it; the mutated definition
stands next to the original in the module.

| Run | Bounds | Shows |
|---|---|---|
| threadpool | 2 workers, 2 calls, `MaxInt` 10, 1 spurious wakeup, jobs of 0 tiles up to the largest that fits the cursor | ExactlyOnce, FrameAlive, Returns, ShutsDown, ForkJoinSpec. Two workers and the caller are three competitors for the cursor; the second call meets workers still leaving the first |
| storage_plan | 3 744 plans of 4 nodes, routes over one or two engines, one or two operations per executor at a time; 8 064 streams of 4 events; 21 796 lists of 4 allocations over 6 steps (259 593 states) | DepsRespected, CapacityRespected, ValidatedAllPlaced, ScheduleSound, which includes that no event waits without a reason (`NoNeedlessDelay`); ReuseSound; PlanSound, which includes that moved values are ordered (`MovedInOrder`) and committed plans never exceed a memory (`NeverOverCapacity`) |
| machine | loader: 56 documents, 2 per process; router: 872 requests over 4 memories with parallel links and cycles; performance model: kernels with loops, pipelines, routed copies and unsupported operations, at most 30 events; calls: 22 functions, 5-bit words; JIT cache: 2 threads, 3 keys with 2 symbols, limits 0 and 2, 2 compilations, 4 operations | LoadSound; RoutesLegal, Exhaustive, CheapestFirst; DagSound, AnalysisSound; CallSound, MemorySound; KernelsSound, EvictsOldest. Limit 2 with three keys evicts, limit 0 is the boundary; 5 bits are enough for every product and end to wrap |
| mapping | 4 layout files under 12 limits; rule files with 7 rules on 4 nodes under 24 caps, and every refusal; 432 searches; 20 session setups, 2 sessions over one store; asks over modules of concrete and semantic symbols, 2 per process; compilation tasks of every stop and refusal; 858 evaluations, `MaxBytes` 15, `MaxDouble` 1995 (287 379 states) | LayoutSound; TablesSound, SelectionSound; CoverSound, Exhaustive; SessionSound, RecordsStay; InstantiateSound; CompileSound; EvaluateSound. Caps are chosen on both sides of what each file needs, so that a truncated and a complete answer both occur, and the weights of profiles on both sides of what a double can sum |
| binding | 235 bindings over five kernels of 3 or 4 operations (fan-out, shared view, nested views, structural twins, mixed producers), routes of up to 2 hops, `MaxEdits` 2; 54 search spaces and session options, 6 answers of the measuring provider | BindingSound, VerifiedSound; TuningSound, BoundSound. Two edits are enough to keep two fields consistent with each other that verification compares |
| frontend | 2 threads, 2 colliding requests, 1 slot, 3 calls; about 570 programs: elementwise up to 5x4 in blocks up to 4x2, contractions of 4x4x4 and 4x2x6 in 2x2 tiles with one or two arms, each with one of some 90 changes (460 399 states) | CacheSound, HandlesSound, OwnArtifact, Answered; ImportSound. Every axis is both divided and rounded up, the last block both partly and wholly outside; `MaxInt` 40 lets products and sums overflow |

Where a run says `CHECK_DEADLOCK FALSE`, the system stops by itself: the bounded
number of calls, phases, sessions or operations is used up, a request was
answered, a kernel could not be created, or a binding was refused or decoded.

Runs that expect a violation each show one disagreement between the code and a
sentence of the repository; `findings` quotes both:

| Run | Disagreement |
|---|---|
| barrier_twice | the last arriver advances the epoch before it clears the counter, so a fast thread's next arrival is lost |
| kernel_answers | the second kernel of one entry symbol cannot be added to the library |
| storage_overlap | two readers on two engines: the buffer is reused behind the one with the higher step number only |
| layout_verify | verification pins the declared domains first, so a constraint that quantifies over one accepts what the solver refuses |
| carried_values | a value carried by a loop has no producer event, so the next iteration's contraction does not wait for it |
| tail_masks | the disjunction of a mask and a stronger one is recorded as the stronger one, and a rounded launch that leaves its tensors is imported |

Observed while modelling, and the reason why some properties are not stated in
their strongest form:

*Runtime*

* `CacheLevel::lookup` (`JitCache.cpp:124`) returns a pointer into an entry that
  another thread's insert or clear may free before the caller copies through it;
  no property says the pointer is live. A level of limit 0 keeps one entry
  (`SizeBounded`).
* The deprecated call entry accepts an offset the code ignores
  (`MappedExecutable.cpp:155`), so `TouchesOffered` excludes it; an empty buffer
  inside another is refused as overlapping (`MappedInvocation.cpp:61`).

*Frontend import*

* Three kinds of program, named by `Trusting` in `FrontendImport`, are excepted
  from `ImportSound` because a fact is stronger than the value it describes: a
  disjunction of two conjunctions (`Absorbs`, the tail_masks finding); an i1
  view or select, which keeps a bound on its lane although the lane moves
  (`MovesMask`, `Importer.cpp:346`); a quotient or residue that is exact on some lanes only
  and passes through an add, view or comparison, which drop the requirement, or
  comes from `ceildiv`, which records none (`Loosens`, `Importer.cpp:388-404`).
* The comparison of load and store coordinates (`SameElement`) and the bound of
  the contraction's exact division are implied by later checks: no program can
  tell that they are there.

*Machine and performance*

* With parallel links the engine looked up for a hop (`Routing.cpp:173`) need not
  be the one the route recorded. The content hash sorts a link's engines although
  the first legal one is taken; `schemaMinor` is not hashed.
* Declared equivalence compares kinds only and is not transitive, and the
  symmetry reduction collapses executors before it looks at what is attached.
* In the event extraction only the first event after a pipeline or serial
  iteration waits for the pending ones; after an independent loop only the last
  iteration's events are awaited; an empty iteration drops what was pending.
  A `tile_store` whose valid list has the wrong rank is charged a full tile,
  `valid_k = 0` is accepted by the builder and refused by the cycle formula, the
  static bound adds all synchronization work and its memory term has no
  counterpart in the schedule.

*Layouts, rules, search*

* `(x).count` is lexed again by the receiver, `floordiv` truncates, and `&&` and
  `||` evaluate both sides.
* A fused rule whose constraints run out of budget is not reported as truncated
  (`CoveringSearch.cpp:631`). `verifyRuleSelection` uses an empty context when a
  node leaves its types out, and two memory kinds on one port never verify. A
  value inside a fused match that is also used outside is not on its boundary.
* The beam drops covers that are complete before the last depth without
  reporting truncation (`CoveringSearch.cpp:2194`), and a value that enters a
  fused instance away from its lowest node gets no connection (`:1442`);
  `Exhaustive` and `EdgesServed` say so.

*Storage and evaluation*

* A value read in place leaves no edge (`StoragePlan.cpp:922`), so a consumer may
  be scheduled before its producer ends: `MovedInOrder` speaks of moved values,
  and `SharedNeverOverlaps` assumes `ConsumersFollowProducers`. A direct reader
  bound to another memory leaves no storage use (`CostEvent.cpp:540`).
* Under the executable contract a valid profile can end the search: its samples
  are scored and `weightedMeanCost` then refuses weights or weighted figures whose
  total is no finite double (`CostModel.cpp:198-236`,
  `CompletePlanEvaluation.cpp:300`), although the header reserves an error for
  malformed invocations and infrastructure failures
  (`CompletePlanEvaluation.h:110`). `OnlyRequestsFail` excepts exactly these totals.
* The stability loop (`CompletePlanEvaluation.cpp:581-604`) repeats one
  deterministic probe up to four times, so it is not the fixpoint its comment
  names. In a partial report without plan liveness the capacity check skips peaks
  keyed by kind, and the budget is compared with the extraction's own peak.

*Plans and compilation*

* `PlanMaterialization.cpp:1020` redirects a view for all its users, not only the
  recorded endpoint (`SharedViews` in `BindingSound`), and of two nested views it
  keeps the outer one only (`NestedView`).
* A transform, gather or barrier is inserted before the wait of the copy it
  reads (`AwaitedReads` excepts them), and a staged gather before its own
  staging copies, which the structural verifier then refuses (`OnlyPlainGathers`).
* A merged connection emits no barrier of its own (`:839`); if every connection a
  barrier waits for was merged, verification refuses the binding (`LostBarrier`).
* Structural twins whose record texts sort against program order exchange their
  projected ids (`SwappedTwins`), and the consumer of a gather's second feed is
  projected to its first (`ForeignFeed`): the binder's own kernel is then refused
  or not recovered. Erased waits are accepted.
* `lowerOutputDestinations` runs before the pass its comment assumes has run
  (`MappedCompilation.cpp:410-476`); `MappedStop::MappedMicro` is documented as
  verified but returns before verification; an empty entry symbol is an error for
  an executable; the executable contract may be another kernel's when the entry
  has none; the group check does not ensure convexity when a group has several sinks.
* Two results may bind one output port; `decodeWorkloadContract` truncates the
  version; contracts of version 1 accept any negative axis; the shape overload
  ignores `sourceSymbol` and takes the first kernel. Instances of two adapters or
  registries can share an identity, since the ordinal counts per adapter
  (`CandidateInstantiation.cpp:454-463`): `InstantiateSound` compares instances
  that count alike.

*Tuning*

* The binder emits weights in the input's type while legality charges them in
  their own; legality accepts the tail policy `bounded`, which the binder refuses,
  does not count the output tile, and charges two stages where the other rule
  charges `stages`. `BoundSound` is stated for what both agree on.
* With a measured primary objective the candidates to measure are chosen by the
  hash of their ids, not as the best-ranked; records never get their `measured`
  figures; the dialect accepts `capacity_spill_bytes`, which the session refuses,
  and refuses the measured metrics it accepts; colliding ids drop a random point.
* A write or rename that fails while the removal of its temporary file fails too
  leaves that file in the store (`MeasurementStore.cpp:173`): `NoLitter` says that
  only a session that was killed or that ended with a failed store may have one.
* `rejectDuplicateKeys` (`ShapeProfile.cpp:117`) compares the undecoded text, so a
  key spelled twice in two ways passes (`SpelledOnce`); metrics of 2^63 and more
  cannot be read back.

## 4. Fairness

`ThreadPool`, `PoolBarrier` and `SpecializationCache` (in `FrontendSpec`) assume
weak fairness of each thread's next step: the operating system runs every
runnable thread. Mutexes need no more, since the waiting threads of these
bounded systems get the lock once its other users have gone to sleep or ended.
In `ThreadPool` the caller's `idle` choices are part of its step, so it does call
the destructor in the end. Compilation and native calls are assumed to return,
with a result or an error; nothing else is assumed of them. All other parts are
sequential; their properties are invariants and action properties.

## 5. Proofs

TLAPS checks these for every value of the constants that satisfies the
module's `ASSUME`.

**ThreadPoolProofs.** `TypeCorrect` from `TypeOK` and `ChunkOpen` (a thread
that runs a tile has a non-empty chunk). `FrameOutlivesWorkers` needs
`CallbackInv`: the callback pointer is the current call exactly while it is
published, and a worker inside the callback has not reported. `TilesRunExactlyOnce`
rests on `WorkInv`, for jobs whose cursor cannot pass the integer limit even if
every thread fetches once more than needed: open chunks are disjoint, lie below
the cursor, each tile below the cursor has been run once or lies in an open
chunk, and the cursor exceeds `total` by at most one grain per thread. The proof
counts the threads that have left the loop. `PoolIsForkJoin` shows that every
step is a step of `ForkJoin` or a stutter.

**StorageProofs.** `ScheduleIsSound` and `ReuseIsSound` state everything the run
checks of the scheduler and the reuse pass. For the scheduler, `Inv` adds to the
properties that `waiting` is the set of unplaced dependencies, and that a slot is
free only after the last event on it (`FreeAfterTaken`), from a cycle in which an
event on it finishes (`FreeAtFinish`, which gives every start its reason), and
never beyond the cycles spent. `CapacityHolds` maps
the events running at a cycle injectively to slots. For the reuse pass,
`ReuseInv`: the roots are roots, a root's own interval comes first (`RootFirst`), and allocations not yet looked at are their own roots
(`Untouched`); with these, `OccupantsDisjoint` and `BufferFits` are inductive.
`Overlaps` (no schedule is longer than all busy times added up) needs that at
every step the latest finish is at most the sum over the placed events, and that
`SumFunctionOnSet` has one value whatever order it adds in. `RootIsWalk` and
`EdgesChain` follow a chain of aliases link by link: reachability is stated as
membership in every closed set, so no recursion is unfolded.

**MachineProofs.** For the router, `Covered`: every legal route is already found, extends a
path in the work list, or was pruned by a cap that will be reported. `WorkOK`
and `RoutesOK` say that paths are legal and cycle-free with the right cost.
For the loader,
`LoadInv` says of the entries read so far that no key repeats and each is sound,
that the model holds what they say, and, as long as no newer minor was read,
that an unknown key is remembered exactly if there was one; every machine known
is verified and described by an acceptable document. Containment needs that no
executor is above itself: were two above each other, the parent of the one would
have it above itself (`UpwardsForest`). `HashTwin` finds for each node of one
machine a node of the other that differs at most in the order of its names.
`DocumentAssumption` says only that documents and sections are lists and that
schema numbers are not negative.

**SpecializationCacheProofs.** `Inv` has eight parts. `Shape` types the
state, `Registers` what each thread holds at its program point, `Filing` that
an identity is filed once and each compiling thread has its own entry, `Retained` bounds the retained list and
keeps it free of repetitions. `Owners` says that a wrapper the cache owns was
compiled for its entry's identity and handed to no one, `Owned` that every
open wrapper is owned by the cache, by a lease, or by a thread about to pass
it on; without it a wrapper could be closed twice. `Counts` makes both
reference counts exact: the Python one is the number of open wrappers, the
native one the calls in flight and one for the owner or the thread that frees.
`InUse`: what a thread runs or is about to enter is not freed. From
`CacheAssumption` (capacity and identities) follow `CacheSound`, `HandlesSound`
and `OwnArtifact`.

**JitCacheProofs.** `Linked` relates list, entries, index and last-use times
of a level, `Books` the counters and the list, `Resident` says that every
kernel cached or returned is what the library holds for its key, `Callers` what
a thread may hold between unlock and use. Every operation is a prune followed by
filing in front; each of the two keeps `Linked`. Needs `LevelAssumption`.

**MappingProofs.** Three components of the mapped pipeline.

*Tuning.* `TuningInv` follows a session through its program
points: `Progress` (the position, and what is rejected or measured before it),
`Spending` (both budgets), `Filling` (the report in the making: `Listed` while
it grows, `Dropped` while positions are erased from behind), `RefusedForCause`,
`Evident` (each duration held or reported was measured and verified for its
key, the store included), `Tidy`, `BestFirst`, `Accounted`. Crashes leave the
store only, so `Evident` must say of the store what it says of the session.
The lemmas: arranging by a strict order through counting is a permutation in
that order; erasing positions back to front leaves the others in order;
`RanksBefore` is a strict total order on distinct candidates. `TuningAssumption`
states what candidates, objectives and options a session accepts. That a session
which goes on has removed its temporary file (`NoLitter`) holds because every way
a store can fail ends it.

*Instantiation.* `SourceInv` is small, since an instance is settled when it is
handed out: each one made is `Handed` (its kernel implements the contract of its
ask port by port, the contract kept in it decodes to the one asked for, its
parameters are realized once and by their owner), and the root being realized is
the one selection finds. Among instances that count alike equal identities mean
one root, because ids are told apart by `AsksAssumption` and ordinals count in
module order.

*Compilation.* `CompileInv` has nine parts. `Accepted`: what is waiting or handed
over was validated, and is handed over only after every bundle verified.
`Booked`: the placements whose group is done are exactly the ones counted, and
while the bridge has counted none, every such group went to an emitter. `Covered`,
`Checked` and `Credited` carry what a check established past the check;
`StillAhead` and `Held` say which stops remain and what the caller holds. Three
lemmas carry the rest: regrouping a list in source order returns it
(`RegroupsAsFound`, since operands come earlier); what an operation needs comes
before it (`BeforeIsEarlier`); and no operation lies between two members of a
group with one exit (`NothingBetween`): the last member it needs and the last
member that needs it would both be exits. Uses `TasksAssumption`.

**KernelCallProofs.** `CallInv`: the ABI is the one of a function that prepared
and still matches its signature (`Prepared`); each descriptor taken so far has
passed the check of its port (`Accepted`); a running call has one per port, bound
to the arguments and the symbols (`Admitted`); a lease describes an object of the
caller that fits its public port (`Leased`). `SignatureMatches`: every position
of the signature has a port of its own, because where ports land in their
direction is a bijection. All extents that carry one symbol are the same
(`ArgumentExtents`), so what the code may touch is what the check computed
(`TouchedRange`), and it lies in the allocation without wrapping. That gives
`MemorySound` whatever the widths. For `CallSound`, what is marshalled passes the
native checks (`NativeAccepted`, `NativeApart`); guards against classification
needs that a multiple not below the minimum is not below the next one
(`NextMultiple`). The proof uses `CallAssumption` and `WordAssumption`.

**SequenceLemmas.** What these use of sequences without repetition (appending,
removing, prefixes, shifting, counting through injections) and of sums over a
finite set: a family that adds up exists, is unique, and any element or part may
be taken out. The induction theorems of the library take an operator, so an
induction here is about a set: `NaturalsAllIn` (a set that holds 0 and with n
also n + 1 holds all naturals), or the member of least cardinality.

Only model-checked: liveness (TLAPS has no fairness reasoning here); `PlanSound`
of the composed storage planner; and every invariant of the other modules.
`LlkMap` and what extends it, `MicroDag` and `PlanEvaluation` compute over trees
and texts with recursive operators, which the provers cannot follow;
`FrontendImport`, `CoveringSearch`, `PlanBinding` and `TuningSession` fold and sort.
`SortSeq` and `SelectSeq` are opaque to the provers, so `MappedTuning`,
`KernelCall`, `CandidateSource` and `MappedCompile` arrange and select by counting.

## 6. Plan

What is next is proof: ledger and partition in `CoveringSearch`; the bindings
that `PlanBinding` verifies; the verdict of `StoragePlan`.

## 7. Not modelled

* **Dialects, kernel conversions, transforms, target backends, object emission**:
  rewrites of MLIR operations and tables of intrinsics. What they compute is the
  semantics of whole operations; a finite model would restate the pattern.
* **Plan representation, report, diagnostics, hashes**: data, text and digests.
  Where a digest may collide, the modules that use it model the collision.
* **Python frontend and language, Torch integration**: conversions of syntax trees
  and graphs without shared state. What they produce is validated and imported by
  `FrontendImport`.
* **Triton integration**: a one-shot worker process. The reading of its pipes rests
  on the operating system: the reader stops at its limit, so an oversized output
  blocks the worker and is reported as a timeout, and a grandchild that keeps the
  pipe open delays the join.
* **Packed weights**: a container without transitions.
* **Tools**: command-line drivers over the libraries.
