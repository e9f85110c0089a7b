---------------------------- MODULE TuningSession ----------------------------
(***************************************************************************)
(* The static tuning session (lib/Perf/TuningSession.cpp) over the         *)
(* candidate generators (CandidateGenerator.cpp): a search space is        *)
(* loaded, its points are enumerated or drawn, each is checked, bound and  *)
(* analyzed, the survivors are ranked, the best are measured, and the      *)
(* report keeps the top of the list.                                       *)
(***************************************************************************)
EXTENDS CandidateKernel

CONSTANTS
  Studies,              \* modules, workloads, machines and options
  Id(_),                \* computeCandidateId, a hash of the bindings
  AnalyzeKernel(_, _),  \* the performance report of a kernel, <<>> when it fails
  Answers,              \* what the measurement provider may answer
  DrawsPerPoint         \* attempts per sampled point (64 in the code)

VARIABLES
  study,      \* the inputs of the session
  stage,
  loaded,     \* the search space, once loaded
  odometer,   \* the choice of each parameter the next grid point takes
  draws,      \* attempts of the random generator
  points,     \* the candidates generated
  cursor,     \* the candidate, or rank, the session is at
  tally       \* the report under construction

studyVars == <<study, stage, loaded, odometer, draws, points, cursor, tally>>

EmptyTally ==
  [ranked |-> <<>>, rejected |-> <<>>, unrankable |-> <<>>, cut |-> <<>>,
   dead |-> <<>>, attempts |-> 0, measured |-> 0, completed |-> 0, records |-> <<>>]

StudyInit ==
  /\ study \in Studies /\ stage = "load" /\ loaded = <<>> /\ odometer = <<>> /\ draws = 0
  /\ points = <<>> /\ cursor = 1 /\ tally = EmptyTally

Space == loaded[1]
-----------------------------------------------------------------------------
(* Metrics and ranking                                                     *)

KnownMetrics ==
  {"latency_cycles", "dram_bytes", "sram_bytes", "matrix_utilization", "dma_utilization",
   "measured_ns", "measured_gflops"}
MeasuredMetrics == {"measured_ns", "measured_gflops"}
MetricsOf(o) == <<o.primary>> \o o.secondary

\* validateObjective
ObjectiveValid(o) ==
  o.direction \in {"minimize", "maximize"} /\ ToSet(MetricsOf(o)) \subseteq KnownMetrics
UsesMeasured(o) == ToSet(MetricsOf(o)) \cap MeasuredMetrics # {}

\* metricsFrom: the schedule's figures when there is one, the bound otherwise.
MetricsFrom(r) ==
  [latency_cycles |-> <<IF r.l1 # <<>> THEN r.l1[1].cycles ELSE r.l0.cycles>>,
   dram_bytes |-> <<r.l0.dram>>, sram_bytes |-> <<r.l0.sram>>,
   matrix_utilization |-> <<IF r.l1 # <<>> THEN r.l1[1].matrix ELSE 0>>,
   dma_utilization |-> <<IF r.l1 # <<>> THEN r.l1[1].dma ELSE 0>>,
   measured_ns |-> <<>>, measured_gflops |-> <<>>]

\* lowerIsBetter; the primary metric goes by the objective's direction.
LowerIsBetter(name) == name \notin {"matrix_utilization", "dma_utilization", "measured_gflops"}
Lower(o, i) == IF i = 1 THEN o.direction = "minimize" ELSE LowerIsBetter(o.secondary[i - 1])

\* One metric puts x before y: a missing value comes last.
MetricBefore(x, y, lower) ==
  x # <<>> /\ (y # <<>> => IF lower THEN x[1] < y[1] ELSE x[1] > y[1])

\* ranksBefore
Outranks(o, a, b) ==
  LET names == MetricsOf(o)
      before(i, x, y) == MetricBefore(x.metrics[names[i]], y.metrics[names[i]], Lower(o, i))
      even(i) == ~before(i, a, b) /\ ~before(i, b, a)
  IN  \/ \E i \in DOMAIN names : before(i, a, b) /\ \A j \in 1 .. i - 1 : even(j)
      \/ (\A i \in DOMAIN names : even(i)) /\ Id(a.candidate) < Id(b.candidate)

Ranked(o, results) == SortSeq(results, LAMBDA a, b : Outranks(o, a, b))
HasMetrics(o, metrics) == \A name \in ToSet(MetricsOf(o)) : metrics[name] # <<>>
-----------------------------------------------------------------------------
(* Loading and generation                                                  *)

\* The space is parsed, verified and loaded; a caller may set its own
\* objective.  What runTuningSession refuses before it generates anything.
LoadStudy ==
  /\ stage = "load"
  /\ LET read == IF \A i \in DOMAIN study.ops : SpaceVerified(study.ops[i])
                 THEN LoadSearchSpace(study.ops, study.symbol) ELSE <<>>
         objective == IF study.objective = <<>> THEN read[1].objective ELSE study.objective[1]
     IN  IF /\ read # <<>> /\ study.perfLevel <= 1 /\ ObjectiveValid(objective)
            /\ UsesMeasured(objective) => study.provider
         THEN /\ loaded' = <<[read[1] EXCEPT !.objective = objective]>>
              /\ odometer' = [i \in DOMAIN read[1].params |-> 1]
              /\ stage' = "generate"
         ELSE stage' = "refused" /\ UNCHANGED <<loaded, odometer>>
  /\ UNCHANGED <<study, draws, points, cursor, tally>>

ChoicesOf(i) == Space.params[i].choices

\* domainSize (the spaces of the model do not saturate it)
DomainSize ==
  IF Space.params = <<>> THEN (IF Space.singleton THEN 1 ELSE 0)
  ELSE FoldLeft(LAMBDA n, p : n * Len(p.choices), 1, Space.params)

\* buildCandidate
BuildCandidate(indices) ==
  [n \in {p.name : p \in ToSet(Space.params)} |->
     LET i == CHOOSE j \in DOMAIN Space.params : Space.params[j].name = n
     IN  ChoicesOf(i)[indices[i]]]

\* The odometer: the last parameter varies fastest; <<>> when it wraps.
Advance(indices) ==
  LET turning == {i \in DOMAIN indices : indices[i] < Len(ChoicesOf(i))}
  IN  IF turning = {} THEN <<>>
      ELSE LET p == CHOOSE i \in turning : \A j \in turning : j <= i
           IN  [i \in DOMAIN indices |->
                  IF i < p THEN indices[i] ELSE IF i = p THEN indices[i] + 1 ELSE 1]

Capped == study.cap # <<>> /\ Len(points) >= study.cap[1]

\* generateGridCandidates: one point.
GridPoint ==
  /\ stage = "generate" /\ study.mode = "grid" /\ DomainSize > 0 /\ ~Capped
  /\ points' = Append(points, BuildCandidate(odometer))
  /\ LET next == Advance(odometer)
     IN  IF next = <<>> THEN stage' = "judge" /\ UNCHANGED odometer
         ELSE odometer' = next /\ UNCHANGED stage
  /\ UNCHANGED <<study, loaded, draws, cursor, tally>>

Widest == FoldLeft(LAMBDA n, p : GreatestOf(n, Len(p.choices)), 0, Space.params)

\* The points a random session asks for and the attempts it may make.
Target == LeastOf(OrElse(study.cap, DomainSize), DomainSize)
MaxDraws == DrawsPerPoint * Target + DrawsPerPoint
Exhausted == Len(points) = Target \/ draws = MaxDraws

\* generateRandomCandidates: one attempt; a point seen by its id is dropped.
\* The generator's numbers are arbitrary.
Draw ==
  /\ stage = "generate" /\ study.mode = "random" /\ Target > 0 /\ ~Exhausted
  /\ \E indices \in [DOMAIN Space.params -> 1 .. Widest] :
       /\ \A i \in DOMAIN indices : indices[i] <= Len(ChoicesOf(i))
       /\ LET c == BuildCandidate(indices)
          IN  points' = IF \E i \in DOMAIN points : Id(points[i]) = Id(c) THEN points
                        ELSE Append(points, c)
  /\ draws' = draws + 1
  /\ UNCHANGED <<study, stage, loaded, odometer, cursor, tally>>

\* The generator returns.
Generated ==
  /\ stage = "generate"
  /\ IF study.mode = "grid" THEN DomainSize = 0 \/ Capped ELSE Target = 0 \/ Exhausted
  /\ stage' = "judge"
  /\ UNCHANGED <<study, loaded, odometer, draws, points, cursor, tally>>
-----------------------------------------------------------------------------
(* The session                                                             *)

Bound(c) == EmitKernel(Space, study.shape, Decisions(Space, c, study.shape))
Reject(t, c, why) == [t EXCEPT !.rejected = Append(@, [candidate |-> c, why |-> why])]
RankedEntry(c, report) ==
  [candidate |-> c, decisions |-> Decisions(Space, c, study.shape), metrics |-> MetricsFrom(report)]

\* One candidate: legality, binding, analysis.
Judge(c) ==
  LET failing == FirstFailure(Space, c, FactsOf(study.shape), study.machine)
  IN  IF failing # <<>> THEN Reject(tally, c, failing[1].kind)
      ELSE IF ~Bindable(Space, c, study.shape) THEN Reject(tally, c, "binding")
      ELSE LET report == AnalyzeKernel(Bound(c), study.perfLevel)
           IN  IF report = <<>> THEN Reject(tally, c, "analysis")
               ELSE [tally EXCEPT !.ranked = Append(@, RankedEntry(c, report[1]))]

JudgeNext ==
  /\ stage = "judge" /\ cursor <= Len(points)
  /\ tally' = Judge(points[cursor]) /\ cursor' = cursor + 1
  /\ UNCHANGED <<study, stage, loaded, odometer, draws, points>>

RankAll ==
  /\ stage = "judge" /\ cursor > Len(points)
  /\ tally' = [tally EXCEPT !.ranked = Ranked(Space.objective, @)]
  /\ stage' = "measure" /\ cursor' = 1
  /\ UNCHANGED <<study, loaded, odometer, draws, points>>

\* measureTopCandidates: whether another candidate is visited.
Measured == UsesMeasured(Space.objective)
Limit ==
  IF study.maxAttempts = 0 THEN Len(tally.ranked) ELSE LeastOf(study.maxAttempts, Len(tally.ranked))
MeasuresOn ==
  /\ study.provider /\ study.measureTop > 0 /\ cursor <= Limit
  /\ (IF Measured THEN tally.measured ELSE tally.completed) < study.measureTop

\* An observation is positive, a rate may be zero.
ObservationValid(a) == (a.ns # <<>> => a.ns[1] > 0) /\ (a.gflops # <<>> => a.gflops[1] >= 0)

Observe(metrics, a) ==
  [metrics EXCEPT !.measured_ns = IF a.ns # <<>> THEN a.ns ELSE @,
                  !.measured_gflops = IF a.gflops # <<>> THEN a.gflops ELSE @]

\* One candidate is bound again and handed to the provider.  A candidate that
\* cannot be measured is rejected and its rank remembered; a miss leaves it.
Visit(t, a) ==
  LET r == t.ranked[cursor]
      seen == Observe(r.metrics, a)
      drop == [Reject(t, r.candidate, "measurement") EXCEPT !.dead = Append(@, cursor)]
  IN  CASE ~Bindable(Space, r.candidate, study.shape) \/ a.kind = "error" -> drop
        [] a.kind = "miss" -> [t EXCEPT !.completed = @ + (IF Measured THEN 0 ELSE 1)]
        [] a.kind = "seen" /\ ~ObservationValid(a) -> drop
        [] OTHER -> [t EXCEPT !.ranked[cursor].metrics = seen,
                              !.measured = @ + (IF HasMetrics(Space.objective, seen) THEN 1 ELSE 0),
                              !.completed = @ + 1]

MeasureNext ==
  /\ stage = "measure" /\ MeasuresOn
  /\ \E a \in Answers : tally' = [Visit(tally, a) EXCEPT !.attempts = @ + 1]
  /\ cursor' = cursor + 1
  /\ UNCHANGED <<study, stage, loaded, odometer, draws, points>>

\* MUTANT of Erase: from the front, so later ranks have moved.
EraseForward(ranked, ranks) ==
  FoldLeft(LAMBDA s, i : SubSeq(s, 1, i - 1) \o SubSeq(s, i + 1, Len(s)), ranked, ranks)

\* The rejected ranks are erased from the back.
Erase(ranked, ranks) ==
  FoldLeft(LAMBDA s, i : SubSeq(s, 1, i - 1) \o SubSeq(s, i + 1, Len(s)), ranked, Reverse(ranks))

\* buildScheduleRecords
ScheduleRecords(ranked) ==
  [i \in DOMAIN ranked |->
     [workload |-> Space.workload, shape |-> study.shape, candidate |-> ranked[i].candidate,
      tile |-> ranked[i].decisions, metrics |-> ranked[i].metrics, level |-> study.perfLevel]]

\* A measured objective keeps the candidates with a value for every metric and
\* sorts them again; the list is cut to the requested length.
Finish(left) ==
  LET kept == IF Measured
              THEN Ranked(Space.objective, SelectSeq(left, LAMBDA r : HasMetrics(Space.objective, r.metrics)))
              ELSE left
      top == IF study.topK # 0 THEN SubSeq(kept, 1, LeastOf(study.topK, Len(kept))) ELSE kept
  IN  [tally EXCEPT
         !.ranked = top, !.records = ScheduleRecords(top),
         !.cut = SubSeq(kept, Len(top) + 1, Len(kept)),
         !.unrankable =
           IF Measured THEN SelectSeq(left, LAMBDA r : ~HasMetrics(Space.objective, r.metrics)) ELSE <<>>]

Conclude ==
  /\ stage = "measure" /\ ~MeasuresOn
  /\ tally' = Finish(Erase(tally.ranked, tally.dead))
  /\ stage' = "reported"
  /\ UNCHANGED <<study, loaded, odometer, draws, points, cursor>>

StudyNext ==
  \/ LoadStudy \/ GridPoint \/ Draw \/ Generated \/ JudgeNext \/ RankAll \/ MeasureNext \/ Conclude
-----------------------------------------------------------------------------
(* Properties                                                              *)

\* The indices of the n-th point, as the digits of n.
Digits(n) ==
  LET stride(j) ==
        FoldLeft(LAMBDA s, p : s * Len(p.choices), 1, SubSeq(Space.params, j + 1, Len(Space.params)))
  IN  [j \in DOMAIN Space.params |-> (((n - 1) \div stride(j)) % Len(ChoicesOf(j))) + 1]

\* The grid visits the points in the order of their mixed-radix number, from
\* the preferred one on, each once, and stops at the cap or at the end; a
\* random session draws distinct points of the space, no more than it asked.
GenerationSound ==
  loaded # <<>> =>
    IF study.mode = "grid"
    THEN /\ Len(points) <= DomainSize
         /\ stage = "generate" \/ cursor = 1 =>
              \A i \in DOMAIN points : points[i] = BuildCandidate(Digits(i))
         /\ stage \notin {"load", "generate"} =>
              Len(points) = LeastOf(OrElse(study.cap, DomainSize), DomainSize)
    ELSE /\ Len(points) <= Target
         /\ \A i, j \in DOMAIN points : i # j => points[i] # points[j]

\* When the session reports, every candidate that was generated is in exactly
\* one of the lists; the ranked ones, and after them the ones cut off, are best
\* first by the figures they ended with; a measured objective ranks only
\* candidates with all its figures; the provider was asked no more often, and
\* answered no more often, than allowed.
ReportSound ==
  stage = "reported" =>
    LET order == tally.ranked \o tally.cut
        lists == [i \in DOMAIN order |-> order[i].candidate]
                 \o [i \in DOMAIN tally.unrankable |-> tally.unrankable[i].candidate]
                 \o [i \in DOMAIN tally.rejected |-> tally.rejected[i].candidate]
    IN  /\ Len(lists) = Len(points) /\ ToSet(lists) = ToSet(points)
        /\ \A i, j \in DOMAIN order : i < j => ~Outranks(Space.objective, order[j], order[i])
        /\ Measured => \A i \in DOMAIN order : HasMetrics(Space.objective, order[i].metrics)
        /\ study.maxAttempts # 0 => tally.attempts <= study.maxAttempts
        /\ tally.measured <= study.measureTop

TuningSound == GenerationSound /\ ReportSound

\* Every candidate that is ranked has a kernel that computes its workload; when
\* the space limits the live tiles, the tiles the kernel keeps staged stay
\* within the share of the memory the rule grants (for weights as wide as the
\* inputs: the kernel stages weights in the input's type); and when it asks for
\* whole tiles and a fitting fragment, the kernel runs the fragment declared.
BoundSound ==
  stage \in {"measure", "reported"} =>
    \A i \in DOMAIN tally.ranked :
      LET c == tally.ranked[i].candidate
          d == tally.ranked[i].decisions
          asks(kind) == \E j \in DOMAIN Space.constraints : Space.constraints[j].kind = kind
      IN  /\ Contracts(Bound(c), study.shape)
          /\ /\ asks("pipeline_live_tiles") /\ d.staging = "sram"
             /\ DTypeBytes[study.shape.input] = DTypeBytes[study.shape.weight]
             => d.stages * StagedBytes(Bound(c)) <= SramLimit(MemoryOfKind(study.machine, "sram")[1].capacity)
          /\ asks("tail_supported") /\ asks("tile_hierarchy_compatible") /\ d.tail = "none" =>
               d.tile = TileOf(c) /\ d.fragment = d.declared
=============================================================================
