--------------------------- MODULE PlanEvaluation ---------------------------
(***************************************************************************)
(* From a proposed covering to a plan the search may keep                  *)
(* (CompletePlanEvaluation.cpp), for one shape or for the samples of a     *)
(* profile (ShapeProfile.cpp, ShapeSpecialization.cpp, weightedMeanCost).  *)
(*                                                                         *)
(* A proposal is finalized, bound to a private clone, checked against the  *)
(* target, analyzed, compared with every memory and the byte budget, and   *)
(* finalized again to see that its decisions are stable.  The passes it    *)
(* calls are components of their own; an evaluation carries their answers: *)
(*   finalize, retry   "ok", "capacity" or "structural", with and without  *)
(*                     the materialized flag; physical: all facts resolved *)
(*   bind, covered     whether the clone binds and the target covers it;   *)
(*                     dropped: decisions the binder did not materialize   *)
(*   analysis          "complete", "incomplete" or "refused"               *)
(*   live, peaks       whether the plan's own liveness resolves, and its   *)
(*                     peaks; extracted: the peaks of the kernel's text    *)
(*   attaches, events  whether the event stream fits the plan's machine,   *)
(*                     and whether the plan's own events can be scheduled  *)
(*   probe             "same", "other" or "fails" when finalized again     *)
(*   trouble, peaksAt  what fails at a sample, and its peaks               *)
(* A JSON value is <<kind, content>>; an object is the sequence of its     *)
(* entries, each with the text between the quotes and the name it spells.  *)
(***************************************************************************)
EXTENDS WorkloadContract, FiniteSetsExt

CONSTANTS
    Evaluations,    \* the proposals, with their options and the answers
    NodeCapacity,   \* the bytes of every memory of the machine
    MaxBytes,       \* the largest uint64_t
    MaxDouble       \* the largest finite double

ASSUME CapacityAssumption ==
    /\ MaxBytes \in Nat /\ MaxDouble \in Nat
    /\ \A m \in DOMAIN NodeCapacity : NodeCapacity[m] \in 0 .. MaxBytes

VARIABLES
    eval,      \* the evaluation under way
    estep,     \* how far it has come
    shapes,    \* the profile and the shape contract, when there is one
    eplan,     \* the plan as decided and scored so far
    ruling     \* accepted, rejected with a code, or an error that ends the search

evalVars == <<eval, estep, shapes, eplan, ruling>>

NoPlan == [materialized |-> TRUE, cost |-> <<>>, scored |-> FALSE, snapshot |-> FALSE, samples |-> <<>>]

----------------------------------------------------------------------------
(* The profile.                                                            *)

Infinite == MaxDouble + 1      \* a number whose double is not finite

RECURSIVE ObjectsIn(_)
ObjectsIn(v) ==
    CASE v[1] = "object" -> {v[2]} \cup UNION {ObjectsIn(v[2][i].value) : i \in DOMAIN v[2]}
      [] v[1] = "array"  -> UNION {ObjectsIn(v[2][i]) : i \in DOMAIN v[2]}
      [] OTHER -> {}
\* rejectDuplicateKeys, which compares the text and not the name.
RepeatsKey(json) ==
    \E object \in ObjectsIn(json) : \E i, j \in DOMAIN object : i # j /\ object[i].text = object[j].text

\* Of entries that spell one name the parser keeps the last.
NamesIn(object) == {object[i].name : i \in DOMAIN object}
FieldOf(object, name) == object[Max({i \in DOMAIN object : object[i].name = name})].value
Integer(v, least) == v[1] = "integer" /\ v[2] \in least .. VersionModulus - 1
Number(v) == v[1] \in {"integer", "number"}

ParsesSample(v) ==
    /\ v[1] = "object"
    /\ NamesIn(v[2]) \subseteq {"values", "weight"} /\ "values" \in NamesIn(v[2])
    /\ LET values == FieldOf(v[2], "values")
       IN  values[1] = "object" /\ \A n \in NamesIn(values[2]) : FieldOf(values[2], n)[1] = "integer"
    /\ "weight" \in NamesIn(v[2]) => Number(FieldOf(v[2], "weight"))
ParsesProfile(json) ==
    /\ ~RepeatsKey(json) /\ json[1] = "object"
    /\ NamesIn(json[2]) \subseteq {"version", "samples", "aggregation", "max_variants"}
    /\ {"version", "samples"} \subseteq NamesIn(json[2])
    /\ Integer(FieldOf(json[2], "version"), 0)
    /\ FieldOf(json[2], "samples")[1] = "array"
    /\ \A v \in Range(FieldOf(json[2], "samples")[2]) : ParsesSample(v)
    /\ "aggregation" \in NamesIn(json[2]) => FieldOf(json[2], "aggregation")[1] = "string"
    /\ "max_variants" \in NamesIn(json[2]) => Integer(FieldOf(json[2], "max_variants"), 1)

SampleIn(object) ==
    [values |-> LET values == FieldOf(object, "values")[2] IN [n \in NamesIn(values) |-> FieldOf(values, n)[2]],
     weight |-> IF "weight" \in NamesIn(object) THEN FieldOf(object, "weight")[2] ELSE 1]
ParseProfile(json) ==
    [version |-> FieldOf(json[2], "version")[2],
     aggregation |-> IF "aggregation" \in NamesIn(json[2]) THEN FieldOf(json[2], "aggregation")[2] ELSE "weighted_mean",
     samples |-> LET list == FieldOf(json[2], "samples")[2] IN [i \in DOMAIN list |-> SampleIn(list[i][2])]]

----------------------------------------------------------------------------
(* Shapes.                                                                 *)

\* toShapeContract
ToShapeContract(c) ==
    [symbols |-> c.symbols,
     ports |-> [i \in DOMAIN c.ports |-> [name |-> c.ports[i].name, direction |-> c.ports[i].direction,
                                          shape |-> c.ports[i].shape]]]
\* validateShapeContract
ShapeContractValid(c) ==
    /\ \A i, j \in DOMAIN c.ports : c.ports[i].name = c.ports[j].name => i = j
    /\ \A i \in DOMAIN c.ports : c.ports[i].shape # <<>>
    /\ \A d \in PortDims(c) : IF IsSymbol(d) THEN d[2] # "" /\ d[2] \in DOMAIN c.symbols ELSE d[2] >= 0
    /\ \A s \in DOMAIN c.symbols : SymbolValid(c, s)
AdmitsValue(bound, v) ==
    v >= 0 /\ v >= bound.min /\ (\A m \in Range(bound.max) : v <= m) /\ v % bound.multiple_of = 0

\* checkSampleSymbols
BindsSymbols(c, values) == DOMAIN values = DOMAIN c.symbols
\* validateShapeProfile: a sample binds the declared symbols, no others, to
\* extents an invocation could bind.
ValidProfile(c, p) ==
    /\ p.version = 1 /\ p.aggregation = "weighted_mean" /\ p.samples # <<>>
    /\ ShapeContractValid(c)
    /\ \A i \in DOMAIN p.samples :
          /\ p.samples[i].weight # Infinite /\ p.samples[i].weight > 0
          /\ BindsSymbols(c, p.samples[i].values)
          /\ \A s \in DOMAIN c.symbols : AdmitsValue(c.symbols[s], p.samples[i].values[s])

\* argumentPorts: the contract port of every argument, from the bindings or in
\* order.  Ports count from 0.
PortsOfArguments(k, c) ==
    IF k.bindings # <<>> THEN k.bindings[1]
    ELSE [a \in DOMAIN k.queries |-> [role |-> c.ports[a].direction, port |-> a - 1]]
PortsNamed(k, c) ==
    IF k.bindings = <<>> THEN Len(k.queries) <= Len(c.ports)
    ELSE /\ Len(k.bindings[1]) = Len(k.queries)
         /\ \A a \in DOMAIN k.queries :
               /\ k.bindings[1][a].role \in Directions
               /\ k.bindings[1][a].port \in 0 .. Len(c.ports) - 1

ExtentIn(c, p, axis, values) ==
    LET d == c.ports[p + 1].shape[axis + 1] IN IF IsSymbol(d) THEN values[d[2]] ELSE d[2]
\* resolveArgumentDims, for all arguments: every query becomes a constant.
ResolvedDims(k, c, ports, values) ==
    [a \in DOMAIN k.queries |-> [q \in DOMAIN k.queries[a] |-> ExtentIn(c, ports[a].port, k.queries[a][q], values)]]
\* A query whose axis is no constant is asked for axis -1.
DimsResolve(k, c, ports) ==
    \A a \in DOMAIN k.queries :
       /\ c.ports[ports[a].port + 1].direction = ports[a].role
       /\ \A axis \in Range(k.queries[a]) : axis \in 0 .. Len(c.ports[ports[a].port + 1].shape) - 1
\* materializeShapeSample, up to folding the constants.
SampleMaterializes(k, c, values) ==
    /\ ShapeContractValid(c) /\ DOMAIN values = DOMAIN c.symbols
    /\ \A s \in DOMAIN c.symbols : AdmitsValue(c.symbols[s], values[s])
    /\ PortsNamed(k, c) /\ DimsResolve(k, c, PortsOfArguments(k, c))

\* What the analysis of a clone finds depends on its extents; the figures
\* tell clones apart.
Figures(dims) ==
    LET OfArgument(a) == FoldLeft(LAMBDA sum, q : sum + q * dims[a][q], 0, [q \in DOMAIN dims[a] |-> q])
        total == FoldLeft(LAMBDA sum, a : sum + a * OfArgument(a), 1, [a \in DOMAIN dims |-> a])
    IN  [latency |-> total, bytes |-> 3 * total]

----------------------------------------------------------------------------
(* Bytes.                                                                  *)

TotalOf(peaks) == FoldSet(LAMBDA m, sum : sum + peaks[m], 0, DOMAIN peaks)
\* occupancyOverflow: a key that is no memory of the machine is skipped.
OverCapacity(peaks) == \E m \in DOMAIN peaks \cap DOMAIN NodeCapacity : peaks[m] > NodeCapacity[m]
\* MUTANT of OverBudget: the total wraps.
OverBudgetWrapped(peaks, budget) == budget # <<>> /\ TotalOf(peaks) % (MaxBytes + 1) > budget[1]
\* budgetOverflow: an overflowing total is over any budget.
OverBudget(peaks, budget) == budget # <<>> /\ (TotalOf(peaks) > MaxBytes \/ TotalOf(peaks) > budget[1])

Weighted(allocations) ==
    [i \in DOMAIN allocations |->
       [allocations[i] EXCEPT !.bytes = @ * allocations[i].simultaneous]]
\* The chain of aliases, followed as often as there are allocations.
RootOf(allocations, i) ==
    FoldLeft(LAMBDA at, n : IF allocations[at].alias_of = 0 THEN at ELSE allocations[at].alias_of,
             i, [n \in DOMAIN allocations |-> n])
Aliases(allocations, i) == allocations[i].alias_of # 0
AliasesFit(allocations) ==
    /\ \A i \in DOMAIN allocations : Aliases(allocations, i) => allocations[i].alias_of \in DOMAIN allocations
    /\ \A i \in DOMAIN allocations : Aliases(allocations, i) =>
          LET root == RootOf(allocations, i) IN
          /\ ~Aliases(allocations, root)
          /\ ~allocations[i].borrowed /\ ~allocations[allocations[i].alias_of].borrowed
          /\ allocations[i].memory = allocations[root].memory
          /\ allocations[i].bytes <= allocations[root].bytes
HeldAt(allocations, m, t) ==
    LET roots == {RootOf(allocations, i) : i \in {j \in DOMAIN allocations :
                     /\ allocations[j].memory = m
                     /\ t \in allocations[j].begin .. allocations[j].end}}
    IN  FoldSet(LAMBDA r, sum : sum + allocations[r].bytes, 0, roots)
Steps(allocations) == UNION {a.begin .. a.end : a \in Range(allocations)}
\* computePeakStorage: nothing when the records do not make sense.
PeakStorage(allocations) ==
    LET held == [m \in {a.memory : a \in Range(allocations)} |->
                   Max({HeldAt(allocations, m, t) : t \in Steps(allocations)})]
    IN  IF /\ \A a \in Range(allocations) : a.begin <= a.end
           /\ AliasesFit(allocations)
           /\ \A m \in DOMAIN held : held[m] <= MaxBytes
        THEN <<held>> ELSE <<>>

\* weightedMeanCost adds up the weights and the weighted latencies and bytes.
MeanSums(samples) ==
    LET Total(Of(_)) == FoldSeq(LAMBDA s, sum : sum + Of(s), 0, samples)
    IN  [weight |-> Total(LAMBDA s : s.weight),
         latency |-> Total(LAMBDA s : s.weight * s.cost.latency),
         bytes |-> Total(LAMBDA s : s.weight * s.cost.bytes)]
\* A total that is no finite double has no mean.
MeanRepresentable(samples) == \A total \in Range(MeanSums(samples)) : total <= MaxDouble
\* The latency as a quotient, the bytes rounded.
WeightedMean(samples) ==
    LET sums == MeanSums(samples)
    IN  [latency |-> <<sums.latency, sums.weight>>,
         bytes |-> (2 * sums.bytes + sums.weight) \div (2 * sums.weight)]

----------------------------------------------------------------------------
(* The evaluation.                                                         *)

RequireComplete == eval.strict \/ eval.complete

EvalInit ==
    /\ eval \in Evaluations /\ estep = "shapes"
    /\ shapes = <<>> /\ eplan = NoPlan /\ ruling = <<>>

Rule(r) == estep' = "ruled" /\ ruling' = r
RejectPlan(code) == Rule(<<"rejected", code>>)
Goto(s) == estep' = s /\ UNCHANGED ruling

\* The caller reads the profile and describes the source's contract, before
\* any proposal is looked at.
LoadShapes ==
    /\ estep = "shapes"
    /\ IF eval.profile = <<>> THEN Goto("finalize") /\ UNCHANGED shapes
       ELSE IF ParsesProfile(eval.profile[1])
       THEN /\ shapes' = <<[profile |-> ParseProfile(eval.profile[1]), contract |-> ToShapeContract(eval.contract)]>>
            /\ Goto("finalize")
       ELSE Rule(<<"error">>) /\ UNCHANGED shapes
    /\ UNCHANGED <<eval, eplan>>

\* finalizeStoragePlan; a partial report tries again without the physical
\* demands, from the proposal.
FinalizePlan ==
    /\ estep = "finalize"
    /\ IF eval.finalize = "ok"
       THEN IF RequireComplete /\ ~eval.physical THEN RejectPlan("unsupported") /\ UNCHANGED eplan
            ELSE Goto("bind") /\ UNCHANGED eplan
       ELSE IF RequireComplete
       THEN RejectPlan(IF eval.finalize = "capacity" THEN "capacity" ELSE "unsupported") /\ UNCHANGED eplan
       ELSE IF eval.retry = "ok"
       THEN Goto("bind") /\ eplan' = [NoPlan EXCEPT !.materialized = FALSE]
       ELSE RejectPlan(IF "capacity" \in {eval.finalize, eval.retry} THEN "capacity" ELSE "unsupported") /\ UNCHANGED eplan
    /\ UNCHANGED <<eval, shapes>>

\* A refused binding is a property of the candidate only when the executable
\* contract asked for it.
BindPreview ==
    /\ estep = "bind"
    /\ IF ~eval.bind
       THEN (IF eval.strict THEN RejectPlan("unsupported") ELSE Rule(<<"error">>)) /\ UNCHANGED eplan
       ELSE IF eval.dropped /\ RequireComplete THEN RejectPlan("unsupported") /\ UNCHANGED eplan
       ELSE /\ eplan' = [eplan EXCEPT !.materialized = @ /\ ~eval.dropped]
            /\ IF ~eval.covered \/ (shapes # <<>> /\ ~eval.complete) THEN RejectPlan("unsupported")
               ELSE Goto(IF shapes # <<>> THEN "domain" ELSE "analyze")
    /\ UNCHANGED <<eval, shapes>>

\* The peaks an analysis reports: the plan's own when its liveness resolves.
Peaks == IF eval.live THEN eval.peaks ELSE eval.extracted

\* evaluateSampledPlan: the whole domain first.
CertifyDomain ==
    /\ estep = "domain"
    /\ IF ~ValidProfile(shapes[1].contract, shapes[1].profile) THEN Rule(<<"error">>)
       ELSE IF eval.analysis = "refused" \/ ~eval.live THEN RejectPlan("unsupported")
       ELSE IF OverCapacity(eval.peaks) \/ OverBudget(eval.peaks, eval.budget) THEN RejectPlan("capacity")
       ELSE Goto("sample")
    /\ UNCHANGED <<eval, shapes, eplan>>

Samples == shapes[1].profile.samples
NextSample == Len(eplan.samples) + 1
ScoreSample ==
    /\ estep = "sample" /\ NextSample <= Len(Samples)
    /\ \E sample \in {Samples[NextSample]} : \E peaks \in {eval.peaksAt[NextSample]} :
          IF \/ ~SampleMaterializes(eval.kernel, shapes[1].contract, sample.values)
             \/ eval.kernel.kernels # 1
             \/ NextSample \in eval.trouble
          THEN RejectPlan("unsupported") /\ UNCHANGED eplan
          ELSE IF OverCapacity(peaks) \/ OverBudget(peaks, eval.budget)
          THEN RejectPlan("capacity") /\ UNCHANGED eplan
          ELSE \E dims \in {ResolvedDims(eval.kernel, shapes[1].contract,
                                         PortsOfArguments(eval.kernel, shapes[1].contract), sample.values)} :
               /\ eplan' = [eplan EXCEPT
                              !.samples = Append(@, [values |-> sample.values, weight |-> sample.weight,
                                                     cost |-> Figures(dims), peaks |-> peaks]),
                              !.snapshot = Len(Samples) = 1 /\ eval.attaches]
               /\ UNCHANGED <<estep, ruling>>
    /\ UNCHANGED <<eval, shapes>>
\* A mean that cannot be represented is an error, not a rejection.
Aggregate ==
    /\ estep = "sample" /\ NextSample > Len(Samples)
    /\ IF MeanRepresentable(eplan.samples)
       THEN eplan' = [eplan EXCEPT !.cost = <<WeightedMean(eplan.samples)>>, !.scored = TRUE] /\ Goto("stable")
       ELSE Rule(<<"error">>) /\ UNCHANGED eplan
    /\ UNCHANGED <<eval, shapes>>

\* analyzeSelectedKernel: a complete analysis also needs the plan's liveness.
Refuses == eval.analysis = "refused" \/ (RequireComplete /\ (eval.analysis = "incomplete" \/ ~eval.live))
\* The work of a static kernel.
StaticCost == [latency |-> <<Figures(eval.kernel.queries).latency, 1>>, bytes |-> Figures(eval.kernel.queries).bytes]
AnalyzePlan ==
    /\ estep = "analyze"
    /\ IF Refuses
       THEN IF RequireComplete THEN RejectPlan("unsupported") /\ UNCHANGED eplan
            ELSE eplan' = [eplan EXCEPT !.materialized = FALSE] /\ Goto("fallback")
       ELSE IF OverCapacity(Peaks) \/ OverBudget(Peaks, eval.budget) THEN RejectPlan("capacity") /\ UNCHANGED eplan
       ELSE /\ eplan' = [eplan EXCEPT !.cost = <<StaticCost>>, !.scored = TRUE, !.snapshot = eval.attaches]
            /\ Goto("stable")
    /\ UNCHANGED <<eval, shapes>>

\* scoreFromOwnEvents: nothing is scored when they cannot be built or scheduled.
OwnEventsScore == eval.events
\* The budget holds for a plan that could not be analyzed too; its score is
\* that of its own events, if they can be scheduled.
FallbackScore ==
    /\ estep = "fallback"
    /\ \E weighted \in {Weighted(eval.allocations)} : \E peak \in {PeakStorage(weighted)} :
          IF eval.budget # <<>> /\ ~eval.live /\ \E a \in Range(weighted) : a.bytes > MaxBytes THEN RejectPlan("capacity")
          ELSE IF eval.budget # <<>> /\ ~eval.live /\ peak = <<>> THEN RejectPlan("unsupported")
          ELSE IF eval.budget # <<>> /\ OverBudget(IF eval.live THEN eval.peaks ELSE peak[1], eval.budget) THEN RejectPlan("capacity")
          ELSE Rule(<<"accepted">>)
    /\ eplan' = [eplan EXCEPT !.scored = OwnEventsScore]
    /\ UNCHANGED <<eval, shapes>>

\* The decisions must reproduce their identity.  Every pass starts from the
\* same plan, so the first decides.
CheckStable ==
    /\ estep = "stable"
    /\ IF eval.probe # "same" /\ RequireComplete THEN RejectPlan("unsupported") ELSE Rule(<<"accepted">>)
    /\ eplan' = [eplan EXCEPT !.materialized = @ /\ RequireComplete]
    /\ UNCHANGED <<eval, shapes>>

EvalDone == estep = "ruled" /\ UNCHANGED evalVars

EvalNext ==
    \/ LoadShapes \/ FinalizePlan \/ BindPreview \/ CertifyDomain \/ ScoreSample \/ Aggregate
    \/ AnalyzePlan \/ FallbackScore \/ CheckStable \/ EvalDone
EvalSpec == EvalInit /\ [][EvalNext]_evalVars

----------------------------------------------------------------------------
(* Properties.                                                             *)

Accepted == ruling = <<"accepted">>
WithinBudget(peaks) == \A b \in Range(eval.budget) : TotalOf(peaks) <= b
Fits(peaks) == ~OverCapacity(peaks) /\ WithinBudget(peaks)

\* A plan that may be ranked and executed was decided, bound, covered and
\* analyzed to the end, and fits by the plan's own liveness, at every sample.
CompleteIsExecutable ==
    Accepted /\ eplan.materialized =>
        /\ RequireComplete /\ eval.finalize = "ok" /\ eval.physical
        /\ eval.bind /\ ~eval.dropped /\ eval.covered /\ eval.probe = "same"
        /\ eplan.scored /\ eval.live /\ Fits(eval.peaks)
        /\ \A i \in DOMAIN eplan.samples : Fits(eplan.samples[i].peaks)
\* What complete evaluation was asked for is never answered with less, and a
\* partial report stays within the budget, analyzed or not.
PartialIsMarked ==
    Accepted => /\ eplan.materialized <=> RequireComplete
                /\ ~RequireComplete /\ eval.live => WithinBudget(eval.peaks)
                /\ ~RequireComplete /\ ~eval.live /\ eval.analysis = "refused" /\ eval.budget # <<>> =>
                      WithinBudget(PeakStorage(Weighted(eval.allocations))[1])
\* A rejection counted against the memories has a memory or a budget that is
\* too small.
CapacityHasCause ==
    ruling = <<"rejected", "capacity">> =>
        \/ "capacity" \in {eval.finalize, eval.retry} /\ eval.finalize # "ok"
        \/ ~Fits(eval.peaks) \/ ~Fits(eval.extracted)
        \/ \E i \in DOMAIN eval.peaksAt : ~Fits(eval.peaksAt[i])
        \/ \E i \in DOMAIN eval.allocations : eval.allocations[i].bytes * eval.allocations[i].simultaneous > MaxBytes
        \/ \E peak \in Range(PeakStorage(Weighted(eval.allocations))) : ~WithinBudget(peak)
\* The extents of a call with these values, argument by argument.
CallDims(values) ==
    [a \in DOMAIN eval.kernel.queries |->
       LET port == IF eval.kernel.bindings = <<>> THEN a ELSE eval.kernel.bindings[1][a].port + 1
           shape == shapes[1].contract.ports[port].shape
       IN  [q \in DOMAIN eval.kernel.queries[a] |->
              LET d == shape[eval.kernel.queries[a][q] + 1] IN IF IsSymbol(d) THEN values[d[2]] ELSE d[2]]]
\* Under the executable contract a candidate ends the search only for its
\* profile: it cannot be read, is not one of the source's shapes, or weighs its
\* samples so that, all of them scored, a weighted total is no finite double.
OnlyRequestsFail ==
    ruling = <<"error">> /\ eval.strict =>
        /\ eval.profile # <<>>
        /\ shapes # <<>> /\ ValidProfile(shapes[1].contract, shapes[1].profile) =>
              /\ Len(eplan.samples) = Len(Samples)
              /\ \E figure \in {"latency", "bytes"} :
                    MapThenSumSet(LAMBDA i : eplan.samples[i].weight * Figures(CallDims(eplan.samples[i].values))[figure],
                                  DOMAIN eplan.samples) > MaxDouble

\* No entry of the profile is spelled in two ways.
SpelledOnce ==
    \A json \in Range(eval.profile) : \A o \in ObjectsIn(json) : \A i \in DOMAIN o : o[i].text = o[i].name
\* Every sample of the profile is scored, in order, for extents a call can
\* have, each given once in the text; the mean lies between the samples, and
\* events stand for a single sample only.
SamplesScored ==
    Accepted /\ shapes # <<>> =>
        LET written == FieldOf(eval.profile[1][2], "samples")[2] IN
        /\ Len(eplan.samples) = Len(written)
        /\ \A i \in DOMAIN eplan.samples :
              /\ eplan.samples[i].cost = Figures(CallDims(eplan.samples[i].values))
              /\ \A s \in DOMAIN shapes[1].contract.symbols :
                    /\ AdmitsValue(shapes[1].contract.symbols[s], eplan.samples[i].values[s])
                    /\ SpelledOnce =>
                          {e.value[2] : e \in {x \in Range(FieldOf(written[i][2], "values")[2]) : x.name = s}}
                             = {eplan.samples[i].values[s]}
        /\ eplan.snapshot => Len(eplan.samples) = 1
        /\ \E i, j \in DOMAIN eplan.samples : \E mean \in Range(eplan.cost) :
              /\ eplan.samples[i].cost.latency * mean.latency[2] <= mean.latency[1]
              /\ mean.latency[1] <= eplan.samples[j].cost.latency * mean.latency[2]
              /\ mean.bytes \in eplan.samples[i].cost.bytes .. eplan.samples[j].cost.bytes

\* The search may trust the evaluation of a proposal: what it keeps can be
\* executed and fits, what it drops for capacity does not fit, a candidate
\* ends it only for its profile, and a valid one only when its weighted totals
\* overflow a double; and a sampled score is that of the profile's calls
\* (evaluateCompletePlan, evaluateSampledPlan).
EvaluateSound ==
    CompleteIsExecutable /\ PartialIsMarked /\ CapacityHasCause /\ OnlyRequestsFail /\ SamplesScored
=============================================================================
