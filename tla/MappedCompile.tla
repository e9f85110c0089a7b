--------------------------- MODULE MappedCompile ---------------------------
(***************************************************************************)
(* Compiling a selected plan (MappedCompilation.cpp,                       *)
(* TargetCoverageValidation.cpp, BoundaryDerivation.cpp and the emitter    *)
(* interface of MappingTarget.h).                                          *)
(*                                                                         *)
(* The plan is bound to a clone; the target's emitters are asked whether   *)
(* they cover the operations placed on them; the clone is verified; the    *)
(* operations are regrouped by placed instance, every group is validated   *)
(* and every bundle verified, and only then do emitters rewrite, one group *)
(* after the other.  The rest is shared with a concrete kernel that has no *)
(* plan: contract limits, the backend pipeline, the calling convention and *)
(* the code.  A caller may stop after any stage.                           *)
(*                                                                         *)
(* An operation's index is its place in the walk of the module; a value is *)
(* <<operation, result>>.  Work outside these files answers per task:      *)
(* task.ok is the set of such stages that succeed.                         *)
(***************************************************************************)
EXTENDS WorkloadContract, FiniteSetsExt

CONSTANTS
    Tasks,           \* what a caller may compile: module, plan, target, options
    MaxDescriptors   \* kMappedMaxDescriptors

BoundedForm == [tile_load |-> "bounded_load", tile_store |-> "bounded_store", mma |-> "partial_k"]

\* What the types of a module, a plan and a request say.  An operation reads
\* results of operations before it, or arguments, which have index 0; only an
\* operation with a bounded form has extents; a symbol names one kernel.
IsOperation(ops, i) ==
    /\ {"node", "op", "args", "results", "pure", "block", "valid", "capacity", "mapping"} \subseteq DOMAIN ops[i]
    /\ ops[i].results \in Nat
    /\ \A a \in DOMAIN ops[i].args : LET v == ops[i].args[a] IN
          /\ v = <<v[1], v[2]>> /\ v[1] \in 0 .. i - 1
          /\ v[1] # 0 => v[2] \in 1 .. ops[v[1]].results
    /\ DOMAIN ops[i].valid # {} => ops[i].op \in DOMAIN BoundedForm
IsBody(ops) == ops \in Seq(Range(ops)) /\ \A i \in DOMAIN ops : IsOperation(ops, i)
IsPlan(plan) == plan \in Seq(Range(plan)) /\ \A i \in DOMAIN plan : plan[i].instance \in Nat
IsTask(t) ==
    /\ {"entry", "ops", "plan", "target", "stop", "backend", "symbol", "functions", "kernels", "ok",
        "connections"} \subseteq DOMAIN t
    /\ t.entry \in {"mapped", "concrete", "hook"} /\ t.backend \in {"selected", "reference"}
    /\ t.stop \in {"mapped_micro", "target_lowered", "lowered", "executable"}
    /\ IsBody(t.ops) /\ IsPlan(t.plan)
    /\ t.kernels \in Seq(Range(t.kernels))
    /\ \A i, j \in DOMAIN t.kernels : t.kernels[i].symbol = t.kernels[j].symbol => i = j

ASSUME TasksAssumption == \A t \in Tasks : IsTask(t)

VARIABLES
    task,      \* the compilation under way
    cstep,     \* how far it has come
    clone,     \* the operations of the private module
    funcs,     \* and the functions beside its kernel
    groups,    \* the selected groups, by instance
    handed,    \* the groups an emitter rewrote, in order
    tally,     \* the counters of MappedCompilation
    outcome    \* what the caller gets: stop reached, module, executable

compileVars == <<task, cstep, clone, funcs, groups, handed, tally, outcome>>

Placements == task.plan
Target == task.target
Selected == task.backend = "selected"
NoTally == [verified |-> 0, target |-> 0, reference |-> 0, reference_groups |-> 0, realized |-> 0]
NoOutcome == [stopped |-> "none", module |-> FALSE, executable |-> FALSE]

----------------------------------------------------------------------------
(* The emitters of a target.                                               *)

HasEmitter(key) == key \in DOMAIN Target.emitters
\* DeclaredTargetEmitter::verify: its own key, and parameters of a plain type.
BundleVerifies(bundle) ==
    HasEmitter(bundle.emitter) /\ bundle.parameters \in {"none", "integer", "string"}
\* verifyOperations and hasLoweringFor ask about the covered operations.
CoversOperations(bundle, ids) ==
    BundleVerifies(bundle) /\ \A i \in Range(ids) : clone[i].op \in Target.emitters[bundle.emitter].covers
HasLoweringFor(bundle, ids) ==
    \A i \in Range(ids) : clone[i].op \in Target.emitters[bundle.emitter].lowers

\* classifyExtent, needsBounded: an extent that is not a constant equal to
\* the capacity needs the bounded form, and so does one without a capacity.
ProvenFull(extent, capacity) == capacity > 0 /\ extent = <<"constant", capacity>>
NeedsBounded(extents, capacities) ==
    \/ Len(extents) # Len(capacities)
    \/ \E i \in DOMAIN extents : ~ProvenFull(extents[i], capacities[i])
\* boundaryRequirementsFor.  A store or contraction without bounds is full.
OperationBoundary(o) ==
    IF o.op = "tile_load" /\ NeedsBounded(o.valid, o.capacity) THEN {"bounded_load"}
    ELSE IF o.op = "tile_store" /\ o.valid # <<>> /\ NeedsBounded(o.valid, o.capacity) THEN {"bounded_store"}
    ELSE IF o.op = "mma" /\ o.valid # <<>> /\ NeedsBounded(o.valid, o.capacity) THEN {"partial_k"}
    ELSE {}
BoundaryRequirements(ids) == UNION {OperationBoundary(clone[i]) : i \in Range(ids)}
\* verifyBoundary: the default emitter has no bounded form at all.
BoundaryVerifies(bundle, ids) ==
    BoundaryRequirements(ids) \subseteq Target.emitters[bundle.emitter].bounded

----------------------------------------------------------------------------
(* The groups of a mapped module.                                          *)

PlacedNodes == {Placements[i].node : i \in DOMAIN Placements}
Instances == {Placements[i].instance : i \in DOMAIN Placements}
PlacementOf(n) == Placements[CHOOSE i \in DOMAIN Placements : Placements[i].node = n]
PlacedOn(instance) == {i \in DOMAIN Placements : Placements[i].instance = instance}

Mapped == {i \in DOMAIN clone : clone[i].mapping # <<>>}
Mapping(i) == clone[i].mapping[1]

\* The walk that both readers make: a record agrees with the plan's placement
\* of its node, no node repeats, and a group has one bundle and one rule.
RecordsAgree ==
    /\ \A i, j \in DOMAIN Placements : Placements[i].node = Placements[j].node => i = j
    /\ \A i \in Mapped :
          /\ Mapping(i).node \in PlacedNodes
          /\ PlacementOf(Mapping(i).node).instance = Mapping(i).instance
          /\ PlacementOf(Mapping(i).node).bundle = Mapping(i).bundle
    /\ \A i, j \in Mapped :
          /\ Mapping(i).node = Mapping(j).node => i = j
          /\ Mapping(i).instance = Mapping(j).instance =>
                /\ Mapping(i).bundle = Mapping(j).bundle
                /\ PlacementOf(Mapping(i).node).rule = PlacementOf(Mapping(j).node).rule
    /\ PlacedNodes = {Mapping(i).node : i \in Mapped}

\* Some numbers, the smallest first.
SmallestFirst(numbers) ==
    [n \in 1 .. Cardinality(numbers) |->
        CHOOSE i \in numbers : Cardinality({j \in numbers : j < i}) = n - 1]
MembersOf(instance) == SmallestFirst({i \in Mapped : Mapping(i).instance = instance})
BundleOf(instance) == Placements[CHOOSE i \in PlacedOn(instance) : TRUE].bundle

\* verifyTargetOperationCoverage.
TargetCovers ==
    /\ RecordsAgree
    /\ \A instance \in Instances :
          /\ Len(MembersOf(instance)) = Cardinality(PlacedOn(instance))
          /\ CoversOperations(BundleOf(instance), MembersOf(instance))
          /\ BoundaryVerifies(BundleOf(instance), MembersOf(instance))

\* One round of the regrouping: every member, in source order, whose operands
\* inside the group have been taken.
Operands(i) == {clone[i].args[a][1] : a \in DOMAIN clone[i].args} \ {0}
Ready(i, source, taken) ==
    i \notin Range(taken) /\ Operands(i) \cap Range(source) \subseteq Range(taken)
TakeReady(source, taken) ==
    LET upTo[n \in 0 .. Len(source)] ==
            IF n = 0 THEN taken
            ELSE LET before == upTo[n - 1]
                 IN  IF Ready(source[n], source, before) THEN Append(before, source[n]) ELSE before
    IN  upTo[Len(source)]
\* Rounds until all are taken; what is left then is cyclic.
Regroup(source) ==
    LET round[n \in 0 .. Len(source)] == IF n = 0 THEN <<>> ELSE TakeReady(source, round[n - 1])
    IN  round[Len(source)]

Users(v) == {i \in DOMAIN clone : v \in Range(clone[i].args)}
Results(i) == {<<i, r>> : r \in 1 .. clone[i].results}

\* MUTANT of LiveOutside: only the last member's value is looked at.
LiveOutsideLast(ids) ==
    \E v \in Results(Last(ids)) : Users(v) \cap Range(ids) # {} /\ Users(v) \ Range(ids) # {}

\* A value read both inside and outside its group.
LiveOutside(ids) ==
    \E i \in Range(ids) : \E v \in Results(i) :
        Users(v) \cap Range(ids) # {} /\ Users(v) \ Range(ids) # {}
\* A side effect of the same block between two members.
EffectBetween(ids) ==
    \E j \in DOMAIN clone \ Range(ids) :
        /\ clone[j].block = clone[Head(ids)].block /\ ~clone[j].pure
        /\ \E a, b \in Range(ids) : a < j /\ j < b

GroupValid(instance, ids) ==
    /\ Len(ids) = Cardinality(PlacedOn(instance))
    /\ Len(ids) = Len(MembersOf(instance))
    /\ \A i \in Range(ids) : clone[i].block = clone[Head(ids)].block
    /\ ~LiveOutside(ids)
    /\ ~EffectBetween(ids)

\* The connections that touch a group, through a consumer or a port.
Touching(instance) ==
    {c \in DOMAIN task.connections :
        \/ instance \in task.connections[c].consumers
        \/ \E n \in task.connections[c].ports : n \in PlacedNodes /\ PlacementOf(n).instance = instance}

GroupOf(instance) ==
    [instance |-> instance, bundle |-> BundleOf(instance),
     ids |-> Regroup(MembersOf(instance)), connections |-> Touching(instance)]

----------------------------------------------------------------------------
(* The limits of the calling convention.                                   *)

AbiTypes == {"f32", "bf16", "f16", "i32", "i8"}
DescriptorFits(c, port) ==
    /\ Len(port.shape) = 2
    /\ \A d \in Range(port.shape) :
          IF c.version = 1 THEN ~IsSymbol(d) /\ d[2] > 0 ELSE IsSymbol(d) \/ d[2] >= 0
    /\ port.element_type \in AbiTypes
    /\ port.direction = "input" => port.effect # "read_write"
    /\ port.direction = "output" => port.effect = "write"

\* The contract that is checked: the entry's, or else the first kernel's.
CheckedContract ==
    LET with == {k \in DOMAIN task.kernels : task.kernels[k].contract # <<>>}
        entry == {k \in with : task.kernels[k].symbol = task.symbol}
    IN  IF with = {} THEN <<>> ELSE task.kernels[IF entry # {} THEN Max(entry) ELSE Min(with)].contract

ExecutableContract ==
    CheckedContract # <<>> =>
        LET decoded == DecodeContract(CheckedContract[1]) IN
        /\ decoded # <<>>
        /\ Len(decoded[1].ports) <= MaxDescriptors
        /\ \A p \in Range(decoded[1].ports) : DescriptorFits(decoded[1], p)

----------------------------------------------------------------------------
(* The compilation.                                                        *)

CompileInit ==
    /\ task \in Tasks /\ cstep = "begin" /\ clone = task.ops /\ funcs = task.functions /\ groups = <<>> /\ handed = <<>>
    /\ tally = NoTally /\ outcome = NoOutcome

Fail == cstep' = "failed" /\ outcome' = NoOutcome
Stopped(stop, module) ==
    cstep' = "stopped" /\ outcome' = [stopped |-> stop, module |-> module, executable |-> ~module]
\* Stop here if the caller asked for it, go on otherwise.
ReachStop(stop, next) ==
    IF task.stop = stop THEN Stopped(stop, TRUE) ELSE cstep' = next /\ UNCHANGED outcome

\* The three entry points.  A concrete kernel has no plan and no target; the
\* test hook lowers a module that is mapped already.
BeginCompile ==
    /\ cstep = "begin"
    /\ CASE task.entry = "mapped" ->
              IF Selected /\ ~Target.requirements THEN Fail ELSE cstep' = "bind" /\ UNCHANGED outcome
         [] task.entry = "concrete" ->
              IF Selected \/ task.stop \in {"mapped_micro", "target_lowered"} THEN Fail
              ELSE cstep' = "finish" /\ UNCHANGED outcome
         [] OTHER -> cstep' = "group" /\ UNCHANGED outcome
    /\ UNCHANGED <<task, clone, funcs, groups, handed, tally>>

\* bindPlan stamps the clone; coverage and the source hash are read from it.
BindAndCover ==
    /\ cstep = "bind"
    /\ clone' = [i \in DOMAIN clone |->
                   IF clone[i].node \notin PlacedNodes THEN clone[i]
                   ELSE [clone[i] EXCEPT !.mapping =
                           <<[node |-> clone[i].node, instance |-> PlacementOf(clone[i].node).instance,
                              bundle |-> PlacementOf(clone[i].node).bundle]>>]]
    /\ IF "bind" \in task.ok THEN cstep' = "cover" /\ UNCHANGED outcome ELSE Fail
    /\ UNCHANGED <<task, funcs, groups, handed, tally>>
CoverOperations ==
    /\ cstep = "cover"
    /\ IF TargetCovers /\ "hash" \in task.ok THEN ReachStop("mapped_micro", "verify") ELSE Fail
    /\ UNCHANGED <<task, clone, funcs, groups, handed, tally>>
VerifyMapped ==
    /\ cstep = "verify"
    /\ IF "verify" \in task.ok THEN cstep' = "group" /\ UNCHANGED outcome ELSE Fail
    /\ UNCHANGED <<task, clone, funcs, groups, handed, tally>>

\* lowerSelectedOperations: every group is validated ...
GroupOperations ==
    /\ cstep = "group"
    /\ IF RecordsAgree
       THEN \E order \in {SmallestFirst(Instances)} :
            \E found \in {[g \in DOMAIN order |-> GroupOf(order[g])]} :
              IF \A g \in DOMAIN found : GroupValid(found[g].instance, found[g].ids)
              THEN groups' = found /\ cstep' = "resolve" /\ UNCHANGED outcome
              ELSE Fail /\ UNCHANGED groups
       ELSE Fail /\ UNCHANGED groups
    /\ UNCHANGED <<task, clone, funcs, handed, tally>>

\* ... every emitter is resolved and every bundle verified ...
ResolveEmitters ==
    /\ cstep = "resolve"
    /\ IF \A g \in DOMAIN groups : BundleVerifies(groups[g].bundle)
       THEN /\ tally' = [tally EXCEPT !.verified = @ + Len(groups)]
            /\ cstep' = "lower" /\ UNCHANGED outcome
       ELSE Fail /\ UNCHANGED tally
    /\ UNCHANGED <<task, clone, funcs, groups, handed>>

\* ... and then, in the order of the instances, rewritten or left to the
\* reference bridge.
LowerGroup ==
    /\ cstep = "lower" /\ groups # <<>>
    /\ IF ~HasLoweringFor(Head(groups).bundle, Head(groups).ids)
       THEN /\ tally' = [tally EXCEPT !.reference = @ + Len(Head(groups).ids), !.reference_groups = @ + 1]
            /\ UNCHANGED <<cstep, handed, outcome>>
       ELSE IF Head(groups).instance \in Target.fails
       THEN Fail /\ UNCHANGED <<tally, handed>>
       ELSE /\ handed' = Append(handed, Head(groups))
            /\ tally' = [tally EXCEPT !.target = @ + Len(Head(groups).ids)]
            /\ UNCHANGED <<cstep, outcome>>
    /\ groups' = Tail(groups)
    /\ UNCHANGED <<task, clone, funcs>>
EndLowering ==
    /\ cstep = "lower" /\ groups = <<>>
    /\ IF task.entry = "hook" THEN Stopped("target_lowered", TRUE) ELSE ReachStop("target_lowered", "finish")
    /\ UNCHANGED <<task, clone, funcs, groups, handed, tally>>

\* finishCompilation: semantic functions go, and an executable must fit the
\* descriptors before anything is lowered for it.
StripAndCheck ==
    /\ cstep = "finish"
    /\ funcs' = funcs \ {"semantic"}
    /\ IF \/ Selected /\ ~Target.requirements
          \/ task.stop = "executable" /\ ~ExecutableContract
       THEN Fail ELSE cstep' = "backend" /\ UNCHANGED outcome
    /\ UNCHANGED <<task, clone, groups, handed, tally>>

\* lowerToBackendForm, and what the selected backend says it realized of the
\* groups it was handed.
LowerToBackend ==
    /\ cstep = "backend"
    /\ \E realized \in IF Selected THEN 0 .. Len(handed) ELSE {0} :
          /\ tally' = [tally EXCEPT !.realized = realized]
          /\ IF /\ "semantic" \notin funcs
                /\ Selected => Target.pipeline
                /\ "passes" \in task.ok
                /\ Selected => realized # 0 /\ tally.verified # 0 /\ tally.reference_groups = 0
             THEN ReachStop("lowered", "entry") ELSE Fail
    /\ UNCHANGED <<task, clone, funcs, groups, handed>>

\* The calling convention and the code, for a named entry only.
MakeExecutable ==
    /\ cstep = "entry"
    /\ IF /\ task.symbol # "" /\ "prepare" \in task.ok
          /\ Selected => "late" \in task.ok
          /\ "create" \in task.ok
       THEN Stopped("executable", FALSE) ELSE Fail
    /\ UNCHANGED <<task, clone, funcs, groups, handed, tally>>

CompileDone == cstep \in {"failed", "stopped"} /\ UNCHANGED compileVars

CompileNext ==
    \/ BeginCompile \/ BindAndCover \/ CoverOperations \/ VerifyMapped \/ GroupOperations
    \/ ResolveEmitters \/ LowerGroup \/ EndLowering \/ StripAndCheck \/ LowerToBackend
    \/ MakeExecutable \/ CompileDone
CompileSpec == CompileInit /\ [][CompileNext]_compileVars

----------------------------------------------------------------------------
(* Properties.                                                             *)

\* The operations an operation needs, directly or not: its operands, and what
\* is in every set of earlier operations that holds theirs and its members'.
Before(i) ==
    LET read == Operands(i)
        rest == (1 .. i - 1) \ read
    IN  read \cup {j \in rest : \A r \in SUBSET rest :
                      (\A k \in read \cup r : Operands(k) \subseteq read \cup r) => j \in r}
NodesOf(ids) == {Mapping(i).node : i \in Range(ids)}
\* The members with a result that no other member reads, or with none.
Exits(ids) ==
    {i \in Range(ids) : Results(i) = {} \/ \E v \in Results(i) : Users(v) \cap Range(ids) = {}}

\* An emitter gets the operations the plan placed on its instance, whole and
\* once, each after what it needs; a group that ends in one operation can be
\* computed there: no operation outside it lies between two members.
HandedWhole ==
    \A h \in Range(handed) :
        /\ NodesOf(h.ids) = {Placements[i].node : i \in PlacedOn(h.instance)}
        /\ Len(h.ids) = Cardinality(PlacedOn(h.instance))
        /\ \A a, b \in DOMAIN h.ids : h.ids[a] \in Before(h.ids[b]) => a < b
        /\ Cardinality(Exits(h.ids)) = 1 =>
              \A j \in DOMAIN clone \ Range(h.ids) :
                  Before(j) \cap Range(h.ids) = {} \/ \A m \in Range(h.ids) : j \notin Before(m)
\* Nothing is rewritten unless the target has an emitter for, and verifies,
\* every bundle of the plan.
NothingHalfResolved ==
    handed # <<>> =>
        \A i \in DOMAIN Placements :
           Placements[i].bundle.emitter \in DOMAIN Target.emitters /\ Placements[i].bundle.parameters # "other"
\* What the caller asked for is what it gets, with either the module or the
\* executable; a failure leaves neither.
AsAsked ==
    /\ cstep = "stopped" /\ task.entry # "hook" => outcome.stopped = task.stop
    /\ outcome.executable <=> outcome.stopped = "executable"
    /\ cstep = "stopped" <=> outcome.module \/ outcome.executable
\* Code said to be of the selected target has every placed operation from an
\* emitter of that target, which covers its bounded accesses.
SelectedIsTarget ==
    Selected /\ outcome.stopped \in {"lowered", "executable"} =>
        /\ UNION {NodesOf(handed[h].ids) : h \in DOMAIN handed} = PlacedNodes
        /\ tally.target = Len(Placements) /\ tally.realized # 0
        /\ \A h \in Range(handed) : \A i \in Range(h.ids) : \A e \in DOMAIN clone[i].valid :
              clone[i].valid[e] # <<"constant", clone[i].capacity[e]>> =>
                  BoundedForm[clone[i].op] \in Target.emitters[h.bundle.emitter].bounded
\* An executable's own contract, when it kept one, fits the descriptors.
EntryFits ==
    outcome.executable =>
        \A k \in Range(task.kernels) : k.symbol = task.symbol /\ k.contract # <<>> =>
            /\ DecodeContract(k.contract[1]) # <<>>
            /\ LET c == DecodeContract(k.contract[1])[1] IN
               Len(c.ports) <= MaxDescriptors /\ \A p \in Range(c.ports) : DescriptorFits(c, p)
\* Every placed operation is accounted to the emitter or to the bridge.
LoweringAccounted ==
    task.entry # "concrete" /\ cstep = "stopped" /\ outcome.stopped # "mapped_micro" =>
        tally.target + tally.reference = Len(Placements)

\* A compilation hands emitters whole groups and only after all were
\* accepted, returns what was asked for, and credits a target only with what
\* its emitters rewrote (MappedCompilation.cpp).
CompileSound ==
    HandedWhole /\ NothingHalfResolved /\ AsAsked /\ SelectedIsTarget /\ EntryFits /\ LoweringAccounted
=============================================================================
