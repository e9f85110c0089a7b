-------------------------- MODULE CandidateSource --------------------------
(***************************************************************************)
(* From a source module to the kernel of one candidate                     *)
(* (CandidateInstantiation.cpp, SourceAdapter.cpp, BindingSchema.cpp).     *)
(*                                                                         *)
(* A caller names a source by contract or by contraction shape.  A         *)
(* concrete kernel is taken as it is; a semantic function is searched for  *)
(* the root the caller counts to, which the one adapter that accepts it    *)
(* describes and realizes.  Either way the kernel is checked against the   *)
(* contract, given an identity, and returned with a receipt of which       *)
(* parameters the source realized; mapping realizes the others later.      *)
(*                                                                         *)
(* A module is a sequence of symbols, each a function with its top-level   *)
(* roots or a kernel.  A root carries what each adapter that accepts it    *)
(* answers: contract, ownership of the parameters, kernel and receipt.     *)
(***************************************************************************)
EXTENDS WorkloadContract, FiniteSetsExt

CONSTANTS
    Asks,      \* the instantiation requests of a caller
    MaxAsks    \* how many of them one caller makes

Unset == <<>>

\* What the C++ types of a request say: a list has a first and a last entry,
\* a flag one of its values, and an optional is Unset or holds a value.
IsList(s) == s \in Seq(Range(s))
IsContract(c) ==
    /\ c = [version |-> c.version, ports |-> c.ports, axes |-> c.axes, symbols |-> c.symbols,
            numerical_contract |-> c.numerical_contract, required_primitives |-> c.required_primitives]
    /\ c.version \in Nat /\ IsList(c.ports)
    /\ \A i \in DOMAIN c.ports : DecodesPort(c.ports[i])
    /\ \A a \in DOMAIN c.axes : DecodesDimension(c.axes[a])
    /\ c.symbols = [s \in DOMAIN c.symbols |->
                      [min |-> c.symbols[s].min, multiple_of |-> c.symbols[s].multiple_of, max |-> c.symbols[s].max]]
    /\ \A s \in DOMAIN c.symbols : c.symbols[s].max # Unset => c.symbols[s].max = <<c.symbols[s].max[1]>>
IsKernel(k) ==
    /\ {"inputs", "results", "argument_bindings", "result_bindings", "used", "numerical", "operations",
        "nodes", "retained", "original"} \subseteq DOMAIN k
    /\ IsList(k.inputs) /\ IsList(k.results)
    /\ k.argument_bindings # Unset => IsList(k.argument_bindings[1])
IsAnswer(r) ==
    /\ r.contract # Unset => IsContract(r.contract[1])
    /\ r.kernel # Unset => IsKernel(r.kernel[1])
    /\ r.schema # Unset => \A i \in DOMAIN r.schema[1] : r.schema[1][i].owner \in {"source", "mapping"}
    /\ {"source", "mapping"} \subseteq DOMAIN r.receipt

\* Two places of a module hold two operations: a root has the name of its own.
Places(m) ==
    UNION {{<<i, r>> : r \in {r \in DOMAIN m.items[i].roots : ~m.items[i].roots[r].terminator}} : i \in DOMAIN m.items}
RootAt(m, p) == m.items[p[1]].roots[p[2]]
IsModule(m) ==
    /\ {"items", "search_spaces", "verifies"} \subseteq DOMAIN m /\ IsList(m.items)
    /\ \A i \in DOMAIN m.items : IsList(m.items[i].roots) /\ IsKernel(m.items[i].kernel)
    /\ \A p \in Places(m) : \A key \in DOMAIN RootAt(m, p).by : IsAnswer(RootAt(m, p).by[key])
    /\ \A p, q \in Places(m) : RootAt(m, p).id = RootAt(m, q).id => p = q

IsAsk(a) ==
    /\ {"by", "mode", "module", "space", "contract", "shape", "symbol", "ordinal", "key", "registry"} \subseteq DOMAIN a
    /\ a.mode \in {"concrete", "semantic", "synthetic"}
    /\ IsContract(a.contract) /\ IsModule(a.module)

ASSUME AsksAssumption == \A a \in Asks : IsAsk(a)

VARIABLES
    ask,       \* the request under way
    sstep,     \* how far it has come
    chosen,    \* the kernel selected or realized, with its root and adapter
    made       \* the instances handed out, in order

sourceVars == <<ask, sstep, chosen, made>>

----------------------------------------------------------------------------
(* Candidate bindings and receipts.                                        *)

ParamNames(space) == {space[i].name : i \in DOMAIN space}
ParamOf(space, name) == space[CHOOSE i \in DOMAIN space : space[i].name = name]

\* A binding is integer or symbolic, never both, and one of the choices.
InDomain(p, c) ==
    \/ p.name \in DOMAIN c.values \ DOMAIN c.symbols /\ <<"integer", c.values[p.name]>> \in p.choices
    \/ p.name \in DOMAIN c.symbols \ DOMAIN c.values /\ <<"symbol", c.symbols[p.name]>> \in p.choices
CandidateBindingsValid(space, c) ==
    /\ Cardinality(ParamNames(space)) = Len(space)
    /\ DOMAIN c.values \cup DOMAIN c.symbols \subseteq ParamNames(space)
    /\ \A i \in DOMAIN space : InDomain(space[i], c)

MappingKinds == {"layout", "owner_mapping", "memory_path"}
\* A role is <<"axis", a>> or <<"port", p>>, <<"kind", k>>; an axis of no name
\* is the bare prefix.
IsAxis(role) == role[1] = "axis"
OwnerAgrees(p, b) ==
    IF b.owner = "source" THEN p.kind \notin MappingKinds
    ELSE p.kind # "integer" /\ ~IsAxis(b.role)
RoleAgrees(p, b) ==
    IF p.role # Unset THEN b.role = p.role[1]
    ELSE IF b.owner = "mapping" THEN b.role = <<"kind", p.kind>>
    ELSE IsAxis(b.role)

SchemaValid(space, schema) ==
    /\ \A i \in DOMAIN schema :
          /\ schema[i].parameter \in ParamNames(space)
          /\ schema[i].role # <<>>
          /\ schema[i].owner = "source" => schema[i].role # <<"axis", "">>
          /\ OwnerAgrees(ParamOf(space, schema[i].parameter), schema[i])
          /\ RoleAgrees(ParamOf(space, schema[i].parameter), schema[i])
    /\ \A i, j \in DOMAIN schema :
          schema[i].parameter = schema[j].parameter \/ schema[i].role = schema[j].role => i = j
    /\ ParamNames(space) = {schema[i].parameter : i \in DOMAIN schema}

Unrepeated(names) == Cardinality(Range(names)) = Len(names)
OwnedBy(schema, owner) ==
    {schema[i].parameter : i \in {j \in DOMAIN schema : schema[j].owner = owner}}

\* MUTANT of ReceiptValid: only the owner's list is looked at.
ReceiptOwnerOnly(space, c, schema, receipt, stage) ==
    /\ CandidateBindingsValid(space, c) /\ SchemaValid(space, schema)
    /\ OwnedBy(schema, "source") \subseteq Range(receipt.source)
    /\ stage = "complete" => OwnedBy(schema, "mapping") \subseteq Range(receipt.mapping)

\* validateBindingReceipt: a parameter is realized by its owner and no one
\* else; before mapping its choices are realized by no one.
ReceiptValid(space, c, schema, receipt, stage) ==
    /\ CandidateBindingsValid(space, c) /\ SchemaValid(space, schema)
    /\ Range(receipt.source) \cup Range(receipt.mapping) \subseteq ParamNames(space)
    /\ Unrepeated(receipt.source) /\ Unrepeated(receipt.mapping)
    /\ Range(receipt.source) = OwnedBy(schema, "source")
    /\ Range(receipt.mapping) = IF stage = "complete" THEN OwnedBy(schema, "mapping") ELSE {}

----------------------------------------------------------------------------
(* Selecting the source.                                                   *)

Module == ask.module
\* Where the functions, or the kernels, of a name stand; "" is any name.
Named(m, kind, symbol) ==
    {i \in DOMAIN m.items : m.items[i].kind = kind /\ symbol \in {"", m.items[i].symbol}}

\* resolveFunction: the named one, or the only one.
ResolveFunction(m, symbol) ==
    LET named == Named(m, "func", symbol)
    IN  IF named = {} \/ (symbol = "" /\ Cardinality(named) # 1) THEN Unset ELSE <<m.items[Min(named)]>>

\* matches, by the adapters the registry holds; resolve.
Accepting(registry, root) == registry \cap DOMAIN root.by
ResolveAdapter(registry, root, key) ==
    IF key # "" THEN IF key \in Accepting(registry, root) THEN <<key>> ELSE Unset
    ELSE IF Cardinality(Accepting(registry, root)) = 1
         THEN <<CHOOSE k \in Accepting(registry, root) : TRUE>>
         ELSE Unset

\* The roots an ordinal counts: those the named adapter accepts, or any.
AcceptedRoots(registry, f, key) ==
    {r \in DOMAIN f.roots :
        /\ ~f.roots[r].terminator
        /\ IF key # "" THEN key \in Accepting(registry, f.roots[r]) ELSE Accepting(registry, f.roots[r]) # {}}
\* The one that many come before.
Counted(registry, f, key, ordinal) ==
    {r \in AcceptedRoots(registry, f, key) :
        Cardinality({q \in AcceptedRoots(registry, f, key) : q < r}) = ordinal}

\* selectSourceRoot, with the adapter: nothing, or one [root, adapter, symbol].
SelectSourceRoot(m, a) ==
    LET functions == ResolveFunction(m, a.symbol)
        roots == IF functions = Unset THEN {} ELSE Counted(a.registry, functions[1], a.key, a.ordinal)
    IN  IF roots = {} THEN Unset
        ELSE LET root == functions[1].roots[Min(roots)]
                 adapters == ResolveAdapter(a.registry, root, a.key)
             IN  IF adapters = Unset THEN Unset
                 ELSE <<[root |-> root, adapter |-> adapters[1], symbol |-> functions[1].symbol]>>

\* selectConcreteKernel: ordinal zero, and one kernel of that name.
SelectConcreteKernel(m, a) ==
    LET kernels == Named(m, "kernel", a.symbol)
    IN  IF a.ordinal = 0 /\ Cardinality(kernels) = 1 THEN <<m.items[Min(kernels)]>> ELSE Unset

----------------------------------------------------------------------------
(* verifyConcreteContract.                                                 *)

HasBindings(k) == k.argument_bindings # Unset

\* The bindings of a bound kernel name every port of the contract once.
BindingsCover(k, ports) ==
    LET arguments == k.argument_bindings[1] IN
    /\ Len(arguments) = Len(k.inputs)
    /\ \A i \in DOMAIN arguments :
          arguments[i].port \in 0 .. Len(ports) - 1 /\ arguments[i].role \in Directions
    /\ \A i, j \in DOMAIN arguments : arguments[i].port = arguments[j].port => i = j
    /\ Len(arguments) = Len(ports)
    /\ k.result_bindings # Unset /\ Len(k.result_bindings[1]) = Len(k.results)
    /\ \A i \in DOMAIN k.result_bindings[1] : k.result_bindings[1][i] \in 0 .. Len(ports) - 1

\* Which port an argument and a result realize; without bindings, by position.
ArgumentPort(k, i) == IF HasBindings(k) THEN k.argument_bindings[1][i].port + 1 ELSE i
ArgumentIsOutput(k, i) == HasBindings(k) /\ k.argument_bindings[1][i].role = "output"
ResultPort(k, i) == IF HasBindings(k) THEN k.result_bindings[1][i] + 1 ELSE Len(k.inputs) + i

\* validatePort: a dynamic dimension of the signature stands for a symbol, a
\* static one for that constant.
DimensionFits(signature, d) ==
    IF signature = <<"dynamic">> THEN IsSymbol(d) ELSE d = <<"constant", signature[2]>>
PortFits(port, asOutput, type) ==
    /\ port.direction = IF asOutput THEN "output" ELSE "input"
    /\ port.effect \in IF asOutput THEN {"write"} ELSE {"read", "none"}
    /\ Len(type.shape) = Len(port.shape)
    /\ \A i \in DOMAIN port.shape : DimensionFits(type.shape[i], port.shape[i])
    /\ type.element_type = port.element_type

NumericalFits(k, c) ==
    c.numerical_contract # "" \/ k.numerical # Unset => k.numerical = <<c.numerical_contract>>
RetainedFits(k, c) ==
    k.retained # Unset =>
        LET decoded == DecodeContract(k.retained[1])
        IN  decoded # Unset /\ CanonicalContract(decoded[1]) = CanonicalContract(c)

VerifyConcreteContract(k, c) ==
    /\ IF HasBindings(k) THEN BindingsCover(k, c.ports)
       ELSE Len(c.ports) = Len(k.inputs) + Len(k.results)
    /\ \A i \in DOMAIN k.inputs :
          LET port == c.ports[ArgumentPort(k, i)] IN
          /\ PortFits(port, ArgumentIsOutput(k, i), k.inputs[i])
          /\ ~ArgumentIsOutput(k, i) /\ port.effect = "none" => i \notin k.used
    /\ \A i \in DOMAIN k.results :
          /\ HasBindings(k) => \E a \in DOMAIN k.inputs :
                            ArgumentIsOutput(k, a) /\ ArgumentPort(k, a) = ResultPort(k, i)
          /\ PortFits(c.ports[ResultPort(k, i)], TRUE, k.results[i])
    /\ NumericalFits(k, c)
    /\ Range(c.required_primitives) \subseteq k.operations
    /\ RetainedFits(k, c)

----------------------------------------------------------------------------
(* Instantiation.                                                          *)

\* The source as the compiler sees it: without its tuning directives.
SourceText(m) == [m EXCEPT !.search_spaces = 0]
BindingHash(c) == <<c.id, c.values, c.symbols>>

SourceInit == /\ ask \in Asks /\ sstep = "begin" /\ chosen = Unset /\ made = <<>>

Give(instance) ==
    /\ made' = Append(made, instance) /\ sstep' = "made"
    /\ UNCHANGED ask
RefuseAsk == sstep' = "refused" /\ UNCHANGED <<ask, made>>

\* The checks every request starts with.
BeginAsk ==
    /\ sstep = "begin" /\ chosen' = Unset
    /\ IF /\ CandidateBindingsValid(ask.space, ask.candidate)
          /\ ask.by = "contract" => ask.mode # "synthetic" /\ ValidContract(ask.contract)
       THEN /\ sstep' = CASE ask.by = "contract" -> IF ask.mode = "concrete" THEN "concrete" ELSE "root"
                          [] ask.by = "shape" /\ ask.mode = "semantic" -> "translate"
                          [] OTHER -> "direct"
            /\ UNCHANGED <<ask, made>>
       ELSE RefuseAsk

\* instantiateConcreteMicro.
TakeConcrete ==
    /\ sstep = "concrete" /\ chosen' = Unset
    /\ \E kernels \in {SelectConcreteKernel(Module, ask)} :
          IF /\ ask.space = <<>> /\ kernels # Unset
             /\ VerifyConcreteContract(kernels[1].kernel, ask.contract)
             /\ Module.verifies
             /\ kernels[1].kernel.nodes \subseteq Range(ask.contract.required_primitives)
          THEN Give([ask |-> ask, root |-> kernels[1].symbol, contract |-> <<ask.contract>>,
                     kernel |-> [kernels[1].kernel EXCEPT !.retained = EncodeContract(ask.contract)],
                     schema |-> <<>>, receipt |-> [source |-> <<>>, mapping |-> <<>>],
                     binding |-> <<ask.candidate.id, <<>>, <<>>>>, complete |-> FALSE,
                     identity |-> <<"concrete-micro-v1", SourceText(Module),
                                    CanonicalContract(ask.contract), kernels[1].symbol>>])
          ELSE RefuseAsk

\* The semantic source of a shape: the root must be that contraction, and the
\* contract is the one its adapter describes.
TranslateShape ==
    /\ sstep = "translate" /\ chosen' = Unset
    /\ \E roots \in {SelectSourceRoot(Module, ask)} :
          IF /\ roots # Unset /\ roots[1].root.shape = <<ask.shape>>
             /\ roots[1].root.by[roots[1].adapter].contract # Unset
             /\ ValidContract(roots[1].root.by[roots[1].adapter].contract[1])
          THEN /\ ask' = [ask EXCEPT !.contract = roots[1].root.by[roots[1].adapter].contract[1]]
               /\ sstep' = "root" /\ UNCHANGED made
          ELSE RefuseAsk

\* instantiateAdapterSource up to the realization: the root, what its adapter
\* says of it, and the analytical legality.
SelectRoot ==
    /\ sstep = "root"
    /\ \E roots \in {SelectSourceRoot(Module, ask)} :
          IF /\ roots # Unset
             /\ LET answers == roots[1].root.by[roots[1].adapter] IN
                /\ answers.contract # Unset
                /\ CanonicalContract(answers.contract[1]) = CanonicalContract(ask.contract)
                /\ answers.schema # Unset
                /\ ask.facts /\ (ask.machine \/ ~ask.constrained) /\ ask.legal
          THEN sstep' = "realize" /\ chosen' = roots /\ UNCHANGED <<ask, made>>
          ELSE RefuseAsk /\ chosen' = Unset

\* The kernel an adapter realizes replaces the root in the private clone; it
\* is checked like a concrete one, and so is the receipt.
Realize ==
    /\ sstep = "realize" /\ chosen' = Unset
    /\ \E answers \in {chosen[1].root.by[chosen[1].adapter]} :
          IF /\ answers.kernel # Unset
             /\ answers.inside /\ answers.is_kernel
             /\ VerifyConcreteContract(answers.kernel[1], ask.contract)
             /\ Module.verifies
             /\ ReceiptValid(ask.space, ask.candidate, answers.schema[1], answers.receipt, "source")
             /\ answers.kernel[1].nodes \subseteq Range(ask.contract.required_primitives)
          THEN Give([ask |-> ask, root |-> chosen[1].root.id, contract |-> <<ask.contract>>,
                     kernel |-> [answers.kernel[1] EXCEPT !.retained = EncodeContract(ask.contract)],
                     schema |-> answers.schema[1], receipt |-> answers.receipt,
                     binding |-> BindingHash(ask.candidate), complete |-> FALSE,
                     identity |-> <<"source-adapter-v1", SourceText(Module),
                                    CanonicalContract(ask.contract), chosen[1].adapter,
                                    chosen[1].symbol, ask.ordinal>>])
          ELSE RefuseAsk

\* The other sources of a shape: the binder's kernel, or the first kernel of
\* the module if it was made for this shape.
DirectKernels ==
    LET kernels == Named(Module, "kernel", "")
        first == Module.items[Min(kernels)].kernel
    IN  IF ask.mode = "synthetic" THEN ask.synthetic
        ELSE IF ask.space = <<>> /\ kernels # {} /\ first.original = <<ask.shape>> /\ first.contractions
             THEN <<first>>
             ELSE Unset
TakeDirect ==
    /\ sstep = "direct" /\ chosen' = Unset
    /\ \E kernels \in {DirectKernels} :
          IF kernels = Unset THEN RefuseAsk
          ELSE Give([ask |-> ask, root |-> "", contract |-> Unset, kernel |-> kernels[1],
                     schema |-> <<>>, receipt |-> [source |-> <<>>, mapping |-> <<>>],
                     binding |-> BindingHash(ask.candidate), complete |-> FALSE,
                     identity |-> <<"graph", kernels[1].nodes>>])

\* completeMappingReceipt: the mapping-owned choices a plan consumes.
CompleteReceipt ==
    /\ sstep = "made" /\ ~Last(made).complete /\ Last(made).contract # Unset
    /\ \E consumed \in SUBSET OwnedBy(Last(made).schema, "mapping") :
          \E receipt \in {[Last(made).receipt EXCEPT !.mapping = SetToSeq(consumed)]} :
             /\ ReceiptValid(ask.space, ask.candidate, Last(made).schema, receipt, "complete")
             /\ made' = [made EXCEPT ![Len(made)] = [@ EXCEPT !.receipt = receipt, !.complete = TRUE]]
    /\ UNCHANGED <<ask, sstep, chosen>>

\* The caller goes on to another request.
AskAgain ==
    /\ sstep = "made" /\ Len(made) < MaxAsks
    /\ ask' \in Asks /\ sstep' = "begin" /\ UNCHANGED <<chosen, made>>

SourceDone == sstep \in {"made", "refused"} /\ UNCHANGED sourceVars

SourceNext ==
    \/ BeginAsk \/ TakeConcrete \/ TranslateShape \/ SelectRoot \/ Realize \/ TakeDirect
    \/ CompleteReceipt \/ AskAgain \/ SourceDone
SourceSpec == SourceInit /\ [][SourceNext]_sourceVars

----------------------------------------------------------------------------
(* Properties.                                                             *)

TypeAt(k, place) == IF place[1] = "argument" THEN k.inputs[place[2]] ELSE k.results[place[2]]
Destination(k, place) ==
    IF HasBindings(k) THEN place[1] = "argument" /\ k.argument_bindings[1][place[2]].role = "output"
    ELSE place[1] = "result"

\* The ports of the contract are the places a caller passes buffers for, one
\* each: every argument is one of them, outputs go to destinations, and the
\* buffer a contract describes is of the type the kernel was written for.
Implements(k, c) ==
    LET places == {<<"argument", i>> : i \in DOMAIN k.inputs}
                     \cup (IF HasBindings(k) THEN {} ELSE {<<"result", i>> : i \in DOMAIN k.results})
    IN  \E at \in [DOMAIN c.ports -> places] :
          /\ {at[p] : p \in DOMAIN c.ports} = places /\ Cardinality(places) = Len(c.ports)
          /\ \A p \in DOMAIN c.ports :
                /\ (c.ports[p].direction = "output") = Destination(k, at[p])
                /\ Len(TypeAt(k, at[p]).shape) = Len(c.ports[p].shape)
                /\ TypeAt(k, at[p]).element_type = c.ports[p].element_type
                /\ \A d \in DOMAIN c.ports[p].shape :
                      IsSymbol(c.ports[p].shape[d]) <=> TypeAt(k, at[p]).shape[d] = <<"dynamic">>
                /\ c.ports[p].effect = "none" => at[p][2] \notin k.used

\* An instance can be handed back as a concrete source: what it retained
\* decodes to the contract it was made for, and it passes the same checks.
Replayable(i) ==
    /\ DecodeContract(i.kernel.retained[1]) # Unset
    /\ CanonicalContract(DecodeContract(i.kernel.retained[1])[1]) = CanonicalContract(i.contract[1])
    /\ VerifyConcreteContract(i.kernel, i.contract[1])

\* Two requests for one root of one source, whatever the schedule.
SameSource(a, b) ==
    /\ a.ask.mode = b.ask.mode /\ a.root = b.root
    /\ SourceText(a.ask.module) = SourceText(b.ask.module)
    /\ a.contract # Unset /\ b.contract # Unset
    /\ CanonicalContract(a.contract[1]) = CanonicalContract(b.contract[1])
\* Both count their roots the same way.
CountedAlike(a, b) == a.ask.key = b.ask.key /\ a.ask.registry = b.ask.registry

\* The kernel of a contract implements it and can be replayed; instances that
\* count roots alike share an identity exactly when they are schedules of one
\* root; every parameter is realized at most once, by the stage that can, and
\* all are once a plan completed the receipt.  Kernels of a shape were made
\* for it (CandidateInstantiation.cpp, BindingSchema.cpp, SourceAdapter.cpp).
InstantiateSound ==
    /\ \A n \in DOMAIN made :
          LET i == made[n] IN
          /\ i.contract # Unset => Implements(i.kernel, i.contract[1]) /\ Replayable(i)
          /\ Range(i.receipt.source) \cap Range(i.receipt.mapping) = {}
          /\ \A p \in Range(i.receipt.source) : ParamOf(i.ask.space, p).kind \notin MappingKinds
          /\ i.complete => Range(i.receipt.source) \cup Range(i.receipt.mapping) = ParamNames(i.ask.space)
          /\ i.ask.by = "shape" /\ i.ask.mode # "synthetic" =>
                (i.contract = Unset => i.kernel.original = <<i.ask.shape>>)
    /\ \A n, m \in DOMAIN made :
          made[n].contract # Unset /\ made[m].contract # Unset /\ CountedAlike(made[n], made[m]) =>
              (made[n].identity = made[m].identity <=> SameSource(made[n], made[m]))
=============================================================================
