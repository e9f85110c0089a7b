------------------------------ MODULE KernelCall ------------------------------
(***************************************************************************)
(* How a lowered kernel becomes callable, and how one call gets into it.   *)
(*                                                                         *)
(* prepareMappedKernelForInvocation turns a lowered function into a        *)
(* KernelAbi: version 1 with static ports and results as trailing outputs, *)
(* version 2 with the ports of a symbolic contract and explicit argument   *)
(* bindings.  createMappedExecutable checks the ABI against the function   *)
(* once more and compiles it.  A caller then enters the code through       *)
(*                                                                         *)
(*   typed   MappedExecutable::invoke with InvocationBuffer2D,             *)
(*   legacy  the deprecated invoke with untagged descriptors,              *)
(*   python  prepare_invocation, the C API and FrontendCompilation, which  *)
(*           adds a private destination and ends in the typed invoke.      *)
(*                                                                         *)
(* The generated code trusts its types: it touches rows * columns elements *)
(* from the aligned pointer whatever the descriptor says.  Addresses and   *)
(* byte counts are words up to WordMax, extents integers up to IntMax, so  *)
(* the overflow tests are real.                                            *)
(***************************************************************************)
EXTENDS Integers, Sequences, FiniteSets, SequencesExt

CONSTANTS
  Kernels,         \* lowered functions, with contract and bindings
  Buffers,         \* the descriptors a native caller may build
  Providers,       \* the objects a Python caller may pass
  VariantSets,     \* lists of guarded variants of the same kernels
  WordMax,         \* the largest uintptr_t and uint64_t
  IntMax,          \* the largest int64_t
  MaxDescriptors,  \* kMappedMaxDescriptors
  DestAddress      \* where the frontend's private destination was allocated

VARIABLES
  kernel,  \* the function being prepared or called
  callPc,
  abi,     \* the recorded KernelAbi
  mode,    \* the entry the current call came through
  leases,  \* the descriptors prepare_invocation has built so far
  bufs,    \* the accepted native descriptors, inputs before outputs
  why,     \* the check that refused the last call
  values,  \* the extents bound to the symbols
  args     \* the descriptors passed to the code, in signature order

invocationVars == <<kernel, callPc, abi, mode, leases, bufs, why, values, args>>

ASSUME WordAssumption == WordMax \in Nat /\ IntMax \in 0 .. WordMax /\ MaxDescriptors \in Nat

\* Element types of the ABI and their sizes; any other name is unsupported.
ElementBytes == [i8 |-> 1, f16 |-> 2, f32 |-> 4]
Supported == DOMAIN ElementBytes

\* A dimension is a constant or a symbol; kDynamic marks an unknown extent.
NoSymbol == 0
kDynamic == -1
NoMax    == -1
Constant(n) == [sym |-> NoSymbol, ext |-> n]
SymbolDim(s)   == [sym |-> s, ext |-> kDynamic]
IsConstant(d) == d.sym = NoSymbol

NoAbi == [version |-> 0, inputs |-> <<>>, outputs |-> <<>>,
          arguments |-> <<>>, results |-> <<>>, symbols |-> <<>>]
NullPointer == 0
-----------------------------------------------------------------------------
(* Shape contracts                                                         *)

\* hasMultipleInRange: the first multiple from the minimum on.
HasMultipleInRange(min, max, divisor) ==
  LET delta == divisor - (min % divisor)
  IN  /\ divisor > 0
      /\ \/ min % divisor = 0
         \/ /\ min <= IntMax - delta
            /\ max = NoMax \/ min + delta <= max

UsedSymbols(ports) ==
  { d.sym : d \in UNION { ToSet(p.dims) : p \in ToSet(ports) } } \ {NoSymbol}

\* validateShapeContract, validateSymbolTable
ValidContract(ports, symbols) ==
  /\ \A p \in ToSet(ports) :
       p.dims # <<>> /\ \A d \in ToSet(p.dims) : IsConstant(d) => d.ext >= 0
  /\ \A s \in DOMAIN symbols :
       /\ symbols[s].min >= 0
       /\ symbols[s].max # NoMax => symbols[s].max >= symbols[s].min
       /\ symbols[s].multipleOf > 0
       /\ HasMultipleInRange(symbols[s].min, symbols[s].max,
                             symbols[s].multipleOf)
  /\ DOMAIN symbols = UsedSymbols(ports)

\* The declared constraints of one symbol.
Admits(c, v) ==
  v >= c.min /\ (c.max = NoMax \/ v <= c.max) /\ v % c.multipleOf = 0

\* The extents given for one symbol, over all ports.
ExtentsOf(ports, extents, s) ==
  { extents[pd[1]][pd[2]] :
      pd \in { x \in (DOMAIN ports) \X {1, 2} : ports[x[1]].dims[x[2]].sym = s } }

\* bindShapeValues: constants agree, equal symbols have equal extents, and
\* every extent is admitted.
BindsShape(ports, symbols, extents) ==
  /\ \A p \in DOMAIN ports : \A d \in DOMAIN ports[p].dims :
       /\ extents[p][d] >= 0
       /\ IsConstant(ports[p].dims[d]) => extents[p][d] = ports[p].dims[d].ext
  /\ \A s \in DOMAIN symbols :
       /\ Cardinality(ExtentsOf(ports, extents, s)) = 1
       /\ \A v \in ExtentsOf(ports, extents, s) : Admits(symbols[s], v)

\* validateShapeValues
ValidValues(symbols, vs) ==
  /\ DOMAIN vs = DOMAIN symbols
  /\ \A s \in DOMAIN vs : vs[s] >= 0 /\ Admits(symbols[s], vs[s])

\* guardHolds
GuardHolds(g, vs) ==
  /\ g.sym \in DOMAIN vs
  /\ vs[g.sym] >= 0
  /\ CASE g.kind = "divisible_by" -> g.value > 0 /\ vs[g.sym] % g.value = 0
       [] g.kind = "equal_to"     -> vs[g.sym] = g.value
       [] g.kind = "at_least"     -> vs[g.sym] >= g.value

\* classifyPredicate: what the declared domain says of a guard.
ClassifyPredicate(g, symbols) ==
  IF g.sym \notin DOMAIN symbols THEN "guard"
  ELSE
    LET c == symbols[g.sym]
        point == c.max # NoMax /\ c.min = c.max
    IN
    CASE g.kind = "divisible_by" ->
           ( CASE g.value <= 0 -> "disproven"
               [] g.value > 0 /\ c.multipleOf % g.value = 0 -> "proven"
               [] g.value > 0 /\ c.multipleOf % g.value # 0 ->
                    ( CASE point -> IF c.min % g.value = 0 THEN "proven"
                                                           ELSE "disproven"
                        [] ~point ->
                             IF HasMultipleInRange(c.min, c.max, g.value)
                             THEN "guard" ELSE "disproven" ) )
      [] g.kind = "equal_to" ->
           ( CASE \/ g.value < c.min
                  \/ c.max # NoMax /\ g.value > c.max
                  \/ g.value % c.multipleOf # 0 -> "disproven"
               [] OTHER -> IF point THEN "proven" ELSE "guard" )
      [] g.kind = "at_least" ->
           ( CASE c.min >= g.value -> "proven"
               [] c.min < g.value ->
                    IF c.max # NoMax /\ c.max < g.value
                    THEN "disproven" ELSE "guard" )

\* DynamicVariantSet::create: guarded variants, then the one baseline.
ValidVariants(vs) ==
  /\ vs # <<>>
  /\ \A i \in DOMAIN vs :
       /\ vs[i].baseline <=> vs[i].guards = {}
       /\ vs[i].baseline <=> i = Len(vs)
       /\ \A g \in vs[i].guards : g.kind = "divisible_by" => g.value > 0

\* DynamicVariantSet::select
Matches(v, vals) == ~v.baseline /\ \A g \in v.guards : GuardHolds(g, vals)
SelectVariant(vs, vals) ==
  IF \E i \in DOMAIN vs : Matches(vs[i], vals)
  THEN CHOOSE i \in DOMAIN vs :
         /\ Matches(vs[i], vals)
         /\ \A j \in 1 .. i - 1 : ~Matches(vs[j], vals)
  ELSE Len(vs)
-----------------------------------------------------------------------------
(* The ABI                                                                 *)

PortsOf(a) == a.inputs \o a.outputs

\* describe: a port with the extents of a memref type.
Describe(t) ==
  [elem |-> t.elem, dims |-> [d \in DOMAIN t.shape |-> Constant(t.shape[d])]]

\* At most MaxDescriptors ports, all of rank two and of a supported type.
FitsEnvelope(a) ==
  /\ Len(a.inputs) + Len(a.outputs) <= MaxDescriptors
  /\ \A p \in ToSet(PortsOf(a)) : Len(p.dims) = 2 /\ p.elem \in Supported

\* Every port is bound by exactly one signature argument.
BindsEveryPort(a) ==
  LET Symbolic(role, n) ==
        \A p \in 1 .. n : Cardinality({ i \in DOMAIN a.arguments :
             a.arguments[i] = [role |-> role, port |-> p] }) = 1
  IN  /\ a.arguments # <<>>
      /\ Symbolic("input", Len(a.inputs)) /\ Symbolic("output", Len(a.outputs))
      /\ Len(a.arguments) = Len(a.inputs) + Len(a.outputs)
      /\ \A r \in ToSet(a.results) : r \in 1 .. Len(a.outputs)

\* validateKernelAbi
ValidAbi(a) ==
  /\ FitsEnvelope(a)
  /\ IF a.version = 1
     THEN \A p \in ToSet(PortsOf(a)) : \A d \in ToSet(p.dims) : d.ext > 0
     ELSE ValidContract(PortsOf(a), a.symbols) /\ BindsEveryPort(a)

\* The version 1 ABI: inputs as they are, results as trailing outputs.
StaticAbi(k) ==
  [NoAbi EXCEPT !.version = 1,
                !.inputs  = [i \in DOMAIN k.sig |-> Describe(k.sig[i])],
                !.outputs = [i \in DOMAIN k.results |-> Describe(k.results[i])]]

\* The contract ports, or without a contract the arguments themselves with a
\* symbol of their own for every dynamic extent.
OwnSymbol(i, d) == 2 * i + d
ContractPorts(k) ==
  IF k.contract # <<>> THEN k.contract
  ELSE [i \in DOMAIN k.sig |->
         [role |-> k.bindings[i].role, elem |-> k.sig[i].elem,
          dims |-> [d \in {1, 2} |-> IF k.sig[i].shape[d] = kDynamic
                                     THEN SymbolDim(OwnSymbol(i, d))
                                     ELSE Constant(k.sig[i].shape[d])]]]
SymbolTable(k) ==
  IF k.contract # <<>> THEN k.symbols
  ELSE [s \in UsedSymbols(ContractPorts(k)) |->
         [min |-> 0, max |-> NoMax, multipleOf |-> 1]]

\* Where a contract port landed among those of its direction, and the ports of
\* one direction in that order.
Directed(k, role) == { q \in DOMAIN ContractPorts(k) : ContractPorts(k)[q].role = role }
Landed(k, port) ==
  Cardinality({ q \in Directed(k, ContractPorts(k)[port].role) : q <= port })

Filtered(k, role) ==
  LET Nth(n) == ContractPorts(k)[CHOOSE q \in Directed(k, role) : Landed(k, q) = n]
  IN  [n \in 1 .. Cardinality(Directed(k, role)) |->
         [elem |-> Nth(n).elem, dims |-> Nth(n).dims]]

\* checkSymbolicArgumentType
ShapeRealizes(t, p) ==
  /\ Len(t.shape) = 2 /\ Len(p.dims) = 2 /\ t.elem = p.elem /\ t.identity
  /\ \A d \in {1, 2} : t.shape[d] = p.dims[d].ext

\* prepareSymbolicInvocation: every test before the ABI is complete.
SymbolicPrepares(k) ==
  LET ports == ContractPorts(k) IN
  /\ Len(k.bindings) = Len(k.sig)
  /\ k.contract = <<>> => \A i \in DOMAIN k.sig : k.bindings[i].port = i
  /\ \A i \in DOMAIN k.bindings :
       /\ k.bindings[i].port \in DOMAIN ports
       /\ k.bindings[i].role = ports[k.bindings[i].port].role
       /\ ShapeRealizes(k.sig[i], ports[k.bindings[i].port])
  /\ \A p \in DOMAIN ports :
       Cardinality({ i \in DOMAIN k.bindings : k.bindings[i].port = p }) = 1
  /\ \A r \in DOMAIN k.resultPorts :
       /\ k.resultPorts[r] \in DOMAIN ports
       /\ ports[k.resultPorts[r]].role = "output"
  /\ Len(k.resultPorts) = Len(k.results)
  /\ k.traced

SymbolicAbi(k) ==
  [version   |-> 2,
   inputs    |-> Filtered(k, "input"),
   outputs   |-> Filtered(k, "output"),
   arguments |-> [i \in DOMAIN k.bindings |->
                   [role |-> k.bindings[i].role,
                    port |-> Landed(k, k.bindings[i].port)]],
   results   |-> [r \in DOMAIN k.resultPorts |-> Landed(k, k.resultPorts[r])],
   symbols   |-> SymbolTable(k)]

\* The prepared function's signature: results have become trailing arguments.
Signature(k) == IF k.bindings = <<>> THEN k.sig \o k.results ELSE k.sig

CallInit ==
  /\ kernel \in Kernels
  /\ callPc = "prepare"
  /\ abi = NoAbi /\ mode = "none" /\ leases = <<>> /\ bufs = <<>>
  /\ why = "none" /\ values = <<>> /\ args = <<>>

\* The ABI of a function, and whether its preparation gets through.
AbiOf(k) == IF k.bindings = <<>> THEN StaticAbi(k) ELSE SymbolicAbi(k)
Prepares(k) == (k.bindings # <<>> => SymbolicPrepares(k)) /\ ValidAbi(AbiOf(k))

\* prepareMappedKernelForInvocation
PrepareKernel ==
  /\ callPc = "prepare"
  /\ \/ Prepares(kernel) /\ abi' = AbiOf(kernel) /\ callPc' = "create"
     \/ ~Prepares(kernel) /\ callPc' = "failed" /\ UNCHANGED abi
  /\ UNCHANGED <<kernel, mode, leases, bufs, why, values, args>>

\* The port of signature position i, as an index into PortsOf.
SignaturePort(i) ==
  IF abi.arguments = <<>> THEN i
  ELSE IF abi.arguments[i].role = "input" THEN abi.arguments[i].port
  ELSE Len(abi.inputs) + abi.arguments[i].port

\* createWithAllocatorHooks: the function must still be the one the ABI tells
\* of.  Host requirements, lowering and linking may fail as well.
SameFunction ==
  /\ Len(Signature(kernel)) = Len(PortsOf(abi))
  /\ \A i \in DOMAIN Signature(kernel) :
       LET t == Signature(kernel)[i]
           p == PortsOf(abi)[SignaturePort(i)]
       IN  t.elem = p.elem /\ \A d \in {1, 2} : t.shape[d] = p.dims[d].ext

Create ==
  /\ callPc = "create"
  /\ ValidAbi(abi) /\ SameFunction
  /\ callPc' = "idle"
  /\ UNCHANGED <<kernel, abi, mode, leases, bufs, why, values, args>>

CreateFails ==
  /\ callPc = "create"
  /\ callPc' = "failed"
  /\ UNCHANGED <<kernel, abi, mode, leases, bufs, why, values, args>>
-----------------------------------------------------------------------------
(* The typed call                                                          *)

RequiredBytes(b) == b.size[1] * b.size[2] * ElementBytes[b.elem]

\* MUTANT of CheckedBytes: the products are not tested for overflow.
CheckedBytesWrapping(b) == TRUE

\* checkedMul, twice
CheckedBytes(b) ==
  b.size[1] * b.size[2] <= WordMax /\ RequiredBytes(b) <= WordMax

Compact(b) == b.stride = <<b.size[2], 1>>

\* The touched range lies in the allocation, computed without wrapping.
InAllocation(b) ==
  LET required == (RequiredBytes(b)) % (WordMax + 1) IN
  /\ b.bytes <= WordMax - b.allocated
  /\ b.aligned % ElementBytes[b.elem] = 0
  /\ b.aligned \in b.allocated .. b.allocated + b.bytes
  /\ required <= WordMax - b.aligned
  /\ b.aligned + required <= b.allocated + b.bytes

\* validateVersion1Buffer
StaticBufferOK(p, b) ==
  /\ b.elem = p.elem
  /\ b.size = <<p.dims[1].ext, p.dims[2].ext>>
  /\ b.allocated # NullPointer /\ b.aligned # NullPointer
  /\ b.offset = 0
  /\ Compact(b)
  /\ CheckedBytes(b)
  /\ InAllocation(b)

\* validateSymbolicExtents, validateSymbolicRange
SymbolicBufferOK(p, b) ==
  /\ b.elem = p.elem
  /\ b.size[1] >= 0 /\ b.size[2] >= 0
  /\ b.offset = 0
  /\ Compact(b)
  /\ CheckedBytes(b)
  /\ b.allocated = NullPointer \/ b.aligned = NullPointer =>
       /\ RequiredBytes(b) = 0
       /\ b.allocated = NullPointer /\ b.aligned = NullPointer /\ b.bytes = 0
  /\ InAllocation(b)

BufferOK(p, b) ==
  IF abi.version = 1 THEN StaticBufferOK(p, b) ELSE SymbolicBufferOK(p, b)

\* overlaps, on the touched ranges
SpansOverlap(b, c) ==
  /\ b.aligned < c.aligned + RequiredBytes(c)
  /\ c.aligned < b.aligned + RequiredBytes(b)

\* An output overlaps an input or another output.
Collides(bs) ==
  \E i, j \in DOMAIN bs :
    i < j /\ j > Len(abi.inputs) /\ SpansOverlap(bs[i], bs[j])

\* MappedExecutable::invoke: descriptors at the signature positions.
Passed(bs) == [i \in DOMAIN bs |-> bs[SignaturePort(i)]]

\* A call of the typed or of the legacy entry with some number of buffers.
CallNative(m, n) ==
  /\ callPc \in {"idle", "refused"}
  /\ mode' = m
  /\ leases' = <<>> /\ bufs' = <<>>
  /\ \/ /\ n = Len(PortsOf(abi)) /\ ~(m = "legacy" /\ abi.version = 2)
        /\ callPc' = "check" /\ why' = "none"
     \/ /\ ~(n = Len(PortsOf(abi)) /\ ~(m = "legacy" /\ abi.version = 2))
        /\ callPc' = "refused" /\ why' = "arity"
  /\ UNCHANGED <<kernel, abi, values, args>>

\* checkDescriptors, of the deprecated entry
LegacyOK(p, b) ==
  /\ b.aligned # NullPointer /\ b.offset >= 0
  /\ b.size = <<p.dims[1].ext, p.dims[2].ext>>
  /\ Compact(b)

\* The descriptor of the next port is checked.  An untagged one has neither an
\* element type nor a size, and its allocation is not looked at.
Check(b) ==
  LET p == PortsOf(abi)[Len(bufs) + 1]
      ok == IF mode = "legacy" THEN LegacyOK(p, b) ELSE BufferOK(p, b)
      given == IF mode = "legacy"
               THEN [b EXCEPT !.elem = p.elem, !.bytes = 0,
                              !.allocated = b.aligned]
               ELSE b
  IN
  /\ callPc = "check" /\ mode \in {"typed", "legacy"}
  /\ Len(bufs) < Len(PortsOf(abi))
  /\ \/ ok /\ bufs' = Append(bufs, given) /\ UNCHANGED <<callPc, why>>
     \/ ~ok /\ callPc' = "refused" /\ why' = "buffer" /\ bufs' = <<>>
  /\ UNCHANGED <<kernel, abi, mode, leases, values, args>>

Extents(bs) == [i \in DOMAIN bs |-> bs[i].size]

\* All descriptors are there: the ranges are compared and the symbols bound.
\* (Version 1 compares each output as it comes; only the error differs.)
AdmitCall ==
  LET checked == mode # "legacy" IN
  /\ callPc = "check"
  /\ Len(bufs) = Len(PortsOf(abi))
  /\ \/ /\ checked /\ Collides(bufs)
        /\ callPc' = "refused" /\ why' = "overlap"
        /\ UNCHANGED <<values, args>>
     \/ /\ checked /\ ~Collides(bufs) /\ abi.version = 2
        /\ ~BindsShape(PortsOf(abi), abi.symbols, Extents(bufs))
        /\ callPc' = "refused" /\ why' = "shape"
        /\ UNCHANGED <<values, args>>
     \/ /\ ~(checked /\ Collides(bufs))
        /\ ~(checked /\ abi.version = 2
             /\ ~BindsShape(PortsOf(abi), abi.symbols, Extents(bufs)))
        /\ callPc' = "running" /\ why' = "none"
        /\ values' = [s \in DOMAIN abi.symbols |->
                        CHOOSE v \in ExtentsOf(PortsOf(abi), Extents(bufs), s) :
                          TRUE]
        /\ args' = Passed(bufs)
  /\ UNCHANGED <<kernel, abi, mode, leases, bufs>>

\* The generated code returns.
ReturnCall ==
  /\ callPc = "running"
  /\ callPc' = "idle"
  /\ mode' = "none" /\ leases' = <<>> /\ bufs' = <<>>
  /\ values' = <<>> /\ args' = <<>>
  /\ UNCHANGED <<kernel, abi, why>>
-----------------------------------------------------------------------------
(* The call from Python                                                    *)

\* compileFrontend: one output, and every native input has one source.
Adapts ==
  LET n == Len(abi.inputs) IN
  /\ abi.version = 1 /\ Len(abi.outputs) = 1
  /\ n = Len(kernel.inputMap) + (IF kernel.destination = 0 THEN 0 ELSE 1)
  /\ \A i \in DOMAIN kernel.inputMap : kernel.inputMap[i] \in 1 .. n
  /\ kernel.destination \notin ToSet(kernel.inputMap)
  /\ ToSet(kernel.inputMap) \cup ({kernel.destination} \ {0}) = 1 .. n

PublicPorts ==
  [i \in 1 .. Len(kernel.inputMap) + 1 |->
     IF i <= Len(kernel.inputMap) THEN abi.inputs[kernel.inputMap[i]]
                                  ELSE abi.outputs[1]]

ElementCount(shape) == shape[1] * shape[2]

\* _array_interface_layout, _buffer_layout
LayoutOK(o) ==
  /\ o.address > 0
  /\ o.kind = "bytes"  => o.compact
  /\ o.kind = "buffer" => o.compact
  /\ o.kind = "array"  =>
       /\ ~o.view
       /\ o.exported => o.bytes >= ElementCount(o.shape) * ElementBytes[o.elem]

Allocation(o) ==
  IF o.kind = "array" THEN ElementCount(o.shape) * ElementBytes[o.elem] ELSE o.bytes

\* describe, against the tensor's declared type
DescribeOK(p, o, written) ==
  LET shape == <<p.dims[1].ext, p.dims[2].ext>>
      width == ElementBytes[p.elem]
  IN  /\ LayoutOK(o)
      /\ o.kind # "bytes" => o.elem = p.elem
      /\ Allocation(o) >= ElementCount(shape) * width
      /\ o.kind # "bytes" => o.shape = shape /\ o.compact
      /\ ~(written /\ o.readonly)
      /\ o.address % width = 0

Descriptor(p, o) ==
  LET shape == <<p.dims[1].ext, p.dims[2].ext>>
  IN  [allocated |-> o.address, aligned |-> o.address, offset |-> 0,
       size |-> shape, stride |-> <<shape[2], 1>>, elem |-> p.elem,
       bytes |-> Allocation(o)]

CallPython ==
  /\ callPc \in {"idle", "refused"} /\ Adapts
  /\ mode' = "python" /\ callPc' = "lease" /\ why' = "none"
  /\ leases' = <<>> /\ bufs' = <<>>
  /\ UNCHANGED <<kernel, abi, values, args>>

Lease(o) ==
  LET n == Len(leases) + 1
      ok == DescribeOK(PublicPorts[n], o, n = Len(PublicPorts))
  IN
  /\ callPc = "lease" /\ n <= Len(PublicPorts)
  /\ \/ ok /\ leases' = Append(leases, [descriptor |-> Descriptor(PublicPorts[n], o),
                                        memory |-> o.bytes])
           /\ UNCHANGED <<callPc, why>>
     \/ ~ok /\ callPc' = "refused" /\ why' = "buffer" /\ leases' = <<>>
  /\ UNCHANGED <<kernel, abi, mode, bufs, values, args>>

\* _overlaps, on the whole allocations
AllocationsOverlap(b, c) ==
  /\ b.allocated < c.allocated + c.bytes
  /\ c.allocated < b.allocated + b.bytes

\* The frontend's own destination buffer.
PrivateDestination ==
  LET p == abi.inputs[kernel.destination]
      shape == <<p.dims[1].ext, p.dims[2].ext>>
  IN  [allocated |-> DestAddress, aligned |-> DestAddress, offset |-> 0,
       size |-> shape, stride |-> <<shape[2], 1>>, elem |-> "f32",
       bytes |-> ElementCount(shape) * ElementBytes.f32]

\* MUTANT of NativeBuffers: the public order is taken for the native one.
NativeBuffersInOrder(ds) ==
  [i \in 1 .. Len(PortsOf(abi)) |->
     IF i = kernel.destination THEN PrivateDestination
     ELSE ds[IF i > Len(ds) THEN Len(ds) ELSE i]]

\* FrontendCompilation::invoke: the native inputs, from the public ones.
NativeBuffers(ds) ==
  [i \in 1 .. Len(PortsOf(abi)) |->
     IF i > Len(abi.inputs) THEN ds[Len(ds)]
     ELSE IF i = kernel.destination THEN PrivateDestination
     ELSE ds[CHOOSE j \in DOMAIN kernel.inputMap : kernel.inputMap[j] = i]]

\* prepare_invocation's last test, the C API and the native invoke.
Marshal ==
  LET ds == [i \in DOMAIN leases |-> leases[i].descriptor]
      n == Len(ds)
      clash == \E i \in 1 .. n - 1 : AllocationsOverlap(ds[i], ds[n])
      native == NativeBuffers(ds)
      ok == \A i \in DOMAIN native : BufferOK(PortsOf(abi)[i], native[i])
  IN
  /\ callPc = "lease" /\ n = Len(PublicPorts)
  /\ \/ clash /\ callPc' = "refused" /\ why' = "clash" /\ UNCHANGED bufs
     \/ ~clash /\ ok /\ callPc' = "check" /\ bufs' = native /\ UNCHANGED why
     \/ ~clash /\ ~ok /\ callPc' = "refused" /\ why' = "native" /\ bufs' = native
  /\ UNCHANGED <<kernel, abi, mode, leases, values, args>>
-----------------------------------------------------------------------------
\* What does not depend on the caller's buffers.
Proceed ==
  \/ PrepareKernel \/ Create \/ CreateFails
  \/ \E m \in {"typed", "legacy"}, n \in {0, Len(PortsOf(abi))} : CallNative(m, n)
  \/ AdmitCall \/ ReturnCall \/ CallPython \/ Marshal

CallNext == Proceed \/ (\E b \in Buffers : Check(b)) \/ (\E o \in Providers : Lease(o))

CallSpec == CallInit /\ [][CallNext]_invocationVars
-----------------------------------------------------------------------------
(* What the callers can hand over                                          *)

Extent == -(IntMax + 1) .. IntMax
Dim == { d \in [sym : Nat, ext : Extent] : d.sym # NoSymbol => d.ext = kDynamic }
Port == [elem : STRING, dims : Seq(Dim)]
Roles == {"input", "output"}

MemRef == [shape : Seq(Extent), elem : STRING, identity : BOOLEAN]
Symbols == [min : Int, max : Int, multipleOf : Int]

\* A function with the attributes it carries.
IsKernel(k) ==
  /\ k.sig \in Seq(MemRef) /\ k.results \in Seq(MemRef)
  /\ k.bindings \in Seq([role : Roles, port : Nat])
  /\ k.contract \in Seq([role : Roles, elem : STRING, dims : Seq(Dim)])
  /\ \A s \in DOMAIN k.symbols : k.symbols[s] \in Symbols
  /\ k.resultPorts \in Seq(Nat)
  /\ k.inputMap \in Seq(Nat) /\ k.destination \in Nat

\* A native descriptor is plain data: nothing relates its fields.
IsBuffer(b) ==
  b \in [allocated : 0 .. WordMax, aligned : 0 .. WordMax, offset : Extent,
         size : Extent \X Extent, stride : Extent \X Extent,
         elem : STRING, bytes : 0 .. WordMax]

\* A Python object has its memory in the address space.  What an array that does
\* not export its memory says of its extent is all there is to know.
IsProvider(o) ==
  /\ o.kind \in {"array", "buffer", "bytes"} /\ o.elem \in Supported
  /\ o.shape \in Nat \X Nat
  /\ o.address \in Nat /\ o.bytes \in Nat /\ o.address + Allocation(o) <= WordMax
  /\ o.kind = "array" /\ ~o.exported => o.bytes >= Allocation(o)

\* The frontend allocates a destination of its own: a float array that no object
\* of a caller shares memory with.
OwnsDestination(k) ==
  LET t == k.sig[k.destination]
      bytes == ElementCount(t.shape) * ElementBytes.f32
  IN  /\ k.destination \in DOMAIN k.sig /\ t.elem = "f32"
      /\ DestAddress \in Nat \ {NullPointer} /\ DestAddress % ElementBytes.f32 = 0
      /\ DestAddress + bytes <= WordMax
      /\ \A o \in Providers : o.address + Allocation(o) <= DestAddress
                              \/ DestAddress + bytes <= o.address

ASSUME CallAssumption ==
  /\ \A k \in Kernels : IsKernel(k) /\ (k.destination # 0 => OwnsDestination(k))
  /\ \A b \in Buffers : IsBuffer(b)
  /\ \A o \in Providers : IsProvider(o)
  /\ \A vs \in VariantSets :
       vs \in Seq([guards : SUBSET [kind : {"divisible_by", "equal_to", "at_least"},
                                    sym : Nat, value : Int],
                   baseline : BOOLEAN])
-----------------------------------------------------------------------------
(* Properties                                                              *)

Ways == {"none", "arity", "buffer", "overlap", "shape", "clash", "native"}

\* Type invariant; no call passes more descriptors than the widest wrapper
\* callAtArity has a case for.
CallTypeOK ==
  /\ kernel \in Kernels
  /\ callPc \in {"prepare", "create", "failed", "idle", "check", "lease",
             "running", "refused"}
  /\ mode \in {"none", "typed", "legacy", "python"}
  /\ why \in Ways
  /\ abi.version \in 0 .. 2
  /\ Len(bufs) <= MaxDescriptors /\ Len(args) <= MaxDescriptors
  /\ \A s \in DOMAIN values : values[s] \in 0 .. WordMax

\* What the code may take for the extent d at signature position i: the static
\* extent it was compiled for, or the extent of any dimension that the contract
\* declares equal.
CodeExtents(i, d) ==
  IF Signature(kernel)[i].shape[d] # kDynamic
  THEN {Signature(kernel)[i].shape[d]}
  ELSE LET s == ContractPorts(kernel)[kernel.bindings[i].port].dims[d].sym
       IN  { args[x[1]].size[x[2]] : x \in { y \in (DOMAIN args) \X {1, 2} :
               ContractPorts(kernel)[kernel.bindings[y[1]].port].dims[y[2]].sym
                 = s } }

\* The bytes the code may touch at position i.
TouchedBytes(i) ==
  UNION { args[i].aligned .. args[i].aligned + n - 1 :
            n \in { r * c * ElementBytes[Signature(kernel)[i].elem] :
                      r \in CodeExtents(i, 1), c \in CodeExtents(i, 2) } }

Writes(i) ==
  IF kernel.bindings = <<>> THEN i > Len(kernel.sig)
  ELSE kernel.bindings[i].role = "output"

\* A typed or Python call that enters the code lets it touch only bytes of the
\* allocation the caller offered for that argument, whatever equalities between
\* extents the code was compiled under, and no address wraps
\* (validateMappedInvocation before callAtArity).
TouchesOffered ==
  callPc = "running" /\ mode # "legacy" =>
    \A i \in DOMAIN args :
      /\ TouchedBytes(i) \subseteq
           args[i].allocated .. args[i].allocated + args[i].bytes - 1
      /\ TouchedBytes(i) \subseteq 0 .. WordMax

\* Nothing the code writes is read or written through another argument.
WritesDisjoint ==
  callPc = "running" /\ mode # "legacy" =>
    \A i, j \in DOMAIN args :
      i # j /\ Writes(i) => TouchedBytes(i) \cap TouchedBytes(j) = {}

\* Every argument is the buffer the caller gave for the contract port that the
\* signature binds there, and its rows are where the code looks for them; this
\* also holds for the deprecated entry.
AddressedAsCompiled ==
  callPc = "running" =>
    \A i \in DOMAIN args :
      /\ args[i].size[1] \in CodeExtents(i, 1)
      /\ args[i].size[2] \in CodeExtents(i, 2)
      /\ args[i].stride = <<args[i].size[2], 1>>
      /\ kernel.bindings # <<>> =>
           LET port == kernel.bindings[i].port
               role == kernel.bindings[i].role
               nth  == Cardinality({ q \in 1 .. port :
                         ContractPorts(kernel)[q].role = role })
           IN  args[i] = bufs[IF role = "input" THEN nth
                              ELSE Len(abi.inputs) + nth]

\* The values an admitted call binds are values a shape sample accepts, and a
\* sample made from them has the extents of that call (bindShapeValues against
\* validateShapeValues and materializeShapeSample).
SampleAgrees ==
  callPc = "running" /\ abi.version = 2 =>
    /\ ValidValues(abi.symbols, values)
    /\ \A i \in DOMAIN args : \A d \in {1, 2} :
         LET dim == ContractPorts(kernel)[kernel.bindings[i].port].dims[d]
         IN  args[i].size[d] = IF IsConstant(dim) THEN dim.ext
                                                  ELSE values[dim.sym]

\* Dispatch at run time never contradicts what was decided at compile time: a
\* variant is not selected with a disproven guard, nor passed over although
\* all its guards are proven (classifyPredicate against select).
DispatchSound ==
  callPc = "running" /\ abi.version = 2 =>
    \A vs \in VariantSets : ValidVariants(vs) =>
      LET chosen == SelectVariant(vs, values) IN
      /\ \A g \in vs[chosen].guards :
           ClassifyPredicate(g, abi.symbols) # "disproven"
      /\ \A j \in 1 .. chosen - 1 : \E g \in vs[j].guards :
           ClassifyPredicate(g, abi.symbols) # "proven"

\* What prepare_invocation lets through, the native checks never refuse, and
\* the memory behind every lease is as large as its descriptor claims wherever
\* the provider exports its memory.
PreparedIsAccepted ==
  /\ why # "native"
  /\ mode = "python" => why # "overlap"
  /\ mode = "python" /\ callPc = "running" =>
       \A i \in DOMAIN leases : leases[i].memory >= leases[i].descriptor.bytes

\* The layers agree on a call: what Python prepared the native checks accept,
\* the values bound are those a shape sample of the contract has, and the
\* variant they select is one its compile-time guards allow.
CallSound == CallTypeOK /\ SampleAgrees /\ PreparedIsAccepted /\ DispatchSound

\* Code touches only the memory each argument offers, what it writes through
\* one argument no other one sees, and each argument is the buffer of its port,
\* with its rows where the code looks for them.
MemorySound == TouchesOffered /\ WritesDisjoint /\ AddressedAsCompiled
=============================================================================
