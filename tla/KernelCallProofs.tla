--------------------------- MODULE KernelCallProofs ---------------------------
(***************************************************************************)
(* Proofs about KernelCall, for every set of functions, descriptors and    *)
(* providers and every width of a word.  Once a function is created, its   *)
(* ABI is fixed and every position of the signature has a port of its own; *)
(* a call that is admitted has one accepted descriptor per port.  What the *)
(* code may touch follows from these two alone.                            *)
(***************************************************************************)
EXTENDS KernelCall, SequenceLemmas

BufferRec == [allocated : 0 .. WordMax, aligned : 0 .. WordMax, offset : Extent,
              size : Extent \X Extent, stride : Extent \X Extent,
              elem : STRING, bytes : 0 .. WordMax]

Built == callPc \notin {"prepare", "failed"}
Callable == Built /\ callPc # "create"

\* The ABI is the one of the function, and both still agree.
Prepared ==
  /\ kernel \in Kernels
  /\ Built => abi = AbiOf(kernel) /\ Prepares(kernel)
  /\ ~Built => abi = NoAbi \/ (Prepares(kernel) /\ abi = AbiOf(kernel))
  /\ Callable => SameFunction

\* What the checks of the entry let through for one port.
Taken(i, b) ==
  /\ b \in BufferRec
  /\ mode = "legacy" => LegacyOK(PortsOf(abi)[i], b)
  /\ mode # "legacy" => BufferOK(PortsOf(abi)[i], b)

\* The descriptors accepted so far; when the code runs, all of them.
Accepted ==
  /\ callPc \in {"check", "running"} =>
       /\ mode = "legacy" => abi.version = 1
       /\ Len(bufs) <= Len(PortsOf(abi)) /\ bufs \in Seq(BufferRec)
       /\ \A i \in DOMAIN bufs : Taken(i, bufs[i])
  /\ Len(bufs) <= MaxDescriptors

Admitted ==
  /\ callPc = "running" =>
       /\ Len(bufs) = Len(PortsOf(abi)) /\ args = Passed(bufs)
       /\ mode # "legacy" => ~Collides(bufs)
       /\ abi.version = 2 => BindsShape(PortsOf(abi), abi.symbols, Extents(bufs))
       /\ values = [s \in DOMAIN abi.symbols |->
                      CHOOSE v \in ExtentsOf(PortsOf(abi), Extents(bufs), s) : TRUE]
  /\ callPc # "running" => args = <<>> /\ values = <<>>

LeaseRec == [descriptor : BufferRec, memory : Nat]

\* A lease describes an object of the caller that fits the public port.
LeaseOf(i, l) ==
  \E o \in Providers :
    /\ DescribeOK(PublicPorts[i], o, i = Len(PublicPorts))
    /\ l = [descriptor |-> Descriptor(PublicPorts[i], o), memory |-> o.bytes]

Descriptors == [i \in DOMAIN leases |-> leases[i].descriptor]

\* The written object shares memory with no other one.
NoClash ==
  \A i \in 1 .. Len(leases) - 1 :
    ~AllocationsOverlap(leases[i].descriptor, leases[Len(leases)].descriptor)

\* A call from Python: its leases, and once they are marshalled, its descriptors.
Leased ==
  /\ leases \in Seq(LeaseRec)
  /\ mode = "python" /\ callPc \in {"lease", "check", "running"} =>
       /\ Adapts /\ Len(leases) <= Len(PublicPorts)
       /\ \A i \in DOMAIN leases : LeaseOf(i, leases[i])
  /\ mode = "python" /\ callPc \in {"check", "running"} =>
       /\ Len(leases) = Len(PublicPorts)
       /\ bufs = NativeBuffers(Descriptors)
       /\ NoClash
  /\ callPc = "lease" => mode = "python"
  /\ mode = "python" => why # "overlap"
  /\ mode \in {"none", "typed", "legacy", "python"}
  /\ why \in Ways \ {"native"}
  /\ callPc \in {"prepare", "create", "failed", "idle", "check", "lease", "running", "refused"}

CallInv == Prepared /\ Accepted /\ Admitted /\ Leased
-----------------------------------------------------------------------------
(* The ABI of a function                                                   *)

ContractPort == [role : Roles, elem : STRING, dims : Seq(Dim)]

LEMMA DimTypes ==
  /\ \A n \in Extent : Constant(n) \in Dim
  /\ \A s \in Nat : SymbolDim(s) \in Dim
  /\ kDynamic \in Extent /\ NoSymbol \in Nat
<1>1. kDynamic \in Extent
  BY WordAssumption DEF kDynamic, Extent
<1>2. QED
  BY <1>1 DEF Dim, Constant, SymbolDim, NoSymbol

\* The port a memref describes.
LEMMA DescribeType ==
  ASSUME NEW t \in MemRef
  PROVE  /\ Describe(t) \in Port
         /\ Describe(t).elem = t.elem /\ Len(Describe(t).dims) = Len(t.shape)
         /\ \A d \in DOMAIN t.shape : Describe(t).dims[d] = Constant(t.shape[d])
<1>1. t.shape \in Seq(Extent) /\ t.elem \in STRING /\ DOMAIN t.shape = 1 .. Len(t.shape)
      /\ Len(t.shape) \in Nat
  BY LenProperties DEF MemRef
<1> DEFINE dims == [d \in DOMAIN t.shape |-> Constant(t.shape[d])]
<1>2. \A d \in DOMAIN t.shape : Constant(t.shape[d]) \in Dim
  BY <1>1, DimTypes, ElementOfSeq
<1>3. dims \in Seq(Dim) /\ Len(dims) = Len(t.shape)
  <2>1. dims \in [1 .. Len(t.shape) -> Dim]
    BY <1>1, <1>2
  <2> HIDE DEF dims
  <2>2. QED
    BY <1>1, <2>1, SeqDef, LenProperties
<1>4. Describe(t) = [elem |-> t.elem, dims |-> dims]
  BY DEF Describe
<1>5. QED
  BY <1>1, <1>3, <1>4 DEF Port

\* The contract's ports are typed, also the ones made up from the signature.
LEMMA ContractTypes ==
  ASSUME NEW k \in Kernels, SymbolicPrepares(k)
  PROVE  ContractPorts(k) \in Seq(ContractPort)
<1>1. k.sig \in Seq(MemRef) /\ k.bindings \in Seq([role : Roles, port : Nat]) /\ IsKernel(k)
  BY CallAssumption DEF IsKernel
<1>2. CASE k.contract # <<>>
  BY <1>1, <1>2 DEF ContractPorts, IsKernel, ContractPort
<1>3. CASE k.contract = <<>>
  <2>1. DOMAIN k.sig = 1 .. Len(k.sig) /\ Len(k.sig) \in Nat /\ Len(k.bindings) = Len(k.sig)
        /\ DOMAIN k.bindings = 1 .. Len(k.bindings)
    BY <1>1, LenProperties DEF SymbolicPrepares
  <2> DEFINE dims(i) == [d \in {1, 2} |-> IF k.sig[i].shape[d] = kDynamic
                                          THEN SymbolDim(OwnSymbol(i, d))
                                          ELSE Constant(k.sig[i].shape[d])]
             port(i) == [role |-> k.bindings[i].role, elem |-> k.sig[i].elem, dims |-> dims(i)]
  <2>2. ASSUME NEW i \in DOMAIN k.sig PROVE port(i) \in ContractPort
    <3>0. i \in 1 .. Len(k.sig) /\ i \in 1 .. Len(k.bindings) /\ i \in Nat
      BY <2>1
    <3>1. k.sig[i] \in MemRef /\ k.bindings[i] \in [role : Roles, port : Nat] /\ i \in Nat
      <4> HIDE DEF port
      <4>1. k.sig[i] \in MemRef
        BY <1>1, <3>0, ElementOfSeq
      <4>2. k.bindings[i] \in [role : Roles, port : Nat]
        BY <1>1, <3>0, ElementOfSeq
      <4>3. QED
        BY <3>0, <4>1, <4>2
    <3>2. Len(k.sig[i].shape) = 2
      BY <2>1 DEF SymbolicPrepares, ShapeRealizes
    <3>3. \A d \in {1, 2} : k.sig[i].shape[d] \in Extent
      BY <3>1, <3>2, ElementOfSeq DEF MemRef
    <3>4. \A d \in {1, 2} : OwnSymbol(i, d) \in Nat
      BY <3>1 DEF OwnSymbol
    <3>5. \A d \in {1, 2} : dims(i)[d] \in Dim
      BY <3>3, <3>4, DimTypes
    <3>6. dims(i) \in [1 .. 2 -> Dim]
      BY <3>5
    <3>7. dims(i) \in Seq(Dim)
      BY <3>6, SeqDef
    <3> HIDE DEF dims
    <3>8. QED
      BY <3>1, <3>7 DEF ContractPort, MemRef
  <2>3. ContractPorts(k) = [i \in DOMAIN k.sig |-> port(i)]
    BY <1>3 DEF ContractPorts
  <2> HIDE DEF port
  <2>4. ContractPorts(k) \in [1 .. Len(k.sig) -> ContractPort]
    BY <2>1, <2>2, <2>3
  <2>5. QED
    BY <2>1, <2>4, SeqDef
<1>4. QED
  BY <1>2, <1>3

\* The ports of one direction keep their order: each lands at a place of its
\* own, and that place holds it.
LEMMA LandedProperties ==
  ASSUME NEW k \in Kernels, ContractPorts(k) \in Seq(ContractPort), NEW role \in Roles
  PROVE  /\ IsFiniteSet(Directed(k, role)) /\ Cardinality(Directed(k, role)) \in Nat
         /\ \A q \in Directed(k, role) :
              /\ Landed(k, q) \in 1 .. Cardinality(Directed(k, role))
              /\ \A r \in Directed(k, role) : Landed(k, r) = Landed(k, q) => r = q
<1> DEFINE D == Directed(k, role)
           upTo(q) == {r \in D : r <= q}
<1>1. D \subseteq 1 .. Len(ContractPorts(k)) /\ IsFiniteSet(DOMAIN ContractPorts(k))
  BY DomainFinite, LenProperties DEF Directed
<1>2. IsFiniteSet(D) /\ Cardinality(D) \in Nat
  BY <1>1, FS_Subset, FS_CardinalityType DEF Directed
<1>3. D \subseteq Nat
  BY <1>1, LenProperties
<1>4. ASSUME NEW q \in D PROVE Landed(k, q) = Cardinality(upTo(q))
  BY DEF Directed, Landed
<1> HIDE DEF D
<1>5. ASSUME NEW q \in D PROVE Landed(k, q) \in 1 .. Cardinality(D)
  <2>1. upTo(q) \subseteq D /\ q \in upTo(q)
    BY <1>3
  <2>2. IsFiniteSet(upTo(q)) /\ Cardinality(upTo(q)) <= Cardinality(D)
        /\ Cardinality(upTo(q)) \in Nat
    BY <1>2, <2>1, FS_Subset, FS_CardinalityType
  <2>3. Cardinality(upTo(q)) # 0
    <3>1. upTo(q) # {}
      BY <2>1
    <3> HIDE DEF upTo
    <3>2. QED
      BY <2>2, <3>1, FS_EmptySet
  <2>4. QED
    BY <1>2, <1>4, <2>2, <2>3
<1>6. ASSUME NEW q \in D, NEW r \in D, q < r PROVE Landed(k, q) < Landed(k, r)
  <2>1. upTo(q) \subseteq upTo(r) /\ r \in upTo(r) /\ r \notin upTo(q)
    <3>1. q \in Nat /\ r \in Nat
      BY <1>3
    <3>2. \A x \in D : x <= q => x <= r
      BY ONLY <1>3, <1>6, <3>1
    <3>3. ~(r <= q) /\ r <= r
      BY ONLY <1>6, <3>1
    <3>4. QED
      BY ONLY <3>2, <3>3, r \in D
  <2>2. IsFiniteSet(upTo(r)) /\ IsFiniteSet(upTo(q))
    BY <1>2, FS_Subset
  <2>3. Cardinality(upTo(q)) < Cardinality(upTo(r))
    <3>1. Cardinality(upTo(q)) <= Cardinality(upTo(r)) /\ Cardinality(upTo(q)) # Cardinality(upTo(r))
      BY <2>1, <2>2, FS_Subset
    <3>2. Cardinality(upTo(q)) \in Nat /\ Cardinality(upTo(r)) \in Nat
      BY <2>2, FS_CardinalityType
    <3>3. QED
      BY <3>1, <3>2
  <2>4. QED
    BY <1>4, <2>3
<1>7. ASSUME NEW q \in D, NEW r \in D, Landed(k, r) = Landed(k, q) PROVE r = q
  <2>1. ~(q < r) /\ ~(r < q)
    BY <1>2, <1>5, <1>6, <1>7
  <2>2. QED
    BY <1>3, <2>1
<1>8. QED
  BY <1>2, <1>5, <1>7 DEF D

\* Every place is taken.
LEMMA LandedEverywhere ==
  ASSUME NEW k \in Kernels, ContractPorts(k) \in Seq(ContractPort), NEW role \in Roles,
         NEW n \in 1 .. Cardinality(Directed(k, role))
  PROVE  \E q \in Directed(k, role) : Landed(k, q) = n
<1> DEFINE D == Directed(k, role)
           size == Cardinality(D)
           image == {Landed(k, q) : q \in D}
           f == [q \in D |-> Landed(k, q)]
<1>1. /\ IsFiniteSet(D) /\ size \in Nat
      /\ \A q \in D : Landed(k, q) \in 1 .. size
      /\ \A q, r \in D : Landed(k, r) = Landed(k, q) => r = q
  BY LandedProperties
<1> HIDE DEF D
<1>2. image \subseteq 1 .. size
  BY <1>1
<1>3. IsFiniteSet(1 .. size) /\ Cardinality(1 .. size) = size
  <2>1. 1 \in Int /\ size \in Int
    BY <1>1
  <2>2. IsFiniteSet(1 .. size) /\ Cardinality(1 .. size) = IF 1 > size THEN 0 ELSE size - 1 + 1
    BY ONLY <2>1, FS_Interval
  <2>3. QED
    BY <1>1, <2>2
<1>4. IsFiniteSet(image) /\ Cardinality(image) <= size /\ Cardinality(image) \in Nat
  BY <1>2, <1>3, FS_Subset, FS_CardinalityType
<1>5. f \in Injection(D, image)
  BY <1>1 DEF Injection, IsInjective
<1>6. size <= Cardinality(image)
  BY <1>1, <1>4, <1>5, FS_Injection
<1>7. image = 1 .. size
  <2>1. Cardinality(image) = Cardinality(1 .. size)
    BY <1>1, <1>3, <1>4, <1>6
  <2>2. QED
    BY <1>2, <1>3, <2>1, FS_Subset
<1>8. QED
  BY <1>7 DEF D

\* The ports of one direction are typed, and each is found where it landed.
LEMMA FilteredProperties ==
  ASSUME NEW k \in Kernels, ContractPorts(k) \in Seq(ContractPort), NEW role \in Roles
  PROVE  /\ Filtered(k, role) \in Seq(Port)
         /\ Len(Filtered(k, role)) = Cardinality(Directed(k, role))
         /\ \A q \in Directed(k, role) :
              Filtered(k, role)[Landed(k, q)]
                = [elem |-> ContractPorts(k)[q].elem, dims |-> ContractPorts(k)[q].dims]
<1> DEFINE D == Directed(k, role)
           size == Cardinality(D)
           Nth(n) == CHOOSE q \in D : Landed(k, q) = n
           port(q) == [elem |-> ContractPorts(k)[q].elem, dims |-> ContractPorts(k)[q].dims]
<1>1. size \in Nat
  BY LandedProperties
<1>2. Filtered(k, role) = [n \in 1 .. size |-> port(Nth(n))]
  BY DEF Filtered
<1>3. ASSUME NEW q \in D PROVE port(q) \in Port
  <2>1. q \in 1 .. Len(ContractPorts(k))
    BY LenProperties DEF Directed
  <2>2. ContractPorts(k)[q] \in ContractPort
    BY <2>1, ElementOfSeq
  <2>3. QED
    BY <2>2 DEF ContractPort, Port
<1>4. ASSUME NEW n \in 1 .. size PROVE Nth(n) \in D
  BY LandedEverywhere
<1>5. ASSUME NEW q \in D PROVE Nth(Landed(k, q)) = q /\ Landed(k, q) \in 1 .. size
  BY LandedProperties
<1> HIDE DEF D, Nth, port
<1>6. Filtered(k, role) \in [1 .. size -> Port]
  BY <1>2, <1>3, <1>4
<1>7. Filtered(k, role) \in Seq(Port) /\ Len(Filtered(k, role)) = size
  <2> HIDE DEF size
  <2>1. Filtered(k, role) \in Seq(Port)
    BY <1>1, <1>6, SeqDef
  <2>2. QED
    BY <1>1, <1>6, <2>1, LenProperties
<1>8. \A q \in D : Filtered(k, role)[Landed(k, q)] = port(q)
  BY <1>2, <1>5
<1>9. QED
  BY <1>7, <1>8 DEF D, port

\* What ValidAbi says of the ports that it checked.
PortsFit(a) ==
  /\ a.inputs \in Seq(Port) /\ a.outputs \in Seq(Port) /\ PortsOf(a) \in Seq(Port)
  /\ Len(PortsOf(a)) = Len(a.inputs) + Len(a.outputs) /\ Len(PortsOf(a)) <= MaxDescriptors
  /\ \A i \in 1 .. Len(PortsOf(a)) :
       PortsOf(a)[i] = IF i <= Len(a.inputs) THEN a.inputs[i]
                                             ELSE a.outputs[i - Len(a.inputs)]
  /\ \A i \in 1 .. Len(PortsOf(a)) :
       /\ PortsOf(a)[i].elem \in Supported /\ PortsOf(a)[i].dims \in Seq(Dim)
       /\ Len(PortsOf(a)[i].dims) = 2 /\ DOMAIN PortsOf(a)[i].dims = {1, 2}
       /\ \A d \in {1, 2} : PortsOf(a)[i].dims[d] \in Dim

LEMMA ValidPorts ==
  ASSUME NEW a, a.inputs \in Seq(Port), a.outputs \in Seq(Port), FitsEnvelope(a)
  PROVE  PortsFit(a)
<1> DEFINE P == PortsOf(a)
<1>1. /\ P \in Seq(Port) /\ Len(P) = Len(a.inputs) + Len(a.outputs)
      /\ \A i \in 1 .. Len(P) :
           P[i] = IF i <= Len(a.inputs) THEN a.inputs[i] ELSE a.outputs[i - Len(a.inputs)]
  BY ZenonT(30), ConcatProperties DEF PortsOf
<1>2. Len(P) <= MaxDescriptors
  BY <1>1 DEF FitsEnvelope
<1>3. ASSUME NEW i \in 1 .. Len(P)
      PROVE  /\ P[i].elem \in Supported /\ P[i].dims \in Seq(Dim)
             /\ Len(P[i].dims) = 2 /\ DOMAIN P[i].dims = {1, 2}
             /\ \A d \in {1, 2} : P[i].dims[d] \in Dim
  <2>1. P[i] \in Port
    BY <1>1, ElementOfSeq
  <2>2. P[i] \in ToSet(P)
    BY <1>1, LenProperties DEF ToSet
  <2>3. P[i].elem \in Supported /\ Len(P[i].dims) = 2
    BY <2>2 DEF FitsEnvelope
  <2>4. P[i].dims \in Seq(Dim)
    BY <2>1 DEF Port
  <2>5. \A d \in 1 .. 2 : P[i].dims[d] \in Dim
    BY <2>3, <2>4, ElementOfSeq
  <2>6. DOMAIN P[i].dims = 1 .. 2
    BY <2>3, <2>4, LenProperties
  <2>7. QED
    BY <2>3, <2>4, <2>5, <2>6
<1>4. QED
  BY <1>1, <1>2, <1>3 DEF PortsFit

\* The recorded ABI of a function that was prepared: every port is typed and of
\* rank two; in version 1 every extent is a positive constant, in version 2 the
\* contract holds and every port is bound.
LEMMA AbiFacts ==
  ASSUME NEW k \in Kernels, Prepares(k)
  PROVE  /\ PortsFit(AbiOf(k)) /\ ValidAbi(AbiOf(k))
         /\ k.bindings = <<>> =>
              /\ AbiOf(k).version = 1 /\ AbiOf(k).arguments = <<>> /\ AbiOf(k).symbols = <<>>
              /\ \A i \in DOMAIN PortsOf(AbiOf(k)) : \A d \in {1, 2} :
                   PortsOf(AbiOf(k))[i].dims[d].ext > 0
         /\ k.bindings # <<>> =>
              /\ AbiOf(k).version = 2 /\ AbiOf(k).arguments # <<>>
              /\ SymbolicPrepares(k) /\ AbiOf(k) = SymbolicAbi(k)
              /\ ContractPorts(k) \in Seq(ContractPort)
              /\ ValidContract(PortsOf(AbiOf(k)), AbiOf(k).symbols) /\ BindsEveryPort(AbiOf(k))
<1> DEFINE a == AbiOf(k)
<1>1. IsKernel(k) /\ ValidAbi(a) /\ FitsEnvelope(a)
  BY CallAssumption DEF Prepares, ValidAbi
<1>2. CASE k.bindings = <<>>
  <2>1. /\ a.version = 1 /\ a.arguments = <<>> /\ a.symbols = <<>>
        /\ a.inputs = [i \in DOMAIN k.sig |-> Describe(k.sig[i])]
        /\ a.outputs = [i \in DOMAIN k.results |-> Describe(k.results[i])]
    BY <1>2 DEF AbiOf, StaticAbi, NoAbi
  <2>2. ASSUME NEW s \in Seq(MemRef)
        PROVE  [i \in DOMAIN s |-> Describe(s[i])] \in Seq(Port)
    <3>1. Len(s) \in Nat /\ DOMAIN s = 1 .. Len(s) /\ \A i \in DOMAIN s : s[i] \in MemRef
      BY LenProperties, ElementOfSeq
    <3>2. [i \in DOMAIN s |-> Describe(s[i])] \in [1 .. Len(s) -> Port]
      BY <3>1, DescribeType
    <3>3. QED
      BY <3>1, <3>2, SeqDef
  <2>3. a.inputs \in Seq(Port) /\ a.outputs \in Seq(Port)
    BY <1>1, <2>1, <2>2 DEF IsKernel
  <2>4. PortsFit(a)
    BY <1>1, <2>3, ValidPorts
  <2>5. ASSUME NEW i \in DOMAIN PortsOf(a), NEW d \in {1, 2}
        PROVE  PortsOf(a)[i].dims[d].ext > 0
    <3>1. i \in 1 .. Len(PortsOf(a)) /\ PortsOf(a)[i] \in ToSet(PortsOf(a))
      BY <2>4, LenProperties DEF PortsFit, ToSet
    <3>2. d \in DOMAIN PortsOf(a)[i].dims
      BY <2>4, <3>1 DEF PortsFit
    <3>3. PortsOf(a)[i].dims[d] \in ToSet(PortsOf(a)[i].dims)
      BY <3>2 DEF ToSet
    <3>4. QED
      BY <1>1, <2>1, <3>1, <3>3 DEF ValidAbi
  <2>6. QED
    BY <1>1, <1>2, <2>1, <2>4, <2>5
<1>3. CASE k.bindings # <<>>
  <2>1. SymbolicPrepares(k) /\ a = SymbolicAbi(k) /\ ContractPorts(k) \in Seq(ContractPort)
    BY <1>3, ContractTypes DEF Prepares, AbiOf
  <2>2. a.version = 2 /\ a.inputs = Filtered(k, "input") /\ a.outputs = Filtered(k, "output")
    BY <2>1 DEF SymbolicAbi
  <2>3. a.inputs \in Seq(Port) /\ a.outputs \in Seq(Port)
    BY <2>1, <2>2, FilteredProperties DEF Roles
  <2>4. PortsFit(a)
    BY <1>1, <2>3, ValidPorts
  <2>5. ValidContract(PortsOf(a), a.symbols) /\ BindsEveryPort(a)
    BY <1>1, <2>2 DEF ValidAbi
  <2>6. a.arguments # <<>>
    BY <2>5 DEF BindsEveryPort
  <2>7. QED
    BY <1>1, <1>3, <2>1, <2>2, <2>4, <2>5, <2>6
<1>4. QED
  BY <1>2, <1>3
-----------------------------------------------------------------------------
(* The signature                                                           *)

\* Where position i of the signature finds its port, for a prepared function.
PositionOf(k, i) ==
  LET port == Landed(k, k.bindings[i].port)
  IN  IF k.bindings[i].role = "input" THEN port ELSE Len(AbiOf(k).inputs) + port

LEMMA SymbolicPositions ==
  ASSUME NEW k \in Kernels, Prepares(k), k.bindings # <<>>
  PROVE  /\ Len(k.bindings) = Len(PortsOf(AbiOf(k)))
         /\ \A i \in 1 .. Len(k.bindings) :
              LET b == k.bindings[i] IN
              /\ b.role \in Roles /\ b.port \in DOMAIN ContractPorts(k)
              /\ AbiOf(k).arguments[i] = [role |-> b.role, port |-> Landed(k, b.port)]
              /\ PositionOf(k, i) \in 1 .. Len(PortsOf(AbiOf(k)))
              /\ PortsOf(AbiOf(k))[PositionOf(k, i)]
                   = [elem |-> ContractPorts(k)[b.port].elem, dims |-> ContractPorts(k)[b.port].dims]
              /\ b.role = "output" <=> PositionOf(k, i) > Len(AbiOf(k).inputs)
         /\ \A i, j \in 1 .. Len(k.bindings) : PositionOf(k, i) = PositionOf(k, j) => i = j
<1> DEFINE a == AbiOf(k)
           at(i) == Landed(k, k.bindings[i].port)
           n == Len(a.inputs)
           P == PortsOf(a)
<1>1. /\ PortsFit(a) /\ SymbolicPrepares(k) /\ a = SymbolicAbi(k) /\ BindsEveryPort(a)
      /\ ContractPorts(k) \in Seq(ContractPort)
  BY AbiFacts
<1>2. /\ a.inputs = Filtered(k, "input") /\ a.outputs = Filtered(k, "output")
      /\ a.arguments = [i \in DOMAIN k.bindings |-> [role |-> k.bindings[i].role, port |-> at(i)]]
  BY <1>1 DEF SymbolicAbi
<1>3. k.bindings \in Seq([role : Roles, port : Nat])
  BY CallAssumption DEF IsKernel
<1>4. /\ DOMAIN k.bindings = 1 .. Len(k.bindings) /\ Len(k.bindings) \in Nat
      /\ \A i \in DOMAIN k.bindings : k.bindings[i].role \in Roles
  <2>1. DOMAIN k.bindings = 1 .. Len(k.bindings) /\ Len(k.bindings) \in Nat
    BY <1>3, LenProperties
  <2>2. \A i \in 1 .. Len(k.bindings) : k.bindings[i] \in [role : Roles, port : Nat]
    BY <1>3, ElementOfSeq
  <2>3. QED
    BY <2>1, <2>2
<1>5. a.arguments \in [1 .. Len(k.bindings) -> [role : Roles, port : {at(i) : i \in DOMAIN k.bindings}]]
  BY <1>2, <1>4
<1>6. Len(a.arguments) = Len(k.bindings)
  BY <1>4, <1>5, SeqDef, LenProperties
<1>7. Len(a.inputs) \in Nat /\ Len(a.outputs) \in Nat /\ Len(P) = n + Len(a.outputs)
      /\ \A i \in 1 .. Len(P) : P[i] = IF i <= n THEN a.inputs[i] ELSE a.outputs[i - n]
  BY <1>1, LenProperties DEF PortsFit
<1>8. Len(k.bindings) = Len(P)
  BY <1>1, <1>6, <1>7 DEF BindsEveryPort
<1>9. ASSUME NEW i \in 1 .. Len(k.bindings)
      PROVE  /\ k.bindings[i].port \in DOMAIN ContractPorts(k)
             /\ k.bindings[i].role \in Roles
             /\ k.bindings[i].port \in Directed(k, k.bindings[i].role)
  BY <1>1, <1>4 DEF SymbolicPrepares, Directed
<1>10. ASSUME NEW i \in 1 .. Len(k.bindings)
       PROVE  at(i) \in 1 .. Len(Filtered(k, k.bindings[i].role))
              /\ Filtered(k, k.bindings[i].role)[at(i)]
                   = [elem |-> ContractPorts(k)[k.bindings[i].port].elem,
                      dims |-> ContractPorts(k)[k.bindings[i].port].dims]
  BY <1>1, <1>9, LandedProperties, FilteredProperties
<1>11. ASSUME NEW i \in 1 .. Len(k.bindings)
       PROVE  /\ PositionOf(k, i) = IF k.bindings[i].role = "input" THEN at(i) ELSE n + at(i)
              /\ at(i) \in Nat \ {0}
              /\ k.bindings[i].role = "input" => at(i) <= n
              /\ k.bindings[i].role = "output" => at(i) <= Len(a.outputs)
  <2>1. PositionOf(k, i) = IF k.bindings[i].role = "input" THEN at(i) ELSE n + at(i)
    BY DEF PositionOf
  <2> HIDE DEF at
  <2>2. at(i) \in 1 .. Len(Filtered(k, k.bindings[i].role))
    BY <1>10
  <2>3. k.bindings[i].role = "input" => at(i) \in 1 .. Len(a.inputs)
    BY <1>2, <2>2
  <2>4. k.bindings[i].role = "output" => at(i) \in 1 .. Len(a.outputs)
    BY <1>2, <2>2
  <2>5. k.bindings[i].role \in {"input", "output"}
    BY <1>9 DEF Roles
  <2> HIDE DEF a
  <2>6. QED
    BY <1>7, <2>1, <2>3, <2>4, <2>5
<1> HIDE DEF a, at, n, P
<1>12. ASSUME NEW i \in 1 .. Len(k.bindings)
       PROVE  /\ PositionOf(k, i) \in 1 .. Len(P)
              /\ P[PositionOf(k, i)] = Filtered(k, k.bindings[i].role)[at(i)]
              /\ k.bindings[i].role = "output" <=> PositionOf(k, i) > n
  <2>1. CASE k.bindings[i].role = "input"
    BY <1>2, <1>7, <1>11, <2>1 DEF n
  <2>2. CASE k.bindings[i].role = "output"
    <3>1. PositionOf(k, i) = n + at(i) /\ at(i) \in 1 .. Len(a.outputs)
      BY <1>7, <1>11, <2>2
    <3> DEFINE x == PositionOf(k, i)
    <3>0. n \in Nat /\ Len(a.outputs) \in Nat /\ Len(P) = n + Len(a.outputs)
      BY <1>7 DEF n
    <3> HIDE DEF x
    <3>2. n \in Nat /\ x - n = at(i) /\ x \in 1 .. Len(P) /\ ~(x <= n)
      <4>1. x = n + at(i)
        BY <3>1 DEF x
      <4>2. QED
        BY ONLY <3>0, <3>1, <4>1
    <3> USE DEF x
    <3>3. QED
      BY <1>2, <1>7, <2>2, <3>1, <3>2
  <2>3. QED
    BY <1>9, <2>1, <2>2 DEF Roles
<1>13. ASSUME NEW i \in 1 .. Len(k.bindings), NEW j \in 1 .. Len(k.bindings),
              PositionOf(k, i) = PositionOf(k, j)
       PROVE  i = j
  <2> DEFINE r == k.bindings[i].role
             S == {x \in DOMAIN a.arguments : a.arguments[x] = [role |-> r, port |-> at(i)]}
  <2>1. k.bindings[j].role = r
    <3>1. r \in Roles /\ k.bindings[j].role \in Roles
      BY <1>9
    <3>2. r = "output" <=> k.bindings[j].role = "output"
      BY <1>12, <1>13
    <3>3. QED
      BY <3>1, <3>2 DEF Roles
  <2>2. at(j) = at(i)
    <3>1. n \in Nat
      BY <1>7 DEF n
    <3>2. QED
      BY <1>11, <1>13, <2>1, <3>1
  <2>3. i \in S /\ j \in S
    BY <1>2, <1>4, <2>1, <2>2
  <2>4. Cardinality(S) = 1
    <3>1. CASE r = "input"
      <4>1. at(i) \in 1 .. Len(a.inputs)
        BY <1>7, <1>11, <3>1 DEF n
      <4>2. QED
        BY <1>1, <3>1, <4>1 DEF BindsEveryPort
    <3>2. CASE r = "output"
      <4>1. at(i) \in 1 .. Len(a.outputs)
        BY <1>7, <1>11, <3>2
      <4>2. QED
        BY <1>1, <3>2, <4>1 DEF BindsEveryPort
    <3>3. QED
      BY <1>9, <3>1, <3>2 DEF Roles
  <2>5. IsFiniteSet(S)
    <3>1. IsFiniteSet(DOMAIN k.bindings)
      BY <1>3, DomainFinite
    <3>2. S \subseteq DOMAIN k.bindings
      BY <1>2
    <3>3. QED
      BY <3>1, <3>2, FS_Subset
  <2> HIDE DEF S
  <2>6. QED
    BY <2>3, <2>4, <2>5, FS_Singleton
<1>14. \A i \in 1 .. Len(k.bindings) :
         a.arguments[i] = [role |-> k.bindings[i].role, port |-> at(i)]
  BY <1>2, <1>4
<1>15. QED
  BY <1>8, <1>9, <1>10, <1>12, <1>13, <1>14 DEF a, at, n, P

\* What created code takes for its arguments: each position of the signature has
\* a port of its own, of the same type and direction.
SignatureMatches ==
  LET P == PortsOf(abi) IN
  /\ DOMAIN Signature(kernel) = 1 .. Len(P) /\ Len(P) \in Nat
  /\ \A i \in 1 .. Len(P) :
       /\ SignaturePort(i) \in 1 .. Len(P)
       /\ Signature(kernel)[i].elem = P[SignaturePort(i)].elem
       /\ \A d \in {1, 2} : Signature(kernel)[i].shape[d] = P[SignaturePort(i)].dims[d].ext
       /\ Writes(i) <=> SignaturePort(i) > Len(abi.inputs)
       /\ kernel.bindings # <<>> =>
            /\ kernel.bindings[i].port \in DOMAIN ContractPorts(kernel)
            /\ P[SignaturePort(i)].dims = ContractPorts(kernel)[kernel.bindings[i].port].dims
            /\ SignaturePort(i) = PositionOf(kernel, i)
  /\ \A i, j \in 1 .. Len(P) : SignaturePort(i) = SignaturePort(j) => i = j

LEMMA SignatureFacts ==
  ASSUME Prepared, Callable
  PROVE  SignatureMatches
<1> DEFINE P == PortsOf(abi)
           n == Len(abi.inputs)
<1>1. kernel \in Kernels /\ Prepares(kernel) /\ abi = AbiOf(kernel) /\ SameFunction /\ IsKernel(kernel)
  BY CallAssumption DEF Prepared, Callable
<1>2. /\ PortsFit(abi) /\ P \in Seq(Port) /\ DOMAIN P = 1 .. Len(P) /\ Len(P) \in Nat
      /\ abi.inputs \in Seq(Port) /\ n \in Nat /\ Len(P) = n + Len(abi.outputs)
  BY <1>1, AbiFacts, LenProperties DEF PortsFit
<1>3. Signature(kernel) \in Seq(MemRef)
  BY <1>1, ConcatProperties DEF Signature, IsKernel
<1>4. DOMAIN Signature(kernel) = 1 .. Len(P)
  BY <1>1, <1>3, LenProperties DEF SameFunction
<1>5. \A i \in 1 .. Len(P) :
        /\ Signature(kernel)[i].elem = P[SignaturePort(i)].elem
        /\ \A d \in {1, 2} : Signature(kernel)[i].shape[d] = P[SignaturePort(i)].dims[d].ext
  BY <1>1, <1>4 DEF SameFunction
<1>6. CASE kernel.bindings = <<>>
  <2>1. abi.arguments = <<>> /\ abi.inputs = [i \in DOMAIN kernel.sig |-> Describe(kernel.sig[i])]
    BY <1>1, <1>6 DEF AbiOf, StaticAbi, NoAbi
  <2>2. \A i : SignaturePort(i) = i
    BY <2>1 DEF SignaturePort
  <2>3. Len(kernel.sig) = n
    <3>1. DOMAIN kernel.sig = 1 .. Len(kernel.sig) /\ Len(kernel.sig) \in Nat
      BY <1>1, LenProperties DEF IsKernel
    <3>2. DOMAIN abi.inputs = 1 .. Len(kernel.sig) /\ DOMAIN abi.inputs = 1 .. n
      BY <1>2, <2>1, <3>1, LenProperties
    <3>3. QED
      BY ONLY <1>2, <3>1, <3>2
  <2>4. \A i : Writes(i) <=> i > n
    BY <1>6, <2>3 DEF Writes
  <2> HIDE DEF P, n
  <2>5. \A i \in 1 .. Len(P) :
          /\ SignaturePort(i) \in 1 .. Len(P)
          /\ Signature(kernel)[i].elem = P[SignaturePort(i)].elem
          /\ \A d \in {1, 2} : Signature(kernel)[i].shape[d] = P[SignaturePort(i)].dims[d].ext
          /\ Writes(i) <=> SignaturePort(i) > n
    BY <1>5, <2>2, <2>4
  <2>6. \A i, j \in 1 .. Len(P) : SignaturePort(i) = SignaturePort(j) => i = j
    BY <2>2
  <2>7. QED
    BY <1>2, <1>4, <1>6, <2>5, <2>6, Zenon DEF SignatureMatches, P, n
<1>7. CASE kernel.bindings # <<>>
  <2>1. abi.arguments # <<>> /\ Len(kernel.bindings) = Len(P)
    BY <1>1, <1>7, AbiFacts, SymbolicPositions
  <2>2. ASSUME NEW i \in 1 .. Len(P)
        PROVE  /\ SignaturePort(i) = PositionOf(kernel, i)
               /\ PositionOf(kernel, i) \in 1 .. Len(P)
               /\ kernel.bindings[i].port \in DOMAIN ContractPorts(kernel)
               /\ P[PositionOf(kernel, i)].dims = ContractPorts(kernel)[kernel.bindings[i].port].dims
               /\ Writes(i) <=> PositionOf(kernel, i) > n
    <3>1. LET b == kernel.bindings[i] IN
          /\ b.port \in DOMAIN ContractPorts(kernel)
          /\ abi.arguments[i] = [role |-> b.role, port |-> Landed(kernel, b.port)]
          /\ PositionOf(kernel, i) \in 1 .. Len(P)
          /\ P[PositionOf(kernel, i)] = [elem |-> ContractPorts(kernel)[b.port].elem,
                                         dims |-> ContractPorts(kernel)[b.port].dims]
          /\ b.role = "output" <=> PositionOf(kernel, i) > n
      BY <1>1, <1>7, <2>1, SymbolicPositions
    <3>2. SignaturePort(i) = PositionOf(kernel, i)
      BY <1>1, <2>1, <3>1 DEF SignaturePort, PositionOf
    <3>3. QED
      BY <1>7, <3>1, <3>2 DEF Writes
  <2>3. \A i, j \in 1 .. Len(P) : PositionOf(kernel, i) = PositionOf(kernel, j) => i = j
    BY <1>1, <1>7, <2>1, SymbolicPositions
  <2> HIDE DEF P, n
  <2>4. \A i, j \in 1 .. Len(P) : SignaturePort(i) = SignaturePort(j) => i = j
    BY <2>2, <2>3
  <2>5. ASSUME NEW i \in 1 .. Len(P)
        PROVE  /\ SignaturePort(i) \in 1 .. Len(P)
               /\ Signature(kernel)[i].elem = P[SignaturePort(i)].elem
               /\ \A d \in {1, 2} : Signature(kernel)[i].shape[d] = P[SignaturePort(i)].dims[d].ext
               /\ Writes(i) <=> SignaturePort(i) > n
               /\ kernel.bindings[i].port \in DOMAIN ContractPorts(kernel)
               /\ P[SignaturePort(i)].dims = ContractPorts(kernel)[kernel.bindings[i].port].dims
               /\ SignaturePort(i) = PositionOf(kernel, i)
    <3>1. SignaturePort(i) = PositionOf(kernel, i)
      BY <2>2
    <3>2. QED
      BY <1>5, <2>2, <3>1
  <2>6. QED
    BY <1>2, <1>4, <2>4, <2>5, Zenon DEF SignatureMatches, P, n
<1>8. QED
  BY <1>6, <1>7
-----------------------------------------------------------------------------
(* The arguments of running code                                           *)

\* Every argument is an accepted descriptor of its port.
LEMMA ArgumentsTaken ==
  ASSUME CallInv, callPc = "running"
  PROVE  /\ DOMAIN args = 1 .. Len(PortsOf(abi)) /\ DOMAIN bufs = 1 .. Len(PortsOf(abi))
         /\ \A i \in DOMAIN args :
              args[i] = bufs[SignaturePort(i)] /\ Taken(SignaturePort(i), args[i])
         /\ SignatureMatches /\ Prepares(kernel) /\ kernel \in Kernels /\ abi = AbiOf(kernel)
<1>1. SignatureMatches /\ Prepares(kernel) /\ kernel \in Kernels /\ abi = AbiOf(kernel)
  BY SignatureFacts DEF CallInv, Prepared, Callable, Built
<1>2. /\ bufs \in Seq(BufferRec) /\ Len(bufs) = Len(PortsOf(abi)) /\ args = Passed(bufs)
      /\ \A i \in DOMAIN bufs : Taken(i, bufs[i])
  BY DEF CallInv, Accepted, Admitted
<1>3. DOMAIN bufs = 1 .. Len(PortsOf(abi))
  BY <1>2, LenProperties
<1>4. DOMAIN args = DOMAIN bufs /\ \A i \in DOMAIN args : args[i] = bufs[SignaturePort(i)]
  BY <1>2 DEF Passed
<1>5. \A i \in DOMAIN args : SignaturePort(i) \in DOMAIN bufs
  BY <1>1, <1>3, <1>4 DEF SignatureMatches
<1>6. QED
  BY <1>1, <1>2, <1>3, <1>4, <1>5

\* Its extents are the constants of its port, and where the contract declares two
\* extents equal, they are.
LEMMA ArgumentExtents ==
  ASSUME CallInv, callPc = "running", NEW i \in DOMAIN args, NEW d \in {1, 2}
  PROVE  LET dim == PortsOf(abi)[SignaturePort(i)].dims[d] IN
         /\ args[i].size[d] \in Extent /\ args[i].size[d] >= 0
         /\ dim \in Dim
         /\ IsConstant(dim) => dim.ext >= 0 /\ args[i].size[d] = dim.ext
         /\ ~IsConstant(dim) =>
              /\ abi.version = 2 /\ dim.ext = kDynamic /\ dim.sym \in DOMAIN abi.symbols
              /\ ExtentsOf(PortsOf(abi), Extents(bufs), dim.sym) = {args[i].size[d]}
              /\ Admits(abi.symbols[dim.sym], args[i].size[d])
<1> DEFINE P == PortsOf(abi)
           p == SignaturePort(i)
           dim == P[p].dims[d]
           b == args[i]
<1>1. /\ kernel \in Kernels /\ Prepares(kernel) /\ abi = AbiOf(kernel)
      /\ p \in 1 .. Len(P) /\ p \in DOMAIN bufs /\ b = bufs[p] /\ Taken(p, b) /\ b \in BufferRec
  BY ArgumentsTaken DEF SignatureMatches, Taken
<1>2. PortsFit(abi) /\ P \in Seq(Port) /\ DOMAIN P = 1 .. Len(P) /\ dim \in Dim
      /\ DOMAIN P[p].dims = {1, 2}
  BY <1>1, AbiFacts, LenProperties DEF PortsFit
<1>3. b.size \in Extent \X Extent /\ b.size[d] \in Extent
  BY <1>1 DEF BufferRec
<1>4. CASE kernel.bindings = <<>>
  <2>1. abi.version = 1 /\ dim.ext > 0
    BY <1>1, <1>2, <1>4, AbiFacts
  <2>2. b.size = <<P[p].dims[1].ext, P[p].dims[2].ext>>
    BY <1>1, <2>1 DEF Taken, LegacyOK, BufferOK, StaticBufferOK
  <2>3. b.size[d] = dim.ext
    BY <2>2
  <2>4. IsConstant(dim) /\ dim.ext \in Int
    BY <1>2, <2>1 DEF Dim, IsConstant, kDynamic, Extent
  <2> HIDE DEF dim
  <2>5. QED
    BY <1>2, <1>3, <2>1, <2>3, <2>4 DEF dim
<1>5. CASE kernel.bindings # <<>>
  <2>1. /\ abi.version = 2 /\ ValidContract(P, abi.symbols)
        /\ BindsShape(P, abi.symbols, Extents(bufs))
    BY <1>1, <1>5, AbiFacts DEF CallInv, Admitted
  <2>2. Extents(bufs)[p] = b.size
    BY <1>1 DEF Extents
  <2>3. b.size[d] >= 0 /\ (IsConstant(dim) => b.size[d] = dim.ext)
    BY <1>1, <1>2, <2>1, <2>2 DEF BindsShape
  <2>4. ASSUME ~IsConstant(dim)
        PROVE  /\ dim.ext = kDynamic /\ dim.sym \in DOMAIN abi.symbols
               /\ ExtentsOf(P, Extents(bufs), dim.sym) = {b.size[d]}
               /\ Admits(abi.symbols[dim.sym], b.size[d])
    <3> DEFINE E == ExtentsOf(P, Extents(bufs), dim.sym)
               at == (DOMAIN P) \X {1, 2}
    <3>1. dim.sym # NoSymbol /\ dim.ext = kDynamic
      BY <1>2, <2>4 DEF IsConstant, Dim
    <3>2. dim.sym \in DOMAIN abi.symbols
      <4>1. dim \in ToSet(P[p].dims) /\ P[p] \in ToSet(P)
        BY <1>1, <1>2 DEF ToSet
      <4>2. dim.sym \in UsedSymbols(P)
        BY <3>1, <4>1 DEF UsedSymbols
      <4>3. QED
        BY <2>1, <4>2 DEF ValidContract
    <3>3. b.size[d] \in E
      <4>1. <<p, d>> \in {x \in at : P[x[1]].dims[x[2]].sym = dim.sym}
        BY <1>1, <1>2
      <4>2. Extents(bufs)[<<p, d>>[1]][<<p, d>>[2]] = b.size[d]
        BY <2>2
      <4>3. QED
        BY <4>1, <4>2 DEF ExtentsOf
    <3>4. Cardinality(E) = 1 /\ \A v \in E : Admits(abi.symbols[dim.sym], v)
      BY <2>1, <3>2 DEF BindsShape
    <3>5. IsFiniteSet(E)
      <4> DEFINE T == {x \in at : P[x[1]].dims[x[2]].sym = dim.sym}
                 f == [x \in T |-> Extents(bufs)[x[1]][x[2]]]
      <4>1. IsFiniteSet(DOMAIN P)
        BY <1>2, DomainFinite
      <4>2. IsFiniteSet({1, 2})
        <5>1. IsFiniteSet(1 .. 2)
          <6>1. 1 \in Int /\ 2 \in Int
            OBVIOUS
          <6>2. QED
            BY ONLY <6>1, FS_Interval
        <5>2. 1 .. 2 = {1, 2}
          OBVIOUS
        <5>3. QED
          BY <5>1, <5>2
      <4>3. IsFiniteSet(at)
        BY <4>1, <4>2, FS_Product
      <4>4. IsFiniteSet(T)
        BY <4>3, FS_Subset
      <4>5. E = {Extents(bufs)[x[1]][x[2]] : x \in T}
        BY DEF ExtentsOf
      <4> HIDE DEF T, E
      <4>6. f \in Surjection(T, E)
        BY <4>5 DEF Surjection
      <4>7. QED
        BY <4>4, <4>6, FS_Surjection
    <3>6. E = {b.size[d]}
      <4> HIDE DEF E
      <4>1. QED
        BY <3>3, <3>4, <3>5, FS_Singleton
    <3>7. QED
      BY <3>1, <3>2, <3>3, <3>4, <3>6
  <2>5. IsConstant(dim) => dim.ext >= 0
    BY <2>3
  <2> HIDE DEF dim
  <2>6. QED
    BY <1>2, <1>3, <2>1, <2>3, <2>4, <2>5 DEF dim
<1>6. QED
  BY <1>4, <1>5

\* All extents the code may take for a dimension are the one of its argument.
LEMMA CodeSeesExtent ==
  ASSUME CallInv, callPc = "running", NEW i \in DOMAIN args, NEW d \in {1, 2}
  PROVE  CodeExtents(i, d) = {args[i].size[d]}
<1> DEFINE dim(j, e) == PortsOf(abi)[SignaturePort(j)].dims[e]
           port(j) == ContractPorts(kernel)[kernel.bindings[j].port]
<1>1. SignatureMatches /\ DOMAIN args = 1 .. Len(PortsOf(abi)) /\ kernel \in Kernels
      /\ Prepares(kernel) /\ abi = AbiOf(kernel)
  BY ArgumentsTaken
<1>2. \A j \in DOMAIN args : \A e \in {1, 2} :
        /\ Signature(kernel)[j].shape[e] = dim(j, e).ext
        /\ IsConstant(dim(j, e)) => dim(j, e).ext >= 0 /\ args[j].size[e] = dim(j, e).ext
        /\ ~IsConstant(dim(j, e)) =>
             /\ abi.version = 2 /\ dim(j, e).ext = kDynamic
             /\ ExtentsOf(PortsOf(abi), Extents(bufs), dim(j, e).sym) = {args[j].size[e]}
  <2>1. TAKE j \in DOMAIN args
  <2>2. TAKE e \in {1, 2}
  <2>3. Signature(kernel)[j].shape[e] = dim(j, e).ext
    BY <1>1 DEF SignatureMatches
  <2>4. QED
    BY <2>3, ArgumentExtents
<1>3. CASE IsConstant(dim(i, d))
  <2>1. dim(i, d).ext # kDynamic
    <3>1. dim(i, d).ext >= 0
      BY <1>2, <1>3
    <3> HIDE DEF dim
    <3>2. QED
      BY <3>1 DEF kDynamic
  <2>2. QED
    BY <1>2, <1>3, <2>1 DEF CodeExtents
<1>4. CASE ~IsConstant(dim(i, d))
  <2>1. kernel.bindings # <<>>
    <3>1. abi.version = 2
      BY <1>2, <1>4
    <3>2. QED
      BY <1>1, <3>1, AbiFacts
  <2>2. \A j \in DOMAIN args : \A e \in {1, 2} : port(j).dims[e] = dim(j, e)
    BY <1>1, <2>1 DEF SignatureMatches
  <2> DEFINE T == {y \in (DOMAIN args) \X {1, 2} : port(y[1]).dims[y[2]].sym = port(i).dims[d].sym}
  <2>3. CodeExtents(i, d) = {args[x[1]].size[x[2]] : x \in T}
    BY <1>2, <1>4 DEF CodeExtents
  <2>4. <<i, d>> \in T
    OBVIOUS
  <2>5. ASSUME NEW y \in T PROVE args[y[1]].size[y[2]] = args[i].size[d]
    <3>1. y[1] \in DOMAIN args /\ y[2] \in {1, 2} /\ dim(y[1], y[2]).sym = dim(i, d).sym
      BY <2>2
    <3>2. ~IsConstant(dim(y[1], y[2]))
      BY <1>4, <3>1 DEF IsConstant
    <3>3. {args[y[1]].size[y[2]]} = {args[i].size[d]}
      BY ZenonT(30), <1>2, <1>4, <3>1, <3>2
    <3>4. QED
      BY <3>3
  <2> HIDE DEF T
  <2>6. QED
    BY <2>3, <2>4, <2>5
<1>5. QED
  BY <1>3, <1>4
-----------------------------------------------------------------------------
(* The memory running code touches                                         *)

LEMMA SmallModulo ==
  ASSUME NEW m \in Nat, NEW r \in 0 .. m
  PROVE  r % (m + 1) = r
OBVIOUS

LEMMA ProductNatural ==
  ASSUME NEW a \in Nat, NEW b \in Nat
  PROVE  a * b \in Nat
OBVIOUS

LEMMA ElementSizes == \A e \in Supported : ElementBytes[e] \in {1, 2, 4}
BY DEF Supported, ElementBytes

\* An accepted descriptor keeps its range inside its allocation, and nothing wraps.
LEMMA RangeInAllocation ==
  ASSUME NEW p, NEW b \in BufferRec, p.elem \in Supported, BufferOK(p, b),
         b.size[1] >= 0, b.size[2] >= 0
  PROVE  /\ b.elem = p.elem /\ RequiredBytes(b) \in 0 .. WordMax
         /\ b.allocated <= b.aligned /\ b.aligned + RequiredBytes(b) <= b.allocated + b.bytes
         /\ b.aligned + RequiredBytes(b) <= WordMax
<1>1. b.elem = p.elem /\ CheckedBytes(b) /\ InAllocation(b)
  BY DEF BufferOK, StaticBufferOK, SymbolicBufferOK
<1>2. b.size[1] \in Nat /\ b.size[2] \in Nat /\ ElementBytes[b.elem] \in Nat
  <2>1. b.size \in Extent \X Extent
    BY DEF BufferRec
  <2>2. b.size[1] \in Int /\ b.size[2] \in Int
    BY <2>1, WordAssumption DEF Extent
  <2>3. ElementBytes[b.elem] \in Nat
    BY <1>1, ElementSizes
  <2>4. QED
    BY <2>2, <2>3
<1>3. RequiredBytes(b) \in Nat
  <2>1. b.size[1] * b.size[2] \in Nat
    BY <1>2, ProductNatural
  <2>2. QED
    BY <1>2, <2>1, ProductNatural DEF RequiredBytes
<1>4. RequiredBytes(b) \in 0 .. WordMax
  BY <1>1, <1>3, WordAssumption DEF CheckedBytes
<1>5. RequiredBytes(b) % (WordMax + 1) = RequiredBytes(b)
  BY <1>4, WordAssumption, SmallModulo
<1>6. /\ b.aligned \in b.allocated .. b.allocated + b.bytes
      /\ RequiredBytes(b) <= WordMax - b.aligned
      /\ b.aligned + RequiredBytes(b) <= b.allocated + b.bytes
  BY <1>1, <1>5 DEF InAllocation
<1>7. b.aligned \in Nat /\ b.allocated \in Nat /\ b.bytes \in Nat
  BY WordAssumption DEF BufferRec
<1>8. QED
  BY <1>1, <1>4, <1>6, <1>7, WordAssumption

\* What the code touches at one position is what the check computed.
LEMMA TouchedRange ==
  ASSUME CallInv, callPc = "running", mode # "legacy", NEW i \in DOMAIN args
  PROVE  /\ TouchedBytes(i) = args[i].aligned .. args[i].aligned + RequiredBytes(args[i]) - 1
         /\ args[i].aligned \in Nat /\ args[i].allocated \in Nat /\ args[i].bytes \in Nat
         /\ RequiredBytes(args[i]) \in 0 .. WordMax
         /\ args[i].allocated <= args[i].aligned
         /\ args[i].aligned + RequiredBytes(args[i]) <= args[i].allocated + args[i].bytes
         /\ args[i].aligned + RequiredBytes(args[i]) <= WordMax
<1> DEFINE b == args[i]
           p == PortsOf(abi)[SignaturePort(i)]
           n == b.size[1] * b.size[2] * ElementBytes[Signature(kernel)[i].elem]
<1>1. /\ SignatureMatches /\ i \in 1 .. Len(PortsOf(abi)) /\ Taken(SignaturePort(i), b)
      /\ kernel \in Kernels /\ Prepares(kernel) /\ abi = AbiOf(kernel)
  BY ArgumentsTaken
<1>2. /\ p.elem \in Supported /\ Signature(kernel)[i].elem = p.elem
      /\ b \in BufferRec /\ BufferOK(p, b)
  <2>1. PortsFit(abi)
    BY <1>1, AbiFacts
  <2>2. QED
    BY <1>1, <2>1 DEF SignatureMatches, PortsFit, Taken
<1>3. b.size[1] >= 0 /\ b.size[2] >= 0
  BY ArgumentExtents
<1>4. /\ b.elem = p.elem /\ RequiredBytes(b) \in 0 .. WordMax
      /\ b.allocated <= b.aligned /\ b.aligned + RequiredBytes(b) <= b.allocated + b.bytes
      /\ b.aligned + RequiredBytes(b) <= WordMax
  BY <1>2, <1>3, RangeInAllocation
<1>5. n = RequiredBytes(b)
  BY <1>2, <1>4 DEF RequiredBytes
<1>6. CodeExtents(i, 1) = {b.size[1]} /\ CodeExtents(i, 2) = {b.size[2]}
  BY CodeSeesExtent
<1>7. TouchedBytes(i) = b.aligned .. b.aligned + n - 1
  <2>1. {r * c * ElementBytes[Signature(kernel)[i].elem] :
           r \in CodeExtents(i, 1), c \in CodeExtents(i, 2)} = {n}
    BY <1>6
  <2> HIDE DEF n
  <2>2. QED
    BY <2>1 DEF TouchedBytes
<1>8. b.aligned \in Nat /\ b.allocated \in Nat /\ b.bytes \in Nat
  BY <1>2, WordAssumption DEF BufferRec
<1> HIDE DEF n, b
<1>9. QED
  BY <1>4, <1>5, <1>7, <1>8 DEF b

\* Code touches only bytes of the allocation it was offered.
LEMMA OfferedHolds == CallInv => TouchesOffered
<1>1. ASSUME CallInv, callPc = "running", mode # "legacy", NEW i \in DOMAIN args
      PROVE  /\ TouchedBytes(i) \subseteq
                  args[i].allocated .. args[i].allocated + args[i].bytes - 1
             /\ TouchedBytes(i) \subseteq 0 .. WordMax
  <2> DEFINE b == args[i]
             n == RequiredBytes(b)
  <2>1. /\ TouchedBytes(i) = b.aligned .. b.aligned + n - 1
        /\ b.aligned \in Nat /\ b.allocated \in Nat /\ b.bytes \in Nat /\ n \in 0 .. WordMax
        /\ b.allocated <= b.aligned /\ b.aligned + n <= b.allocated + b.bytes
        /\ b.aligned + n <= WordMax
    BY <1>1, TouchedRange
  <2> HIDE DEF b, n
  <2>2. /\ TouchedBytes(i) \subseteq b.allocated .. b.allocated + b.bytes - 1
        /\ TouchedBytes(i) \subseteq 0 .. WordMax
    <3> DEFINE from == b.aligned
               first == b.allocated
               size == b.bytes
    <3>1. /\ TouchedBytes(i) = from .. from + n - 1
          /\ from \in Nat /\ first \in Nat /\ size \in Nat /\ n \in Nat /\ WordMax \in Nat
          /\ first <= from /\ from + n <= first + size /\ from + n <= WordMax
      BY <2>1, WordAssumption
    <3> HIDE DEF from, first, size
    <3>2. ASSUME NEW x \in from .. from + n - 1
          PROVE  x \in first .. first + size - 1 /\ x \in 0 .. WordMax
      BY ONLY <3>1, <3>2
    <3>3. QED
      BY <3>1, <3>2 DEF first, size
  <2>3. QED
    BY <2>2 DEF b
<1>2. QED
  BY <1>1 DEF TouchesOffered

\* Nothing the code writes is seen through another argument.
LEMMA WritesHold == CallInv => WritesDisjoint
<1>1. ASSUME CallInv, callPc = "running", mode # "legacy",
             NEW i \in DOMAIN args, NEW j \in DOMAIN args, i # j, Writes(i)
      PROVE  TouchedBytes(i) \cap TouchedBytes(j) = {}
  <2> DEFINE p == SignaturePort(i)
             q == SignaturePort(j)
             n == Len(abi.inputs)
  <2>1. /\ SignatureMatches /\ args[i] = bufs[p] /\ args[j] = bufs[q]
        /\ DOMAIN args = 1 .. Len(PortsOf(abi)) /\ DOMAIN bufs = 1 .. Len(PortsOf(abi))
    BY <1>1, ArgumentsTaken
  <2>2. p \in DOMAIN bufs /\ q \in DOMAIN bufs /\ p # q /\ p > n
    BY <1>1, <2>1 DEF SignatureMatches
  <2>3. ~Collides(bufs)
    BY <1>1 DEF CallInv, Admitted
  <2>4. ~SpansOverlap(args[i], args[j]) \/ ~SpansOverlap(args[j], args[i])
    <3>1. p \in Int /\ q \in Int /\ n \in Nat
      <4>1. abi.inputs \in Seq(Port)
        BY <1>1, ArgumentsTaken, AbiFacts DEF PortsFit
      <4>2. QED
        BY <2>1, <2>2, <4>1, LenProperties
    <3>2. CASE p < q
      <4>1. q > n
        BY <2>2, <3>1, <3>2
      <4>2. QED
        BY <2>1, <2>2, <2>3, <3>2, <4>1 DEF Collides
    <3>3. CASE q < p
      BY <2>1, <2>2, <2>3, <3>3 DEF Collides
    <3>4. QED
      BY <2>2, <3>1, <3>2, <3>3
  <2> DEFINE a == args[i].aligned
             b == args[j].aligned
             k == RequiredBytes(args[i])
             m == RequiredBytes(args[j])
  <2>5. /\ TouchedBytes(i) = a .. a + k - 1 /\ TouchedBytes(j) = b .. b + m - 1
        /\ a \in Nat /\ b \in Nat /\ k \in Nat /\ m \in Nat
    BY <1>1, TouchedRange, WordAssumption
  <2>6. ~(a < b + m /\ b < a + k)
    BY <2>4 DEF SpansOverlap
  <2> HIDE DEF a, b, k, m
  <2>7. QED
    BY ONLY <2>5, <2>6
<1>2. QED
  BY <1>1 DEF WritesDisjoint

\* Every argument is the buffer of its port, with its rows where the code looks.
LEMMA AddressedHolds == CallInv => AddressedAsCompiled
<1>1. ASSUME CallInv, callPc = "running", NEW i \in DOMAIN args
      PROVE  /\ args[i].size[1] \in CodeExtents(i, 1) /\ args[i].size[2] \in CodeExtents(i, 2)
             /\ args[i].stride = <<args[i].size[2], 1>>
             /\ kernel.bindings # <<>> =>
                  LET port == kernel.bindings[i].port
                      role == kernel.bindings[i].role
                      nth  == Cardinality({ q \in 1 .. port :
                                ContractPorts(kernel)[q].role = role })
                  IN  args[i] = bufs[IF role = "input" THEN nth ELSE Len(abi.inputs) + nth]
  <2>1. args[i].size[1] \in CodeExtents(i, 1) /\ args[i].size[2] \in CodeExtents(i, 2)
    BY <1>1, CodeSeesExtent
  <2>2. /\ SignatureMatches /\ i \in 1 .. Len(PortsOf(abi)) /\ args[i] = bufs[SignaturePort(i)]
        /\ Taken(SignaturePort(i), args[i])
        /\ kernel \in Kernels /\ Prepares(kernel) /\ abi = AbiOf(kernel)
    BY <1>1, ArgumentsTaken
  <2>3. args[i].stride = <<args[i].size[2], 1>>
    BY <2>2 DEF Taken, LegacyOK, BufferOK, StaticBufferOK, SymbolicBufferOK, Compact
  <2>4. ASSUME kernel.bindings # <<>>
        PROVE  LET port == kernel.bindings[i].port
                   role == kernel.bindings[i].role
                   nth  == Cardinality({ q \in 1 .. port :
                             ContractPorts(kernel)[q].role = role })
               IN  args[i] = bufs[IF role = "input" THEN nth ELSE Len(abi.inputs) + nth]
    <3> DEFINE b == kernel.bindings[i]
               S == {q \in 1 .. b.port : ContractPorts(kernel)[q].role = b.role}
               T == {q \in Directed(kernel, ContractPorts(kernel)[b.port].role) : q <= b.port}
    <3>1. SymbolicPrepares(kernel) /\ ContractPorts(kernel) \in Seq(ContractPort)
          /\ Len(kernel.bindings) = Len(PortsOf(abi)) /\ kernel.bindings \in Seq([role : Roles, port : Nat])
      BY <2>2, <2>4, AbiFacts, SymbolicPositions, CallAssumption DEF IsKernel
    <3>2. i \in DOMAIN kernel.bindings
      BY <2>2, <3>1, LenProperties
    <3>3. b.port \in DOMAIN ContractPorts(kernel) /\ b.role = ContractPorts(kernel)[b.port].role
      BY <3>1, <3>2 DEF SymbolicPrepares
    <3>4. DOMAIN ContractPorts(kernel) = 1 .. Len(ContractPorts(kernel)) /\ Len(ContractPorts(kernel)) \in Nat
      BY <3>1, LenProperties
    <3>5. S = T
      BY <3>3, <3>4 DEF Directed
    <3>6. Landed(kernel, b.port) = Cardinality(S)
      BY <3>5 DEF Landed
    <3> HIDE DEF S, T
    <3>7. SignaturePort(i) = IF b.role = "input" THEN Cardinality(S) ELSE Len(abi.inputs) + Cardinality(S)
      BY <2>2, <2>4, <3>6 DEF SignatureMatches, PositionOf
    <3>8. QED
      BY <2>2, <3>7 DEF S
  <2>5. QED
    BY <2>1, <2>3, <2>4
<1>2. QED
  BY <1>1 DEF AddressedAsCompiled
-----------------------------------------------------------------------------
(* Arithmetic of multiples                                                 *)

\* Division with remainder.
LEMMA Division ==
  ASSUME NEW a \in Nat, NEW c \in Nat \ {0}
  PROVE  \E q \in Nat : a = c * q + (a % c) /\ a % c \in 0 .. c - 1
<1>1. a \div c \in Nat /\ a = c * (a \div c) + (a % c) /\ a % c \in 0 .. c - 1
  OBVIOUS
<1>2. QED
  BY <1>1

LEMMA MultipleModulo ==
  ASSUME NEW q \in Nat, NEW c \in Nat \ {0}
  PROVE  (c * q) % c = 0
OBVIOUS

\* What divides a divisor divides the number.
LEMMA DividesThrough ==
  ASSUME NEW a \in Nat, NEW b \in Nat \ {0}, NEW c \in Nat \ {0}, a % b = 0, b % c = 0
  PROVE  a % c = 0
<1>1. PICK x \in Nat : a = b * x + (a % b) /\ a % b \in 0 .. b - 1
  BY Division
<1>2. PICK y \in Nat : b = c * y + (b % c) /\ b % c \in 0 .. c - 1
  BY Division
<1> DEFINE p == b * x
           q == c * y
<1>4. p \in Nat /\ q \in Nat
  BY ONLY x \in Nat, y \in Nat, b \in Nat, c \in Nat
<1>5. a = p + (a % b) /\ b = q + (b % c)
  BY <1>1, <1>2
<1> HIDE DEF p, q
<1>6. a = p /\ b = q
  BY <1>4, <1>5
<1>3. y * x \in Nat /\ a = c * (y * x)
  BY ONLY <1>6, x \in Nat, y \in Nat, c \in Nat DEF p, q
<1>7. QED
  BY ONLY <1>3, MultipleModulo, c \in Nat \ {0}

\* A multiple that is not below a number is not below the next multiple.
LEMMA NextMultiple ==
  ASSUME NEW m \in Nat, NEW v \in Nat, NEW c \in Nat \ {0}, v % c = 0, m <= v, m % c # 0
  PROVE  m + (c - (m % c)) <= v
<1>0. PICK x \in Nat : v = c * x + (v % c) /\ v % c \in 0 .. c - 1
  BY Division
<1>1. v = c * x
  <2> DEFINE p == c * x
  <2>1. p \in Nat
    BY ONLY x \in Nat, c \in Nat
  <2>2. v = p + (v % c)
    BY <1>0
  <2> HIDE DEF p
  <2>3. v = p
    BY <2>1, <2>2
  <2>4. QED
    BY <2>3 DEF p
<1>2. PICK y \in Nat : m = c * y + (m % c) /\ m % c \in 0 .. c - 1
  BY Division
<1>3. x > y
  <2>1. SUFFICES ASSUME x <= y PROVE FALSE
    BY x \in Nat, y \in Nat
  <2>2. c * x <= c * y
    BY ONLY <2>1, x \in Nat, y \in Nat, c \in Nat
  <2>3. c * x \in Nat /\ c * y \in Nat
    BY ONLY x \in Nat, y \in Nat, c \in Nat
  <2>4. QED
    BY <1>1, <1>2, <2>2, <2>3
<1>4. c * x >= c * (y + 1) /\ c * (y + 1) = c * y + c
  BY ONLY <1>3, x \in Nat, y \in Nat, c \in Nat
<1>5. c * x \in Nat /\ c * y \in Nat
  BY ONLY x \in Nat, y \in Nat, c \in Nat
<1> DEFINE p == c * x
           q == c * y
           r == m % c
<1>6. v = p /\ m = q + r /\ p >= q + c /\ p \in Nat /\ q \in Nat /\ r \in 0 .. c - 1
  BY <1>1, <1>2, <1>4, <1>5
<1> HIDE DEF p, q, r
<1>7. m + (c - r) <= v
  BY <1>6
<1>8. QED
  BY <1>7 DEF r
-----------------------------------------------------------------------------
(* Guards                                                                  *)

Guard == [kind : {"divisible_by", "equal_to", "at_least"}, sym : Nat, value : Int]
ValidSymbol(c) ==
  /\ c \in Symbols /\ c.min >= 0 /\ c.multipleOf > 0
  /\ c.max # NoMax => c.max >= c.min

\* A guard the declared domain proves holds for every admitted extent.
LEMMA ProvenHolds ==
  ASSUME NEW symbols, NEW vs, NEW g \in Guard, g.sym \in DOMAIN symbols,
         DOMAIN vs = DOMAIN symbols, ValidSymbol(symbols[g.sym]),
         vs[g.sym] \in Nat, Admits(symbols[g.sym], vs[g.sym]),
         ClassifyPredicate(g, symbols) = "proven"
  PROVE  GuardHolds(g, vs)
<1> DEFINE c == symbols[g.sym]
           v == vs[g.sym]
<1>1. /\ c \in Symbols /\ c.min \in Nat /\ c.max \in Int /\ c.multipleOf \in Nat \ {0}
      /\ v \in Nat /\ g.value \in Int /\ v >= c.min /\ v % c.multipleOf = 0
      /\ c.max # NoMax => v <= c.max
  BY DEF ValidSymbol, Symbols, Admits, Guard
<1>2. CASE g.kind = "divisible_by"
  <2>1. g.value > 0 /\ (c.multipleOf % g.value = 0 \/ (c.max # NoMax /\ c.min = c.max /\ c.min % g.value = 0))
    BY <1>1, <1>2 DEF ClassifyPredicate
  <2>2. v % g.value = 0
    <3>1. CASE c.multipleOf % g.value = 0
      <4> HIDE DEF c, v
      <4>1. g.value \in Nat \ {0}
        BY <1>1, <2>1
      <4>2. QED
        BY <1>1, <3>1, <4>1, DividesThrough
    <3>2. CASE c.max # NoMax /\ c.min = c.max /\ c.min % g.value = 0
      <4>1. v = c.min
        BY <1>1, <3>2
      <4>2. QED
        BY <3>2, <4>1
    <3>3. QED
      BY <2>1, <3>1, <3>2
  <2>3. QED
    BY <1>1, <1>2, <2>1, <2>2 DEF GuardHolds
<1>3. CASE g.kind = "equal_to"
  <2>1. c.max # NoMax /\ c.min = c.max /\ g.value >= c.min /\ g.value <= c.max
    BY <1>1, <1>3 DEF ClassifyPredicate
  <2>2. v = g.value
    BY <1>1, <2>1
  <2>3. QED
    BY <1>1, <1>3, <2>2 DEF GuardHolds
<1>4. CASE g.kind = "at_least"
  <2>1. c.min >= g.value
    BY <1>1, <1>4 DEF ClassifyPredicate
  <2>2. QED
    BY <1>1, <1>4, <2>1 DEF GuardHolds
<1>5. QED
  BY <1>2, <1>3, <1>4 DEF Guard

\* A guard the declared domain refutes holds for no admitted extent.
LEMMA HoldsNotDisproven ==
  ASSUME NEW symbols, NEW vs, NEW g \in Guard, g.sym \in DOMAIN symbols,
         DOMAIN vs = DOMAIN symbols, ValidSymbol(symbols[g.sym]),
         vs[g.sym] \in 0 .. IntMax, Admits(symbols[g.sym], vs[g.sym]),
         GuardHolds(g, vs)
  PROVE  ClassifyPredicate(g, symbols) # "disproven"
<1> DEFINE c == symbols[g.sym]
           v == vs[g.sym]
<1>1. /\ c \in Symbols /\ c.min \in Nat /\ c.max \in Int /\ c.multipleOf \in Nat \ {0}
      /\ v \in Nat /\ v <= IntMax /\ IntMax \in Nat /\ g.value \in Int
      /\ v >= c.min /\ v % c.multipleOf = 0
      /\ c.max # NoMax => v <= c.max
  BY WordAssumption DEF ValidSymbol, Symbols, Admits, Guard
<1>2. CASE g.kind = "divisible_by"
  <2>1. g.value \in Nat \ {0} /\ v % g.value = 0
    BY <1>1, <1>2 DEF GuardHolds
  <2>2. HasMultipleInRange(c.min, c.max, g.value)
    <3>1. CASE c.min % g.value = 0
      BY <2>1, <3>1 DEF HasMultipleInRange
    <3>2. CASE c.min % g.value # 0
      <4> DEFINE d == g.value - (c.min % g.value)
      <4>1. c.min + d <= v
        BY <1>1, <2>1, <3>2, NextMultiple
      <4>2. d \in Nat
        BY <1>1, <2>1
      <4> HIDE DEF d
      <4>3. c.min <= IntMax - d /\ (c.max = NoMax \/ c.min + d <= c.max)
        BY <1>1, <4>1, <4>2
      <4>4. QED
        BY <2>1, <4>3 DEF HasMultipleInRange, d
    <3>3. QED
      BY <3>1, <3>2
  <2>3. c.max # NoMax /\ c.min = c.max => c.min % g.value = 0
    BY <1>1, <2>1
  <2> HIDE DEF c, v
  <2>4. QED
    BY <1>1, <1>2, <2>1, <2>2, <2>3 DEF ClassifyPredicate, c
<1>3. CASE g.kind = "equal_to"
  <2>1. v = g.value
    BY <1>3 DEF GuardHolds
  <2>2. ~(g.value < c.min) /\ ~(c.max # NoMax /\ g.value > c.max) /\ g.value % c.multipleOf = 0
    BY <1>1, <2>1
  <2>3. QED
    BY <1>3, <2>2 DEF ClassifyPredicate
<1>4. CASE g.kind = "at_least"
  <2>1. v >= g.value
    BY <1>4 DEF GuardHolds
  <2>2. QED
    BY <1>1, <1>4, <2>1 DEF ClassifyPredicate
<1>5. QED
  BY <1>2, <1>3, <1>4 DEF Guard

\* The extents a running call has bound are admitted, and its symbols valid.
LEMMA BoundValues ==
  ASSUME CallInv, callPc = "running", abi.version = 2
  PROVE  /\ kernel \in Kernels /\ kernel.bindings # <<>>
         /\ DOMAIN values = DOMAIN abi.symbols
         /\ \A s \in DOMAIN abi.symbols :
              /\ values[s] \in 0 .. IntMax /\ Admits(abi.symbols[s], values[s])
              /\ values[s] = CHOOSE v \in ExtentsOf(PortsOf(abi), Extents(bufs), s) : TRUE
              /\ ValidSymbol(abi.symbols[s])
<1> DEFINE P == PortsOf(abi)
<1>1. kernel \in Kernels /\ Prepares(kernel) /\ abi = AbiOf(kernel) /\ IsKernel(kernel)
  BY ArgumentsTaken, CallAssumption
<1>2. kernel.bindings # <<>>
  BY <1>1, AbiFacts
<1>3. /\ PortsFit(abi) /\ ValidContract(P, abi.symbols) /\ abi = SymbolicAbi(kernel)
      /\ P \in Seq(Port) /\ DOMAIN P = 1 .. Len(P)
  BY <1>1, <1>2, AbiFacts, LenProperties DEF PortsFit
<1>4. /\ BindsShape(P, abi.symbols, Extents(bufs)) /\ bufs \in Seq(BufferRec)
      /\ DOMAIN bufs = 1 .. Len(P)
      /\ values = [s \in DOMAIN abi.symbols |-> CHOOSE v \in ExtentsOf(P, Extents(bufs), s) : TRUE]
  BY ArgumentsTaken DEF CallInv, Accepted, Admitted
<1>5. ASSUME NEW s \in DOMAIN abi.symbols
      PROVE  /\ values[s] \in 0 .. IntMax /\ Admits(abi.symbols[s], values[s])
             /\ values[s] = CHOOSE v \in ExtentsOf(P, Extents(bufs), s) : TRUE
             /\ ValidSymbol(abi.symbols[s])
  <2> DEFINE E == ExtentsOf(P, Extents(bufs), s)
  <2>1. Cardinality(E) = 1 /\ \A v \in E : Admits(abi.symbols[s], v)
    BY <1>4 DEF BindsShape
  <2>2. values[s] = CHOOSE v \in E : TRUE
    BY <1>4
  <2>3. values[s] \in E
    <3> HIDE DEF E
    <3>1. E # {}
      BY <2>1, FS_EmptySet
    <3>2. QED
      BY <2>2, <3>1
  <2>4. PICK x \in (DOMAIN P) \X {1, 2} : values[s] = Extents(bufs)[x[1]][x[2]]
    BY <2>3 DEF ExtentsOf
  <2>5. x[1] \in 1 .. Len(P) /\ x[2] \in {1, 2} /\ DOMAIN P[x[1]].dims = {1, 2}
    BY <1>3 DEF PortsFit
  <2>6. bufs[x[1]] \in BufferRec /\ Extents(bufs)[x[1]] = bufs[x[1]].size
    BY <1>4, <2>5, ElementOfSeq, LenProperties DEF Extents
  <2>7. values[s] \in Extent
    <3>1. bufs[x[1]].size \in Extent \X Extent
      BY <2>6 DEF BufferRec
    <3>2. QED
      BY <2>4, <2>5, <2>6, <3>1
  <2>8. values[s] >= 0
    <3>1. Extents(bufs)[x[1]][x[2]] >= 0
      BY <1>3, <1>4, <2>5 DEF BindsShape
    <3>2. QED
      BY <2>4, <3>1
  <2>9. ValidSymbol(abi.symbols[s])
    <3>1. abi.symbols = SymbolTable(kernel)
      BY <1>3 DEF SymbolicAbi
    <3>2. abi.symbols[s] \in Symbols
      <4>1. CASE kernel.contract # <<>>
        BY <1>1, <3>1, <4>1 DEF SymbolTable, IsKernel
      <4>2. CASE kernel.contract = <<>>
        BY <3>1, <4>2 DEF SymbolTable, Symbols, NoMax
      <4>3. QED
        BY <4>1, <4>2
    <3>3. QED
      BY <1>3, <3>2 DEF ValidContract, ValidSymbol
  <2>10. QED
    BY <2>1, <2>2, <2>3, <2>7, <2>8, <2>9, WordAssumption DEF Extent
<1>6. DOMAIN values = DOMAIN abi.symbols
  BY <1>4
<1>7. QED
  BY <1>1, <1>2, <1>5, <1>6

\* A shape sample of the contract accepts the values of a call and has its extents.
LEMMA SampleHolds == CallInv => SampleAgrees
<1>1. ASSUME CallInv, callPc = "running", abi.version = 2
      PROVE  ValidValues(abi.symbols, values)
  BY <1>1, BoundValues DEF ValidValues
<1>2. ASSUME CallInv, callPc = "running", abi.version = 2, NEW i \in DOMAIN args, NEW d \in {1, 2}
      PROVE  LET dim == ContractPorts(kernel)[kernel.bindings[i].port].dims[d]
             IN  args[i].size[d] = IF IsConstant(dim) THEN dim.ext ELSE values[dim.sym]
  <2> DEFINE dim == PortsOf(abi)[SignaturePort(i)].dims[d]
  <2>1. kernel.bindings # <<>>
    BY <1>2, BoundValues
  <2>2. SignatureMatches /\ i \in 1 .. Len(PortsOf(abi))
    BY <1>2, ArgumentsTaken
  <2>3. dim = ContractPorts(kernel)[kernel.bindings[i].port].dims[d]
    BY <2>1, <2>2 DEF SignatureMatches
  <2>4. CASE IsConstant(dim)
    BY <1>2, <2>3, <2>4, ArgumentExtents
  <2>5. CASE ~IsConstant(dim)
    <3>1. dim.sym \in DOMAIN abi.symbols
          /\ ExtentsOf(PortsOf(abi), Extents(bufs), dim.sym) = {args[i].size[d]}
      BY <1>2, <2>5, ArgumentExtents
    <3>2. values[dim.sym] = CHOOSE v \in {args[i].size[d]} : TRUE
      BY <1>2, <3>1, BoundValues
    <3>3. values[dim.sym] = args[i].size[d]
      <4> HIDE DEF dim
      <4>1. QED
        BY <3>2
    <3>4. QED
      BY <2>3, <2>5, <3>3
  <2>6. QED
    BY <2>4, <2>5
<1>3. QED
  BY <1>1, <1>2 DEF SampleAgrees

\* A variant that is passed over has a guard that fails.
LEMMA SelectedProperties ==
  ASSUME NEW vs, NEW vals, ValidVariants(vs), DOMAIN vs = 1 .. Len(vs), Len(vs) \in Nat
  PROVE  /\ SelectVariant(vs, vals) \in 1 .. Len(vs)
         /\ \A g \in vs[SelectVariant(vs, vals)].guards : GuardHolds(g, vals)
         /\ \A j \in 1 .. SelectVariant(vs, vals) - 1 : \E g \in vs[j].guards : ~GuardHolds(g, vals)
<1> DEFINE M == {i \in DOMAIN vs : Matches(vs[i], vals)}
           chosen == SelectVariant(vs, vals)
<1>1. /\ \A i \in 1 .. Len(vs) : vs[i].baseline <=> vs[i].guards = {}
      /\ \A i \in 1 .. Len(vs) : vs[i].baseline <=> i = Len(vs)
  BY DEF ValidVariants
<1>2. CASE M # {}
  <2>1. Min(M) \in M /\ \A j \in M : Min(M) <= j
    <3>1. M \subseteq Nat
      OBVIOUS
    <3> HIDE DEF M
    <3>2. QED
      BY <1>2, <3>1, MinMember
  <2>2. \A j \in 1 .. Min(M) - 1 : ~Matches(vs[j], vals)
    <3> DEFINE m == Min(M)
    <3>1. m \in M /\ \A j \in M : m <= j
      BY <2>1
    <3> HIDE DEF m
    <3>2. \A j \in 1 .. m - 1 : ~Matches(vs[j], vals)
      BY <3>1
    <3>3. QED
      BY <3>2 DEF m
  <2>3. chosen = CHOOSE i \in DOMAIN vs : Matches(vs[i], vals) /\ \A j \in 1 .. i - 1 : ~Matches(vs[j], vals)
    BY <1>2 DEF SelectVariant
  <2>4. \E i \in DOMAIN vs : Matches(vs[i], vals) /\ \A j \in 1 .. i - 1 : ~Matches(vs[j], vals)
    BY <2>1, <2>2
  <2>5. chosen \in DOMAIN vs /\ Matches(vs[chosen], vals) /\ \A j \in 1 .. chosen - 1 : ~Matches(vs[j], vals)
    BY <2>3, <2>4
  <2> HIDE DEF chosen
  <2>6. \A j \in 1 .. chosen - 1 : ~vs[j].baseline
    <3>1. TAKE j \in 1 .. chosen - 1
    <3>2. chosen \in 1 .. Len(vs)
      BY <2>5
    <3>3. j \in 1 .. Len(vs) /\ j # Len(vs)
      BY ONLY <3>1, <3>2, Len(vs) \in Nat
    <3>4. QED
      BY <1>1, <3>3
  <2>7. QED
    BY <2>5, <2>6 DEF Matches, chosen
<1>3. CASE M = {}
  <2>1. chosen = Len(vs) /\ chosen \in 1 .. Len(vs)
    <3>1. vs # <<>> /\ Len(vs) # 0
      BY DEF ValidVariants
    <3>2. QED
      BY <1>3, <3>1 DEF SelectVariant
  <2>2. vs[chosen].guards = {}
    BY <1>1, <2>1
  <2>3. ASSUME NEW j \in 1 .. chosen - 1 PROVE ~vs[j].baseline /\ ~Matches(vs[j], vals)
    <3> HIDE DEF chosen
    <3>1. j \in 1 .. Len(vs) /\ j # Len(vs)
      BY ONLY <2>1, Len(vs) \in Nat, j \in 1 .. chosen - 1
    <3>2. QED
      BY <1>1, <1>3, <3>1
  <2>4. QED
    BY <2>1, <2>2, <2>3 DEF Matches
<1>4. QED
  BY <1>2, <1>3

\* Dispatch never contradicts what the declared domain decided.
LEMMA DispatchHolds == CallInv => DispatchSound
<1> SUFFICES ASSUME CallInv, callPc = "running", abi.version = 2,
                    NEW vs \in VariantSets, ValidVariants(vs)
             PROVE  LET chosen == SelectVariant(vs, values) IN
                    /\ \A g \in vs[chosen].guards : ClassifyPredicate(g, abi.symbols) # "disproven"
                    /\ \A j \in 1 .. chosen - 1 : \E g \in vs[j].guards :
                         ClassifyPredicate(g, abi.symbols) # "proven"
  BY DEF DispatchSound
<1> DEFINE chosen == SelectVariant(vs, values)
<1>1. /\ DOMAIN values = DOMAIN abi.symbols
      /\ \A s \in DOMAIN abi.symbols :
           /\ values[s] \in 0 .. IntMax /\ Admits(abi.symbols[s], values[s])
           /\ ValidSymbol(abi.symbols[s])
  BY BoundValues
<1>2. DOMAIN vs = 1 .. Len(vs) /\ Len(vs) \in Nat /\ \A j \in 1 .. Len(vs) : \A g \in vs[j].guards : g \in Guard
  <2>1. vs \in Seq([guards : SUBSET Guard, baseline : BOOLEAN])
    BY CallAssumption DEF Guard
  <2>2. \A j \in 1 .. Len(vs) : vs[j] \in [guards : SUBSET Guard, baseline : BOOLEAN]
    BY <2>1, ElementOfSeq
  <2>3. QED
    BY <2>1, <2>2, LenProperties
<1>3. /\ chosen \in 1 .. Len(vs)
      /\ \A g \in vs[chosen].guards : GuardHolds(g, values)
      /\ \A j \in 1 .. chosen - 1 : \E g \in vs[j].guards : ~GuardHolds(g, values)
  BY <1>2, SelectedProperties
<1>4. \A g \in Guard : g.sym \notin DOMAIN abi.symbols => ClassifyPredicate(g, abi.symbols) = "guard"
  BY DEF ClassifyPredicate
<1>5. \A g \in Guard : g.sym \in DOMAIN abi.symbols /\ GuardHolds(g, values)
        => ClassifyPredicate(g, abi.symbols) # "disproven"
  BY <1>1, HoldsNotDisproven
<1>6. \A g \in Guard : g.sym \in DOMAIN abi.symbols /\ ClassifyPredicate(g, abi.symbols) = "proven"
        => GuardHolds(g, values)
  BY <1>1, ProvenHolds
<1> HIDE DEF chosen
<1>7. \A g \in vs[chosen].guards : ClassifyPredicate(g, abi.symbols) # "disproven"
  <2>1. TAKE g \in vs[chosen].guards
  <2>2. g \in Guard /\ GuardHolds(g, values)
    BY <1>2, <1>3
  <2>3. CASE g.sym \in DOMAIN abi.symbols
    BY <1>5, <2>2, <2>3
  <2>4. CASE g.sym \notin DOMAIN abi.symbols
    BY <1>4, <2>2, <2>4
  <2>5. QED
    BY <2>3, <2>4
<1>8. \A j \in 1 .. chosen - 1 : \E g \in vs[j].guards : ClassifyPredicate(g, abi.symbols) # "proven"
  <2>1. TAKE j \in 1 .. chosen - 1
  <2>2. PICK g \in vs[j].guards : ~GuardHolds(g, values)
    BY <1>3
  <2>3. g \in Guard
    BY <1>2, <1>3
  <2>4. ClassifyPredicate(g, abi.symbols) # "proven"
    <3>1. CASE g.sym \in DOMAIN abi.symbols
      BY <1>6, <2>2, <2>3, <3>1
    <3>2. CASE g.sym \notin DOMAIN abi.symbols
      BY <1>4, <2>3, <3>2
    <3>3. QED
      BY <3>1, <3>2
  <2>5. QED
    BY <2>4
<1>9. QED
  BY <1>7, <1>8 DEF chosen
-----------------------------------------------------------------------------
(* What the layers agree on                                                *)

\* The memory behind a lease is as large as its descriptor says.
LEMMA LeaseMemory ==
  ASSUME NEW i, NEW l, LeaseOf(i, l)
  PROVE  l.memory >= l.descriptor.bytes
<1>1. PICK o \in Providers :
        /\ DescribeOK(PublicPorts[i], o, i = Len(PublicPorts))
        /\ l = [descriptor |-> Descriptor(PublicPorts[i], o), memory |-> o.bytes]
  BY DEF LeaseOf
<1>2. IsProvider(o) /\ LayoutOK(o)
  BY <1>1, CallAssumption DEF DescribeOK
<1>3. l.memory = o.bytes /\ l.descriptor.bytes = Allocation(o)
  BY <1>1 DEF Descriptor
<1>4. o.bytes >= Allocation(o)
  <2>1. CASE o.kind = "array"
    BY <1>2, <2>1 DEF IsProvider, LayoutOK, Allocation
  <2>2. CASE o.kind # "array"
    BY <1>2, <2>2 DEF IsProvider, Allocation
  <2>3. QED
    BY <2>1, <2>2
<1>5. QED
  BY <1>3, <1>4

LEMMA PreparedHolds == CallInv => PreparedIsAccepted
<1>1. ASSUME CallInv
      PROVE  why # "native" /\ (mode = "python" => why # "overlap")
  BY <1>1 DEF CallInv, Leased
<1>2. ASSUME CallInv, mode = "python", callPc = "running", NEW i \in DOMAIN leases
      PROVE  leases[i].memory >= leases[i].descriptor.bytes
  BY <1>2, LeaseMemory DEF CallInv, Leased
<1>3. QED
  BY <1>1, <1>2 DEF PreparedIsAccepted

LEMMA TypesHold == CallInv => CallTypeOK
<1> SUFFICES ASSUME CallInv PROVE CallTypeOK
  OBVIOUS
<1>1. /\ kernel \in Kernels /\ Len(bufs) <= MaxDescriptors
      /\ callPc \in {"prepare", "create", "failed", "idle", "check", "lease", "running", "refused"}
      /\ mode \in {"none", "typed", "legacy", "python"} /\ why \in Ways
  BY DEF CallInv, Prepared, Accepted, Leased
<1>2. abi = NoAbi \/ (Prepares(kernel) /\ abi = AbiOf(kernel))
  BY DEF CallInv, Prepared
<1>3. abi.version \in 0 .. 2
  <2>1. CASE abi = NoAbi
    BY <2>1 DEF NoAbi
  <2>2. CASE Prepares(kernel) /\ abi = AbiOf(kernel)
    <3>1. abi.version = 1 \/ abi.version = 2
      BY <1>1, <2>2, AbiFacts
    <3>2. QED
      BY <3>1
  <2>3. QED
    BY <1>2, <2>1, <2>2
<1>4. CASE callPc = "running"
  <2>1. /\ DOMAIN args = 1 .. Len(PortsOf(abi)) /\ Prepares(kernel) /\ abi = AbiOf(kernel)
        /\ \A i \in DOMAIN args : args[i] \in BufferRec
        /\ args = [i \in DOMAIN bufs |-> bufs[SignaturePort(i)]]
    BY <1>4, ArgumentsTaken DEF Taken, CallInv, Admitted, Passed
  <2>2. Len(PortsOf(abi)) <= MaxDescriptors /\ Len(PortsOf(abi)) \in Nat
    <3>1. PortsFit(abi)
      BY <1>1, <2>1, AbiFacts
    <3>2. QED
      BY <3>1, LenProperties DEF PortsFit
  <2>3. args \in [1 .. Len(PortsOf(abi)) -> BufferRec]
    BY <2>1
  <2>4. Len(args) <= MaxDescriptors
    BY <2>2, <2>3, SeqDef, LenProperties
  <2>5. \A s \in DOMAIN values : values[s] \in 0 .. WordMax
    <3>1. CASE abi.version = 2
      BY <1>4, <3>1, BoundValues, WordAssumption
    <3>2. CASE abi.version # 2
      <4>1. abi.symbols = <<>>
        BY <1>1, <2>1, <3>2, AbiFacts
      <4>2. DOMAIN values = {}
        BY <1>4, <4>1 DEF CallInv, Admitted
      <4>3. QED
        BY <4>2
    <3>3. QED
      BY <3>1, <3>2
  <2>6. QED
    BY <1>1, <1>3, <2>4, <2>5 DEF CallTypeOK
<1>5. CASE callPc # "running"
  <2>1. args = <<>> /\ values = <<>>
    BY <1>5 DEF CallInv, Admitted
  <2>2. Len(args) <= MaxDescriptors /\ \A s \in DOMAIN values : values[s] \in 0 .. WordMax
    BY <2>1, WordAssumption
  <2>3. QED
    BY <1>1, <1>3, <2>2 DEF CallTypeOK
<1>6. QED
  BY <1>4, <1>5
-----------------------------------------------------------------------------
(* A call from Python                                                      *)

\* A descriptor with the extents of its port over memory that is large enough is
\* accepted, and reaches no further than that memory.
LEMMA PlainAccepted ==
  ASSUME NEW p \in Port, p.elem \in Supported, p.dims[1].ext \in Extent, p.dims[2].ext \in Extent,
         p.dims[1].ext > 0, p.dims[2].ext > 0,
         NEW address \in Nat \ {NullPointer}, NEW bytes \in Nat, address + bytes <= WordMax,
         ElementCount(<<p.dims[1].ext, p.dims[2].ext>>) * ElementBytes[p.elem] <= bytes,
         address % ElementBytes[p.elem] = 0,
         NEW b, b = [allocated |-> address, aligned |-> address, offset |-> 0,
                     size |-> <<p.dims[1].ext, p.dims[2].ext>>,
                     stride |-> <<p.dims[2].ext, 1>>, elem |-> p.elem, bytes |-> bytes]
  PROVE  b \in BufferRec /\ StaticBufferOK(p, b) /\ RequiredBytes(b) \in 0 .. bytes
<1> DEFINE m == p.dims[1].ext
           n == p.dims[2].ext
           w == ElementBytes[p.elem]
           count == m * n
<1>1. m \in Nat /\ n \in Nat /\ w \in {1, 2, 4} /\ 1 \in Extent /\ 0 \in Extent
  BY ElementSizes, WordAssumption DEF Extent
<1>2. count \in Nat
  BY <1>1, ProductNatural
<1>3. RequiredBytes(b) = count * w /\ b.size[1] * b.size[2] = count
      /\ ElementCount(<<m, n>>) = count
  BY DEF RequiredBytes, ElementCount
<1>4. b \in BufferRec
  <2>1. address \in 0 .. WordMax /\ bytes \in 0 .. WordMax
    BY WordAssumption
  <2>2. <<m, n>> \in Extent \X Extent /\ <<n, 1>> \in Extent \X Extent /\ p.elem \in STRING
    BY <1>1 DEF Port
  <2>3. QED
    BY <1>1, <2>1, <2>2 DEF BufferRec
<1>5. /\ b.allocated = address /\ b.aligned = address /\ b.bytes = bytes /\ b.elem = p.elem
      /\ b.size = <<m, n>> /\ b.offset = 0 /\ Compact(b)
  BY DEF Compact
<1> HIDE DEF m, n, w, count
<1>6. count * w \in Nat /\ count <= count * w /\ count * w <= bytes
  BY <1>1, <1>2, <1>3 DEF m, n, w
<1>7. count * w \in 0 .. WordMax
  BY <1>6, WordAssumption
<1>8. CheckedBytes(b)
  <2> DEFINE required == count * w
  <2>1. RequiredBytes(b) = required /\ required \in 0 .. WordMax /\ count <= required
    BY <1>3, <1>6, <1>7
  <2> HIDE DEF required
  <2>2. required <= WordMax /\ count <= WordMax
    BY <1>2, <2>1, WordAssumption
  <2>3. QED
    BY <1>3, <2>1, <2>2 DEF CheckedBytes
<1>9. InAllocation(b)
  <2> DEFINE required == count * w
  <2>1. required % (WordMax + 1) = required
    BY <1>7, WordAssumption, SmallModulo
  <2>2. required \in Nat /\ required <= bytes
    BY <1>6
  <2>3. RequiredBytes(b) % (WordMax + 1) = required
    BY <1>3, <2>1
  <2> HIDE DEF required
  <2>4. /\ bytes <= WordMax - address
        /\ address \in address .. address + bytes
        /\ required <= WordMax - address
        /\ address + required <= address + bytes
    BY <2>2, WordAssumption
  <2>5. QED
    BY <1>5, <2>3, <2>4 DEF InAllocation
<1>10. StaticBufferOK(p, b)
  BY <1>5, <1>8, <1>9 DEF StaticBufferOK, m, n, NullPointer
<1>11. QED
  BY <1>3, <1>4, <1>6, <1>10

\* The ports a Python caller sees are those of version 1, and each native input
\* has its source.
LEMMA PublicFacts ==
  ASSUME kernel \in Kernels, Prepares(kernel), abi = AbiOf(kernel), Adapts
  PROVE  /\ abi.version = 1 /\ Len(abi.inputs) \in Nat /\ Len(PortsOf(abi)) = Len(abi.inputs) + 1
         /\ Len(kernel.inputMap) \in Nat /\ DOMAIN kernel.inputMap = 1 .. Len(kernel.inputMap)
         /\ \A i \in 1 .. Len(PortsOf(abi)) : LET p == PortsOf(abi)[i] IN
              /\ p \in Port /\ p.elem \in Supported
              /\ p.dims[1].ext \in Extent /\ p.dims[2].ext \in Extent
              /\ p.dims[1].ext > 0 /\ p.dims[2].ext > 0
         /\ Len(PublicPorts) = Len(kernel.inputMap) + 1
         /\ \A j \in 1 .. Len(kernel.inputMap) :
              /\ kernel.inputMap[j] \in 1 .. Len(abi.inputs)
              /\ PublicPorts[j] = PortsOf(abi)[kernel.inputMap[j]]
         /\ PublicPorts[Len(PublicPorts)] = PortsOf(abi)[Len(abi.inputs) + 1]
         /\ \A i \in 1 .. Len(abi.inputs) : i # kernel.destination =>
              \E j \in 1 .. Len(kernel.inputMap) : kernel.inputMap[j] = i
         /\ kernel.destination # 0 =>
              /\ kernel.destination \in 1 .. Len(abi.inputs)
              /\ PortsOf(abi)[kernel.destination] = abi.inputs[kernel.destination]
              /\ abi.inputs[kernel.destination] = Describe(kernel.sig[kernel.destination])
<1> DEFINE P == PortsOf(abi)
           n == Len(abi.inputs)
           k == Len(kernel.inputMap)
<1>1. IsKernel(kernel) /\ abi.version = 1 /\ Len(abi.outputs) = 1
  BY CallAssumption DEF Adapts
<1>2. kernel.bindings = <<>>
  BY <1>1, AbiFacts
<1>3. PortsFit(abi) /\ \A i \in DOMAIN P : \A d \in {1, 2} : P[i].dims[d].ext > 0
  BY <1>2, AbiFacts
<1>4. /\ n \in Nat /\ P \in Seq(Port) /\ Len(P) = n + 1 /\ DOMAIN P = 1 .. n + 1
      /\ \A i \in 1 .. n + 1 : P[i] = IF i <= n THEN abi.inputs[i] ELSE abi.outputs[i - n]
  BY <1>1, <1>3, LenProperties DEF PortsFit
<1>5. k \in Nat /\ DOMAIN kernel.inputMap = 1 .. k
  BY <1>1, LenProperties DEF IsKernel
<1>6. ASSUME NEW i \in 1 .. n + 1
      PROVE  /\ P[i] \in Port /\ P[i].elem \in Supported
             /\ P[i].dims[1].ext \in Extent /\ P[i].dims[2].ext \in Extent
             /\ P[i].dims[1].ext > 0 /\ P[i].dims[2].ext > 0
  <2>1. P[i] \in Port
    BY <1>4, ElementOfSeq
  <2>2. P[i].elem \in Supported /\ P[i].dims[1] \in Dim /\ P[i].dims[2] \in Dim
    BY <1>3, <1>4 DEF PortsFit
  <2>3. QED
    BY <1>3, <1>4, <2>1, <2>2 DEF Dim
<1>7. PublicPorts = [i \in 1 .. k + 1 |-> IF i <= k THEN abi.inputs[kernel.inputMap[i]] ELSE abi.outputs[1]]
  BY DEF PublicPorts
<1>8. Len(PublicPorts) = k + 1
  <2>1. k + 1 \in Nat
    BY <1>5
  <2> DEFINE S == {PublicPorts[i] : i \in 1 .. k + 1}
  <2>2. PublicPorts \in [1 .. k + 1 -> S]
    BY <1>7
  <2> HIDE DEF k, S
  <2>3. PublicPorts \in Seq(S)
    BY <2>1, <2>2, SeqDef
  <2>4. QED
    BY <2>1, <2>2, <2>3, LenProperties
<1>9. ASSUME NEW j \in 1 .. k
      PROVE  kernel.inputMap[j] \in 1 .. n /\ PublicPorts[j] = P[kernel.inputMap[j]]
  <2>1. kernel.inputMap[j] \in 1 .. n
    BY <1>5 DEF Adapts
  <2>2. PublicPorts[j] = abi.inputs[kernel.inputMap[j]]
    BY <1>5, <1>7
  <2>3. QED
    BY <1>4, <2>1, <2>2
<1>10. PublicPorts[k + 1] = P[n + 1]
  <2>1. k + 1 \in 1 .. k + 1 /\ ~(k + 1 <= k) /\ n + 1 \in 1 .. n + 1 /\ ~(n + 1 <= n) /\ n + 1 - n = 1
    BY <1>4, <1>5
  <2> HIDE DEF k, n, P
  <2>2. PublicPorts[k + 1] = abi.outputs[1] /\ P[n + 1] = abi.outputs[1]
    BY <1>4, <1>7, <2>1
  <2>3. QED
    BY <2>2
<1>11. /\ kernel.destination \in Nat
       /\ ToSet(kernel.inputMap) \cup ({kernel.destination} \ {0}) = 1 .. n
  BY <1>1 DEF Adapts, IsKernel
<1>12. ASSUME NEW i \in 1 .. n, i # kernel.destination
       PROVE  \E j \in 1 .. k : kernel.inputMap[j] = i
  <2>1. i \in ToSet(kernel.inputMap)
    BY <1>11, <1>12
  <2>2. QED
    BY <1>5, <2>1 DEF ToSet
<1>13. ASSUME kernel.destination # 0
       PROVE  /\ kernel.destination \in 1 .. n
              /\ P[kernel.destination] = abi.inputs[kernel.destination]
              /\ abi.inputs[kernel.destination] = Describe(kernel.sig[kernel.destination])
  <2>1. kernel.destination \in 1 .. n
    BY <1>11, <1>13
  <2>2. P[kernel.destination] = abi.inputs[kernel.destination]
    BY <1>4, <2>1
  <2>3. abi.inputs = [i \in DOMAIN kernel.sig |-> Describe(kernel.sig[i])]
    BY <1>2 DEF AbiOf, StaticAbi, NoAbi
  <2>4. kernel.destination \in DOMAIN kernel.sig
    BY <1>13, CallAssumption DEF OwnsDestination
  <2>5. QED
    BY <2>1, <2>2, <2>3, <2>4
<1> HIDE DEF P, n, k
<1>14. QED
  BY <1>1, <1>4, <1>5, <1>6, <1>8, <1>9, <1>10, <1>12, <1>13 DEF P, n, k

\* What an accepted object claims lies in the address space.
LEMMA ProviderMemory ==
  ASSUME NEW o \in Providers
  PROVE  o.address \in Nat /\ Allocation(o) \in Nat /\ o.bytes \in Nat
         /\ o.address + Allocation(o) <= WordMax
<1>1. IsProvider(o)
  BY CallAssumption
<1>2. Allocation(o) \in Nat
  <2>1. o.shape[1] \in Nat /\ o.shape[2] \in Nat /\ ElementBytes[o.elem] \in Nat
    BY <1>1, ElementSizes DEF IsProvider
  <2>2. ElementCount(o.shape) \in Nat
    BY <2>1, ProductNatural DEF ElementCount
  <2>3. ElementCount(o.shape) * ElementBytes[o.elem] \in Nat
    BY <2>1, <2>2, ProductNatural
  <2>4. QED
    BY <1>1, <2>3 DEF IsProvider, Allocation
<1>3. QED
  BY <1>1, <1>2 DEF IsProvider

\* What prepare_invocation lets through, the native check of that port accepts.
LEMMA LeaseAccepted ==
  ASSUME kernel \in Kernels, Prepares(kernel), abi = AbiOf(kernel), Adapts,
         NEW j \in 1 .. Len(PublicPorts), NEW o \in Providers,
         DescribeOK(PublicPorts[j], o, j = Len(PublicPorts))
  PROVE  LET d == Descriptor(PublicPorts[j], o) IN
         /\ d \in BufferRec /\ StaticBufferOK(PublicPorts[j], d)
         /\ d.aligned = o.address /\ d.allocated = o.address /\ d.bytes = Allocation(o)
         /\ RequiredBytes(d) \in 0 .. d.bytes
<1> DEFINE p == PublicPorts[j]
           d == Descriptor(p, o)
<1>1. /\ p \in Port /\ p.elem \in Supported /\ p.dims[1].ext \in Extent /\ p.dims[2].ext \in Extent
      /\ p.dims[1].ext > 0 /\ p.dims[2].ext > 0
  <2>1. CASE j \in 1 .. Len(kernel.inputMap)
    <3>1. p = PortsOf(abi)[kernel.inputMap[j]] /\ kernel.inputMap[j] \in 1 .. Len(PortsOf(abi))
      BY <2>1, PublicFacts
    <3> HIDE DEF p
    <3>2. QED
      BY <3>1, PublicFacts
  <2>2. CASE j = Len(kernel.inputMap) + 1
    <3>1. p = PortsOf(abi)[Len(abi.inputs) + 1] /\ Len(abi.inputs) + 1 \in 1 .. Len(PortsOf(abi))
      BY <2>2, PublicFacts
    <3> HIDE DEF p
    <3>2. QED
      BY <3>1, PublicFacts
  <2>3. QED
    BY <2>1, <2>2, PublicFacts
<1>2. /\ LayoutOK(o) /\ o.address % ElementBytes[p.elem] = 0
      /\ Allocation(o) >= ElementCount(<<p.dims[1].ext, p.dims[2].ext>>) * ElementBytes[p.elem]
  BY DEF DescribeOK
<1>3. o.address \in Nat \ {NullPointer} /\ Allocation(o) \in Nat /\ o.address + Allocation(o) <= WordMax
  BY <1>2, ProviderMemory DEF LayoutOK, NullPointer
<1>4. d = [allocated |-> o.address, aligned |-> o.address, offset |-> 0,
           size |-> <<p.dims[1].ext, p.dims[2].ext>>,
           stride |-> <<p.dims[2].ext, 1>>, elem |-> p.elem, bytes |-> Allocation(o)]
  BY DEF Descriptor
<1>5. ElementCount(<<p.dims[1].ext, p.dims[2].ext>>) * ElementBytes[p.elem] <= Allocation(o)
  <2> DEFINE required == ElementCount(<<p.dims[1].ext, p.dims[2].ext>>) * ElementBytes[p.elem]
  <2>1. required \in Nat
    <3>1. p.dims[1].ext \in Nat /\ p.dims[2].ext \in Nat /\ ElementBytes[p.elem] \in Nat
      BY <1>1, ElementSizes, WordAssumption DEF Extent
    <3>2. ElementCount(<<p.dims[1].ext, p.dims[2].ext>>) \in Nat
      BY <3>1, ProductNatural DEF ElementCount
    <3> HIDE DEF p
    <3>3. QED
      BY <3>1, <3>2, ProductNatural
  <2>2. Allocation(o) >= required
    BY <1>2
  <2> HIDE DEF required
  <2>3. required <= Allocation(o)
    BY <1>3, <2>1, <2>2
  <2>4. QED
    BY <2>3 DEF required
<1>6. d.aligned = o.address /\ d.allocated = o.address /\ d.bytes = Allocation(o)
  BY <1>4
<1> HIDE DEF p, d
<1>7. d \in BufferRec /\ StaticBufferOK(p, d) /\ RequiredBytes(d) \in 0 .. Allocation(o)
  BY <1>1, <1>2, <1>3, <1>4, <1>5, PlainAccepted
<1>8. QED
  BY <1>6, <1>7 DEF p, d

\* The frontend's own destination is accepted, and no object reaches into it.
LEMMA DestinationAccepted ==
  ASSUME kernel \in Kernels, Prepares(kernel), abi = AbiOf(kernel), Adapts,
         kernel.destination # 0
  PROVE  LET d == PrivateDestination IN
         /\ d \in BufferRec /\ StaticBufferOK(abi.inputs[kernel.destination], d)
         /\ d.aligned = DestAddress /\ d.allocated = DestAddress
         /\ RequiredBytes(d) \in 0 .. d.bytes
         /\ \A o \in Providers : o.address + Allocation(o) <= DestAddress
                                 \/ DestAddress + d.bytes <= o.address
<1> DEFINE t == kernel.sig[kernel.destination]
           p == abi.inputs[kernel.destination]
           d == PrivateDestination
           bytes == ElementCount(<<p.dims[1].ext, p.dims[2].ext>>) * ElementBytes.f32
<1>1. OwnsDestination(kernel) /\ IsKernel(kernel)
  BY CallAssumption
<1>2. /\ p = Describe(t) /\ p \in Port /\ p.elem \in Supported
      /\ p.dims[1].ext \in Extent /\ p.dims[2].ext \in Extent
      /\ p.dims[1].ext > 0 /\ p.dims[2].ext > 0
  <2>1. /\ kernel.destination \in 1 .. Len(PortsOf(abi))
        /\ p = PortsOf(abi)[kernel.destination] /\ p = Describe(t)
    BY PublicFacts
  <2> HIDE DEF p
  <2>2. QED
    BY <2>1, PublicFacts
<1>3. t \in MemRef
  <2>1. kernel.sig \in Seq(MemRef) /\ kernel.destination \in DOMAIN kernel.sig
    BY <1>1 DEF IsKernel, OwnsDestination
  <2>2. QED
    BY <2>1, ElementOfSeq, LenProperties
<1>4. p.elem = "f32" /\ p.dims = [i \in DOMAIN t.shape |-> Constant(t.shape[i])]
  <2>1. p = [elem |-> t.elem, dims |-> [i \in DOMAIN t.shape |-> Constant(t.shape[i])]]
    BY <1>2 DEF Describe
  <2>2. t.elem = "f32"
    BY <1>1 DEF OwnsDestination
  <2> HIDE DEF p, t
  <2>3. QED
    BY <2>1, <2>2
<1>5. ElementCount(<<p.dims[1].ext, p.dims[2].ext>>) = ElementCount(t.shape)
  <2>1. {1, 2} \subseteq DOMAIN t.shape
    <3>1. Len(t.shape) = 2
      <4>1. kernel.destination \in 1 .. Len(PortsOf(abi)) /\ PortsFit(abi)
        BY PublicFacts, AbiFacts
      <4>2. Len(p.dims) = 2
        BY <4>1, PublicFacts DEF PortsFit
      <4>3. QED
        BY <1>2, <1>3, <4>2, DescribeType
    <3>2. QED
      BY <1>3, <3>1, LenProperties DEF MemRef
  <2>2. p.dims[1].ext = t.shape[1] /\ p.dims[2].ext = t.shape[2]
    BY <1>4, <2>1 DEF Constant
  <2>3. QED
    BY <2>2 DEF ElementCount
<1>6. /\ DestAddress \in Nat \ {NullPointer} /\ DestAddress % ElementBytes[p.elem] = 0
      /\ DestAddress + bytes <= WordMax
      /\ \A o \in Providers : o.address + Allocation(o) <= DestAddress
                              \/ DestAddress + bytes <= o.address
  <2>1. DestAddress % ElementBytes[p.elem] = DestAddress % ElementBytes.f32
    BY <1>4
  <2>2. bytes = ElementCount(t.shape) * ElementBytes.f32
    BY <1>5
  <2> HIDE DEF bytes, p
  <2>3. QED
    BY <1>1, <2>1, <2>2 DEF OwnsDestination
<1>7. bytes \in Nat
  <2>1. p.dims[1].ext \in Nat /\ p.dims[2].ext \in Nat /\ ElementBytes.f32 = 4
    BY <1>2, WordAssumption DEF Extent, ElementBytes
  <2>2. ElementCount(<<p.dims[1].ext, p.dims[2].ext>>) \in Nat
    BY <2>1, ProductNatural DEF ElementCount
  <2> HIDE DEF p
  <2>3. QED
    BY <2>1, <2>2, ProductNatural
<1>8. d = [allocated |-> DestAddress, aligned |-> DestAddress, offset |-> 0,
           size |-> <<p.dims[1].ext, p.dims[2].ext>>,
           stride |-> <<p.dims[2].ext, 1>>, elem |-> p.elem, bytes |-> bytes]
  <2>1. p.elem = "f32"
    BY <1>4
  <2>2. QED
    BY <2>1 DEF PrivateDestination
<1>9. d.aligned = DestAddress /\ d.allocated = DestAddress /\ d.bytes = bytes
  BY <1>8
<1>10. ElementCount(<<p.dims[1].ext, p.dims[2].ext>>) * ElementBytes[p.elem] = bytes
  <2>1. ElementBytes[p.elem] = ElementBytes.f32
    BY <1>4
  <2>2. QED
    BY <2>1
<1> HIDE DEF p, d, bytes
<1>11. ElementCount(<<p.dims[1].ext, p.dims[2].ext>>) * ElementBytes[p.elem] <= bytes
  BY <1>7, <1>10
<1>12. d \in BufferRec /\ StaticBufferOK(p, d) /\ RequiredBytes(d) \in 0 .. bytes
  BY ZenonT(30), <1>2, <1>6, <1>7, <1>8, <1>11, PlainAccepted
<1>13. QED
  BY <1>6, <1>9, <1>12 DEF p, d

\* All leases of a call are there.
AllLeased ==
  /\ kernel \in Kernels /\ Prepares(kernel) /\ abi = AbiOf(kernel) /\ Adapts
  /\ leases \in Seq(LeaseRec) /\ Len(leases) = Len(PublicPorts)
  /\ \A i \in DOMAIN leases : LeaseOf(i, leases[i])

\* The buffer of one port: a leased descriptor or the private destination.
LEMMA NativeSource ==
  ASSUME AllLeased, NEW i \in 1 .. Len(PortsOf(abi))
  PROVE  \/ /\ i = Len(abi.inputs) + 1
            /\ NativeBuffers(Descriptors)[i] = leases[Len(leases)].descriptor
            /\ PublicPorts[Len(leases)] = PortsOf(abi)[i]
         \/ /\ i \in 1 .. Len(abi.inputs) /\ i = kernel.destination
            /\ NativeBuffers(Descriptors)[i] = PrivateDestination
         \/ /\ i \in 1 .. Len(abi.inputs) /\ i # kernel.destination
            /\ \E j \in 1 .. Len(leases) - 1 :
                 /\ NativeBuffers(Descriptors)[i] = leases[j].descriptor
                 /\ PublicPorts[j] = PortsOf(abi)[i]
<1> DEFINE n == Len(abi.inputs)
           k == Len(kernel.inputMap)
<1>1. /\ n \in Nat /\ Len(PortsOf(abi)) = n + 1 /\ k \in Nat /\ DOMAIN kernel.inputMap = 1 .. k
      /\ Len(leases) = k + 1 /\ DOMAIN leases = 1 .. k + 1
  BY PublicFacts, LenProperties DEF AllLeased
<1>2. \A j \in 1 .. k + 1 : Descriptors[j] = leases[j].descriptor
  BY <1>1 DEF Descriptors
<1>3. Len(Descriptors) = k + 1
  <2>1. Descriptors \in [1 .. k + 1 -> BufferRec]
    <3>1. \A j \in 1 .. k + 1 : leases[j] \in LeaseRec
      BY <1>1, ElementOfSeq DEF AllLeased
    <3>2. QED
      BY <1>1, <3>1 DEF Descriptors, LeaseRec
  <2>2. Descriptors \in Seq(BufferRec) /\ k + 1 \in Nat
    BY <1>1, <2>1, SeqDef
  <2>3. QED
    BY <2>1, <2>2, LenProperties
<1>4. NativeBuffers(Descriptors)[i] =
        IF i > n THEN Descriptors[k + 1]
        ELSE IF i = kernel.destination THEN PrivateDestination
        ELSE Descriptors[CHOOSE j \in 1 .. k : kernel.inputMap[j] = i]
  BY <1>1, <1>3 DEF NativeBuffers
<1>5. CASE i > n
  <2>1. i = n + 1 /\ k + 1 \in 1 .. k + 1
    BY <1>1, <1>5
  <2>2. NativeBuffers(Descriptors)[i] = leases[k + 1].descriptor
    BY <1>2, <1>4, <1>5, <2>1
  <2>3. PublicPorts[k + 1] = PortsOf(abi)[n + 1]
    BY PublicFacts DEF AllLeased
  <2>4. QED
    BY <1>1, <2>1, <2>2, <2>3
<1>6. CASE i <= n /\ i = kernel.destination
  <2>1. i \in 1 .. n /\ NativeBuffers(Descriptors)[i] = PrivateDestination
    BY <1>1, <1>4, <1>6
  <2>2. QED
    BY <1>6, <2>1
<1>7. CASE i <= n /\ i # kernel.destination
  <2> DEFINE j == CHOOSE x \in 1 .. k : kernel.inputMap[x] = i
  <2>1. i \in 1 .. n /\ ~(i > n)
    BY <1>1, <1>7
  <2>2. \E x \in 1 .. k : kernel.inputMap[x] = i
    BY <1>7, <2>1, PublicFacts DEF AllLeased
  <2>3. j \in 1 .. k /\ kernel.inputMap[j] = i
    BY <2>2
  <2>4. NativeBuffers(Descriptors)[i] = Descriptors[j]
    BY <1>4, <1>7, <2>1
  <2> HIDE DEF j
  <2>5. j \in 1 .. k + 1 /\ j \in 1 .. Len(leases) - 1
    BY <1>1, <2>3
  <2>6. PublicPorts[j] = PortsOf(abi)[i]
    BY <2>3, PublicFacts DEF AllLeased
  <2>7. NativeBuffers(Descriptors)[i] = leases[j].descriptor
    BY <1>2, <2>4, <2>5
  <2>8. QED
    BY <1>7, <2>1, <2>5, <2>6, <2>7
<1>8. i \in Nat
  BY <1>1
<1>9. QED
  BY <1>1, <1>5, <1>6, <1>7, <1>8

\* What a lease is, as a descriptor.
LEMMA LeasedDescriptor ==
  ASSUME AllLeased, NEW j \in 1 .. Len(leases)
  PROVE  LET d == leases[j].descriptor IN
         /\ d \in BufferRec /\ StaticBufferOK(PublicPorts[j], d)
         /\ d.aligned = d.allocated /\ RequiredBytes(d) \in 0 .. d.bytes
         /\ \E o \in Providers : d.allocated = o.address /\ d.bytes = Allocation(o)
<1>1. LeaseOf(j, leases[j]) /\ j \in 1 .. Len(PublicPorts)
  BY LenProperties DEF AllLeased
<1>2. PICK o \in Providers :
        /\ DescribeOK(PublicPorts[j], o, j = Len(PublicPorts))
        /\ leases[j] = [descriptor |-> Descriptor(PublicPorts[j], o), memory |-> o.bytes]
  BY <1>1 DEF LeaseOf
<1>3. leases[j].descriptor = Descriptor(PublicPorts[j], o)
  BY <1>2
<1>4. LET d == Descriptor(PublicPorts[j], o) IN
      /\ d \in BufferRec /\ StaticBufferOK(PublicPorts[j], d)
      /\ d.aligned = o.address /\ d.allocated = o.address /\ d.bytes = Allocation(o)
      /\ RequiredBytes(d) \in 0 .. d.bytes
  BY <1>1, <1>2, LeaseAccepted DEF AllLeased
<1>5. QED
  BY <1>3, <1>4

\* What is marshalled is accepted by every native check.
LEMMA NativeAccepted ==
  ASSUME AllLeased
  PROVE  /\ NativeBuffers(Descriptors) \in Seq(BufferRec)
         /\ Len(NativeBuffers(Descriptors)) = Len(PortsOf(abi))
         /\ DOMAIN NativeBuffers(Descriptors) = 1 .. Len(PortsOf(abi))
         /\ \A i \in 1 .. Len(PortsOf(abi)) :
              BufferOK(PortsOf(abi)[i], NativeBuffers(Descriptors)[i])
<1> DEFINE N == NativeBuffers(Descriptors)
           P == PortsOf(abi)
<1>1. /\ abi.version = 1 /\ Len(P) \in Nat /\ kernel \in Kernels /\ Prepares(kernel)
      /\ abi = AbiOf(kernel) /\ Adapts
      /\ Len(leases) \in Nat /\ Len(leases) = Len(kernel.inputMap) + 1 /\ Len(kernel.inputMap) \in Nat
  BY PublicFacts, LenProperties DEF AllLeased
<1>2. ASSUME NEW i \in 1 .. Len(P)
      PROVE  N[i] \in BufferRec /\ StaticBufferOK(P[i], N[i])
  <2>1. CASE i = Len(abi.inputs) + 1 /\ N[i] = leases[Len(leases)].descriptor
             /\ PublicPorts[Len(leases)] = P[i]
    <3>1. Len(leases) \in 1 .. Len(leases)
      BY <1>1
    <3>2. QED
      BY <2>1, <3>1, LeasedDescriptor
  <2>2. CASE i \in 1 .. Len(abi.inputs) /\ i = kernel.destination /\ N[i] = PrivateDestination
    <3>1. kernel.destination # 0
      BY <2>2
    <3>2. P[i] = abi.inputs[kernel.destination]
      BY <1>1, <2>2, <3>1, PublicFacts
    <3>3. QED
      BY <1>1, <2>2, <3>1, <3>2, DestinationAccepted
  <2>3. ASSUME NEW j \in 1 .. Len(leases) - 1, N[i] = leases[j].descriptor, PublicPorts[j] = P[i]
        PROVE  N[i] \in BufferRec /\ StaticBufferOK(P[i], N[i])
    <3>1. j \in 1 .. Len(leases)
      BY <1>1
    <3>2. QED
      BY <2>3, <3>1, LeasedDescriptor
  <2> HIDE DEF N, P
  <2>4. QED
    BY <2>1, <2>2, <2>3, NativeSource DEF N, P
<1>3. DOMAIN N = 1 .. Len(P) /\ N \in [1 .. Len(P) -> BufferRec]
  <2>1. N = [i \in 1 .. Len(P) |-> N[i]]
    BY DEF NativeBuffers
  <2> HIDE DEF N
  <2>2. QED
    BY <1>2, <2>1
<1>4. N \in Seq(BufferRec) /\ Len(N) = Len(P)
  <2> HIDE DEF N, P
  <2>1. N \in Seq(BufferRec)
    BY <1>1, <1>3, SeqDef
  <2>2. QED
    BY <1>1, <1>3, <2>1, LenProperties
<1>5. \A i \in 1 .. Len(P) : BufferOK(P[i], N[i])
  BY <1>1, <1>2 DEF BufferOK
<1>6. QED
  BY <1>3, <1>4, <1>5

\* Ranges within allocations that do not overlap do not overlap.
LEMMA ApartInAllocations ==
  ASSUME NEW b \in BufferRec, NEW c \in BufferRec,
         b.aligned = b.allocated, c.aligned = c.allocated,
         RequiredBytes(b) \in 0 .. b.bytes, RequiredBytes(c) \in 0 .. c.bytes,
         ~AllocationsOverlap(b, c)
  PROVE  ~SpansOverlap(b, c)
<1>1. /\ b.allocated \in Nat /\ c.allocated \in Nat /\ b.bytes \in Nat /\ c.bytes \in Nat
  BY WordAssumption DEF BufferRec
<1> DEFINE r == RequiredBytes(b)
           s == RequiredBytes(c)
<1>2. r \in 0 .. b.bytes /\ s \in 0 .. c.bytes
  OBVIOUS
<1> HIDE DEF r, s
<1>3. b.allocated + b.bytes <= c.allocated \/ c.allocated + c.bytes <= b.allocated
  BY <1>1 DEF AllocationsOverlap
<1>4. ~(b.aligned < c.aligned + s /\ c.aligned < b.aligned + r)
  BY <1>1, <1>2, <1>3
<1>5. QED
  BY <1>4 DEF SpansOverlap, r, s

\* Nor does a call whose leases do not clash collide.
LEMMA NativeApart ==
  ASSUME AllLeased, NoClash
  PROVE  ~Collides(NativeBuffers(Descriptors))
<1> DEFINE N == NativeBuffers(Descriptors)
           n == Len(abi.inputs)
           out == leases[Len(leases)].descriptor
<1>1. /\ n \in Nat /\ Len(PortsOf(abi)) = n + 1 /\ kernel \in Kernels /\ Prepares(kernel)
      /\ abi = AbiOf(kernel) /\ Adapts
      /\ Len(leases) \in Nat /\ Len(leases) = Len(kernel.inputMap) + 1 /\ Len(kernel.inputMap) \in Nat
      /\ DOMAIN N = 1 .. n + 1
  BY PublicFacts, LenProperties, NativeAccepted DEF AllLeased
<1>2. N[n + 1] = out
  <2>1. n + 1 \in 1 .. Len(PortsOf(abi)) /\ ~(n + 1 \in 1 .. n)
    BY <1>1
  <2>2. QED
    BY <2>1, NativeSource
<1>3. /\ out \in BufferRec /\ out.aligned = out.allocated /\ RequiredBytes(out) \in 0 .. out.bytes
      /\ \E o \in Providers : out.allocated = o.address /\ out.bytes = Allocation(o)
  <2>1. Len(leases) \in 1 .. Len(leases)
    BY <1>1
  <2>2. QED
    BY <2>1, LeasedDescriptor
<1>4. ASSUME NEW i \in 1 .. n PROVE ~SpansOverlap(N[i], out)
  <2>1. i \in 1 .. Len(PortsOf(abi)) /\ i # n + 1
    BY <1>1
  <2>2. CASE i = kernel.destination /\ N[i] = PrivateDestination
    <3>1. /\ N[i] \in BufferRec /\ N[i].aligned = DestAddress /\ N[i].allocated = DestAddress
          /\ RequiredBytes(N[i]) \in 0 .. N[i].bytes
          /\ \A o \in Providers : o.address + Allocation(o) <= DestAddress
                                  \/ DestAddress + N[i].bytes <= o.address
      <4>1. kernel.destination # 0
        BY <2>2
      <4> HIDE DEF N
      <4>2. QED
        BY <1>1, <2>2, <4>1, DestinationAccepted
    <3> HIDE DEF N, out
    <3>2. ~AllocationsOverlap(N[i], out)
      <4>1. out.allocated + out.bytes <= N[i].allocated \/ N[i].allocated + N[i].bytes <= out.allocated
        BY <1>3, <3>1
      <4>2. N[i].allocated \in Nat /\ N[i].bytes \in Nat /\ out.allocated \in Nat /\ out.bytes \in Nat
        BY <1>3, <3>1, WordAssumption DEF BufferRec
      <4>3. QED
        BY <4>1, <4>2 DEF AllocationsOverlap
    <3>3. N[i].aligned = N[i].allocated
      BY <3>1
    <3>4. QED
      BY <1>3, <3>1, <3>2, <3>3, ApartInAllocations
  <2>3. ASSUME NEW j \in 1 .. Len(leases) - 1, N[i] = leases[j].descriptor
        PROVE  ~SpansOverlap(N[i], out)
    <3>1. j \in 1 .. Len(leases)
      BY <1>1
    <3>2. /\ leases[j].descriptor \in BufferRec
          /\ leases[j].descriptor.aligned = leases[j].descriptor.allocated
          /\ RequiredBytes(leases[j].descriptor) \in 0 .. leases[j].descriptor.bytes
      BY <3>1, LeasedDescriptor
    <3>3. ~AllocationsOverlap(leases[j].descriptor, out)
      BY DEF NoClash
    <3> HIDE DEF N, out
    <3>4. QED
      BY <1>3, <2>3, <3>2, <3>3, ApartInAllocations
  <2>4. QED
    BY <2>1, <2>2, <2>3, NativeSource
<1>5. \A i, j \in DOMAIN N : i < j /\ j > n => i \in 1 .. n /\ j = n + 1
  BY <1>1
<1> HIDE DEF N, n, out
<1>6. ~Collides(N)
  BY <1>2, <1>4, <1>5 DEF Collides, n
<1>7. QED
  BY <1>6 DEF N
-----------------------------------------------------------------------------
(* The invariant is inductive                                              *)

LEMMA CallInitial == CallInit => CallInv
<1> SUFFICES ASSUME CallInit PROVE CallInv
  OBVIOUS
<1> USE DEF CallInit
<1>1. Prepared
  BY DEF Prepared, Built, Callable
<1>2. Accepted
  BY WordAssumption DEF Accepted
<1>3. Admitted
  BY DEF Admitted
<1>4. Leased
  BY DEF Leased, Ways
<1>5. QED
  BY <1>1, <1>2, <1>3, <1>4 DEF CallInv

\* What only reads the function and its ABI is the same after a step that keeps
\* both.
LEMMA SameAbi ==
  ASSUME UNCHANGED <<kernel, abi>>
  PROVE  /\ PublicPorts' = PublicPorts /\ (Adapts' <=> Adapts) /\ (SameFunction' <=> SameFunction)
         /\ \A i, l : LeaseOf(i, l)' <=> LeaseOf(i, l)
         /\ \A p, b : BufferOK(p, b)' <=> BufferOK(p, b)
         /\ \A bs : Passed(bs)' = Passed(bs) /\ (Collides(bs)' <=> Collides(bs))
         /\ \A ds : NativeBuffers(ds)' = NativeBuffers(ds)
<1> USE DEF PublicPorts
<1>1. PublicPorts' = PublicPorts /\ (Adapts' <=> Adapts)
  BY DEF Adapts
<1>2. \A i : SignaturePort(i)' = SignaturePort(i)
  BY DEF SignaturePort
<1>3. SameFunction' <=> SameFunction
  BY <1>2 DEF SameFunction, Signature, PortsOf
<1>4. \A i, l : LeaseOf(i, l)' <=> LeaseOf(i, l)
  BY <1>1 DEF LeaseOf
<1>5. \A p, b : BufferOK(p, b)' <=> BufferOK(p, b)
  BY DEF BufferOK
<1>6. \A bs : Passed(bs)' = Passed(bs) /\ (Collides(bs)' <=> Collides(bs))
  BY <1>2 DEF Passed, Collides
<1>7. PrivateDestination' = PrivateDestination
  BY DEF PrivateDestination
<1>8. \A ds : NativeBuffers(ds)' = NativeBuffers(ds)
  BY <1>7 DEF NativeBuffers, PortsOf
<1>9. QED
  BY <1>1, <1>3, <1>4, <1>5, <1>6, <1>8

\* So are the buffers made from the same leases.
LEMMA SameNative ==
  ASSUME UNCHANGED <<kernel, abi, leases>>
  PROVE  /\ Descriptors' = Descriptors /\ (NoClash' <=> NoClash)
         /\ NativeBuffers(Descriptors)' = NativeBuffers(Descriptors)
<1>1. Descriptors' = Descriptors /\ (NoClash' <=> NoClash)
  BY DEF Descriptors, NoClash
<1>2. PrivateDestination' = PrivateDestination
  BY DEF PrivateDestination
<1>3. NativeBuffers(Descriptors)' = NativeBuffers(Descriptors)
  BY <1>1, <1>2 DEF NativeBuffers, PortsOf
<1>4. QED
  BY <1>1, <1>3

\* Prepared survives whatever keeps the function and its ABI once it can be called.
LEMMA PreparedKept ==
  ASSUME Prepared, UNCHANGED <<kernel, abi>>, Callable, callPc' \notin {"prepare", "failed", "create"}
  PROVE  Prepared' /\ kernel \in Kernels /\ Prepares(kernel) /\ abi = AbiOf(kernel) /\ PortsFit(abi)
<1>1. kernel \in Kernels /\ abi = AbiOf(kernel) /\ Prepares(kernel) /\ SameFunction
  BY DEF Prepared, Callable, Built
<1>2. PortsFit(abi)
  BY <1>1, AbiFacts
<1>3. SameFunction'
  BY <1>1, SameAbi
<1>4. Prepared'
  BY <1>1, <1>3 DEF Prepared, Callable, Built
<1>5. QED
  BY <1>1, <1>2, <1>4

\* Preparation and creation.
LEMMA CreationKeeps ==
  ASSUME CallInv, PrepareKernel \/ Create \/ CreateFails
  PROVE  CallInv'
<1>1. callPc \in {"prepare", "create"} /\ callPc' \in {"create", "failed", "idle"}
  BY DEF PrepareKernel, Create, CreateFails
<1>2. UNCHANGED <<kernel, mode, leases, bufs, why, values, args>>
  BY DEF PrepareKernel, Create, CreateFails
<1>3. Prepared'
  <2>1. CASE PrepareKernel
    <3>1. Prepares(kernel)' <=> Prepares(kernel)
      BY <1>2
    <3>2. QED
      BY <1>2, <2>1 DEF CallInv, PrepareKernel, Prepared, Callable, Built
  <2>2. CASE Create
    <3>1. UNCHANGED <<kernel, abi>> /\ SameFunction
      BY <2>2 DEF Create
    <3>2. SameFunction'
      BY <3>1, SameAbi
    <3>3. QED
      BY <2>2, <3>1, <3>2 DEF CallInv, Create, Prepared, Callable, Built
  <2>3. CASE CreateFails
    BY <2>3 DEF CallInv, CreateFails, Prepared, Callable, Built
  <2>4. QED
    BY <2>1, <2>2, <2>3
<1>4. Accepted'
  BY <1>1, <1>2 DEF CallInv, Accepted
<1>5. Admitted'
  BY <1>1, <1>2 DEF CallInv, Admitted
<1>6. Leased'
  BY <1>1, <1>2 DEF CallInv, Leased
<1>7. QED
  BY <1>3, <1>4, <1>5, <1>6 DEF CallInv

\* A call begins, or returns.
LEMMA EntryKeeps ==
  ASSUME CallInv, CallPython \/ ReturnCall
                  \/ \E m \in {"typed", "legacy"}, n \in {0, Len(PortsOf(abi))} : CallNative(m, n)
  PROVE  CallInv'
<1>1. /\ callPc \in {"idle", "refused", "running"} /\ callPc' \in {"lease", "idle", "check", "refused"}
      /\ UNCHANGED <<kernel, abi>> /\ leases' = <<>> /\ bufs' = <<>>
  BY DEF CallPython, ReturnCall, CallNative
<1>2. Callable
  BY <1>1 DEF Callable, Built
<1>3. Prepared' /\ kernel \in Kernels /\ Prepares(kernel) /\ abi = AbiOf(kernel) /\ PortsFit(abi)
  BY <1>1, <1>2, PreparedKept DEF CallInv
<1>4. Len(PortsOf(abi)) \in Nat /\ PortsOf(abi)' = PortsOf(abi)
  BY <1>1, <1>3, LenProperties DEF PortsFit
<1>5. Admitted'
  <2>1. args' = <<>> /\ values' = <<>>
    BY DEF CallInv, Admitted, CallPython, ReturnCall, CallNative
  <2>2. QED
    BY <1>1, <2>1 DEF Admitted
<1>6. CASE CallPython
  <2>1. callPc' = "lease" /\ mode' = "python" /\ why' = "none" /\ Adapts
    BY <1>6 DEF CallPython
  <2>2. Accepted'
    BY <1>1, <2>1, WordAssumption DEF Accepted
  <2>3. Adapts' /\ Len(leases') <= Len(PublicPorts')
    BY <1>1, <1>3, <2>1, SameAbi, PublicFacts
  <2>4. Leased'
    BY <1>1, <2>1, <2>3 DEF Leased, Ways
  <2>5. QED
    BY <1>3, <1>5, <2>2, <2>4 DEF CallInv
<1>7. CASE ReturnCall
  <2>1. callPc' = "idle" /\ mode' = "none" /\ UNCHANGED why
    BY <1>7 DEF ReturnCall
  <2>2. Accepted'
    BY <1>1, <2>1, WordAssumption DEF Accepted
  <2>3. Leased'
    BY <1>1, <2>1 DEF Leased, CallInv
  <2>4. QED
    BY <1>3, <1>5, <2>2, <2>3 DEF CallInv
<1>8. ASSUME NEW m \in {"typed", "legacy"}, NEW n \in {0, Len(PortsOf(abi))}, CallNative(m, n)
      PROVE  CallInv'
  <2>1. mode' = m /\ callPc' \in {"check", "refused"} /\ why' \in {"none", "arity"}
    BY <1>8 DEF CallNative
  <2>2. callPc' = "check" => m # "legacy" \/ abi.version # 2
    BY <1>8 DEF CallNative
  <2>3. Accepted'
    <3>1. abi.version = 1 \/ abi.version = 2
      BY <1>3, AbiFacts
    <3>2. QED
      BY <1>1, <1>4, <2>1, <2>2, <3>1, WordAssumption DEF Accepted
  <2>4. Leased'
    BY <1>1, <2>1 DEF Leased, Ways
  <2>5. QED
    BY <1>3, <1>5, <2>3, <2>4 DEF CallInv
<1>9. QED
  BY <1>6, <1>7, <1>8

\* A native descriptor is checked.
LEMMA CheckKeeps ==
  ASSUME CallInv, NEW b \in Buffers, Check(b)
  PROVE  CallInv'
<1> DEFINE p == PortsOf(abi)[Len(bufs) + 1]
           given == IF mode = "legacy"
                    THEN [b EXCEPT !.elem = p.elem, !.bytes = 0, !.allocated = b.aligned]
                    ELSE b
           ok == IF mode = "legacy" THEN LegacyOK(p, b) ELSE BufferOK(p, b)
<1>1. /\ callPc = "check" /\ mode \in {"typed", "legacy"} /\ Len(bufs) < Len(PortsOf(abi))
      /\ UNCHANGED <<kernel, abi, mode, leases, values, args>>
      /\ \/ ok /\ bufs' = Append(bufs, given) /\ UNCHANGED <<callPc, why>>
         \/ callPc' = "refused" /\ why' = "buffer" /\ bufs' = <<>>
  BY DEF Check
<1>2. Callable /\ callPc' \in {"check", "refused"}
  BY <1>1 DEF Callable, Built
<1>3. Prepared' /\ kernel \in Kernels /\ Prepares(kernel) /\ abi = AbiOf(kernel) /\ PortsFit(abi)
  BY <1>1, <1>2, PreparedKept DEF CallInv
<1>4. Admitted'
  BY <1>1, <1>2 DEF CallInv, Admitted
<1>5. Leased'
  BY <1>1, <1>2 DEF CallInv, Leased, Ways
<1>6. /\ bufs \in Seq(BufferRec) /\ Len(bufs) \in Nat /\ DOMAIN bufs = 1 .. Len(bufs)
      /\ \A i \in DOMAIN bufs : Taken(i, bufs[i])
      /\ mode = "legacy" => abi.version = 1
  BY <1>1, LenProperties DEF CallInv, Accepted
<1>7. Len(PortsOf(abi)) \in Nat /\ Len(PortsOf(abi)) <= MaxDescriptors /\ PortsOf(abi)' = PortsOf(abi)
  BY <1>1, <1>3, LenProperties DEF PortsFit
<1>8. \A i, c : Taken(i, c)' <=> Taken(i, c)
  <2>1. \A q, c : BufferOK(q, c)' <=> BufferOK(q, c)
    BY <1>1, SameAbi
  <2>2. QED
    BY <1>1, <1>7, <2>1 DEF Taken
<1>9. CASE ok /\ bufs' = Append(bufs, given) /\ UNCHANGED <<callPc, why>>
  <2>1. b \in BufferRec
    BY CallAssumption DEF IsBuffer, BufferRec
  <2>2. Len(bufs) + 1 \in 1 .. Len(PortsOf(abi))
    BY <1>1, <1>6, <1>7
  <2>3. p.elem \in STRING
    <3>1. p \in Port
      BY <1>3, <2>2, ElementOfSeq DEF PortsFit
    <3>2. QED
      BY <3>1 DEF Port
  <2> HIDE DEF p
  <2>4. given \in BufferRec
    <3>1. CASE mode = "legacy"
      <4> DEFINE e == p.elem
      <4>1. given = [b EXCEPT !.elem = e, !.bytes = 0, !.allocated = b.aligned]
        BY <3>1
      <4>2. e \in STRING /\ 0 \in 0 .. WordMax /\ b.aligned \in 0 .. WordMax
        BY <2>1, <2>3, WordAssumption DEF BufferRec
      <4> HIDE DEF e, given
      <4>3. QED
        BY <2>1, <4>1, <4>2 DEF BufferRec
    <3>2. CASE mode # "legacy"
      BY <2>1, <3>2
    <3>3. QED
      BY <3>1, <3>2
  <2>5. Taken(Len(bufs) + 1, given)
    <3>1. CASE mode = "legacy"
      <4>1. LegacyOK(p, b)
        BY <1>9, <3>1
      <4>2. /\ given.aligned = b.aligned /\ given.offset = b.offset /\ given.size = b.size
            /\ given.stride = b.stride
        BY <2>1, <3>1 DEF BufferRec
      <4> HIDE DEF given
      <4>3. LegacyOK(p, given)
        BY <4>1, <4>2 DEF LegacyOK, Compact
      <4>4. QED
        BY <2>4, <3>1, <4>3 DEF Taken, p
    <3>2. CASE mode # "legacy"
      <4>1. BufferOK(p, b) /\ given = b
        BY <1>9, <3>2
      <4>2. QED
        BY <2>4, <3>2, <4>1 DEF Taken, p
    <3>3. QED
      BY <3>1, <3>2
  <2> HIDE DEF given, ok
  <2>6. /\ bufs' \in Seq(BufferRec) /\ Len(bufs') = Len(bufs) + 1
        /\ \A i \in 1 .. Len(bufs) : bufs'[i] = bufs[i]
        /\ bufs'[Len(bufs) + 1] = given
    BY <1>6, <1>9, <2>4, AppendProperties
  <2>7. \A i \in DOMAIN bufs' : Taken(i, bufs'[i])
    <3>1. DOMAIN bufs' = 1 .. Len(bufs) + 1
      BY <2>6, LenProperties
    <3>2. TAKE i \in DOMAIN bufs'
    <3>3. CASE i = Len(bufs) + 1
      BY <2>5, <2>6, <3>3
    <3>4. CASE i \in 1 .. Len(bufs)
      BY <1>6, <2>6, <3>4
    <3>5. QED
      BY <1>6, <3>1, <3>3, <3>4
  <2>8. Len(bufs') <= Len(PortsOf(abi)) /\ Len(bufs') <= MaxDescriptors
    BY <1>6, <1>7, <2>2, <2>6, WordAssumption
  <2>9. Accepted'
    BY <1>1, <1>6, <1>7, <1>8, <2>6, <2>7, <2>8 DEF Accepted
  <2>10. QED
    BY <1>3, <1>4, <1>5, <2>9 DEF CallInv
<1>10. CASE callPc' = "refused" /\ why' = "buffer" /\ bufs' = <<>>
  <2>1. Accepted'
    BY <1>10, WordAssumption DEF Accepted
  <2>2. QED
    BY <1>3, <1>4, <1>5, <2>1 DEF CallInv
<1>11. QED
  BY <1>1, <1>9, <1>10

\* All descriptors are there, and the call is admitted or refused.
LEMMA AdmitKeeps ==
  ASSUME CallInv, AdmitCall
  PROVE  CallInv'
<1>1. /\ callPc = "check" /\ Len(bufs) = Len(PortsOf(abi))
      /\ callPc' \in {"refused", "running"} /\ why' \in {"overlap", "shape", "none"}
      /\ UNCHANGED <<kernel, abi, mode, leases, bufs>>
      /\ why' = "overlap" => Collides(bufs)
  BY DEF AdmitCall
<1>2. Callable
  BY <1>1 DEF Callable, Built
<1>3. Prepared' /\ kernel \in Kernels /\ Prepares(kernel) /\ abi = AbiOf(kernel) /\ PortsFit(abi)
  BY <1>1, <1>2, PreparedKept DEF CallInv
<1>4. Accepted'
  <2>1. \A q, c : BufferOK(q, c)' <=> BufferOK(q, c)
    BY <1>1, SameAbi
  <2>2. PortsOf(abi)' = PortsOf(abi)
    BY <1>1
  <2>3. \A i, c : Taken(i, c)' <=> Taken(i, c)
    BY <1>1, <2>1, <2>2 DEF Taken
  <2>4. QED
    BY <1>1, <2>2, <2>3 DEF CallInv, Accepted
<1>5. Admitted'
  <2>1. CASE callPc' = "refused"
    <3>1. UNCHANGED <<values, args>>
      BY <2>1 DEF AdmitCall
    <3>2. QED
      BY <1>1, <2>1, <3>1 DEF CallInv, Admitted
  <2>2. CASE callPc' = "running"
    <3>1. /\ mode # "legacy" => ~Collides(bufs)
          /\ mode # "legacy" /\ abi.version = 2 => BindsShape(PortsOf(abi), abi.symbols, Extents(bufs))
          /\ values' = [s \in DOMAIN abi.symbols |->
                          CHOOSE v \in ExtentsOf(PortsOf(abi), Extents(bufs), s) : TRUE]
          /\ args' = Passed(bufs)
      BY <2>2 DEF AdmitCall
    <3>2. mode = "legacy" => abi.version = 1
      BY <1>1 DEF CallInv, Accepted
    <3>3. Passed(bufs)' = Passed(bufs) /\ (Collides(bufs)' <=> Collides(bufs))
      <4>1. \A bs : Passed(bs)' = Passed(bs) /\ (Collides(bs)' <=> Collides(bs))
        BY <1>1, SameAbi
      <4>2. QED
        BY <1>1, <4>1 DEF Passed, Collides
    <3>4. /\ PortsOf(abi)' = PortsOf(abi) /\ Extents(bufs)' = Extents(bufs)
          /\ abi' = abi /\ mode' = mode /\ bufs' = bufs
      BY <1>1
    <3>5. abi.version = 2 => BindsShape(PortsOf(abi), abi.symbols, Extents(bufs))
      BY <3>1, <3>2
    <3>6. Len(bufs)' = Len(PortsOf(abi))' /\ args' = Passed(bufs)'
      BY <1>1, <3>1, <3>3
    <3>7. mode' # "legacy" => ~(Collides(bufs)')
      BY <3>1, <3>3, <3>4
    <3>8. abi'.version = 2 => BindsShape(PortsOf(abi), abi.symbols, Extents(bufs))'
      BY <3>4, <3>5
    <3>9. values' = [s \in DOMAIN abi.symbols |->
                       CHOOSE v \in ExtentsOf(PortsOf(abi), Extents(bufs), s) : TRUE]'
      BY <3>1, <3>4
    <3>10. QED
      BY <2>2, <3>6, <3>7, <3>8, <3>9 DEF Admitted
  <2>3. QED
    BY <1>1, <2>1, <2>2
<1>6. Leased'
  <2>1. ASSUME mode = "python"
        PROVE  /\ AllLeased /\ NoClash /\ bufs = NativeBuffers(Descriptors)
               /\ why' # "overlap" /\ Len(leases) <= Len(PublicPorts)
    <3>1. AllLeased /\ NoClash /\ bufs = NativeBuffers(Descriptors)
      BY <1>1, <1>3, <2>1 DEF CallInv, Leased, AllLeased
    <3>2. ~Collides(bufs)
      BY <3>1, NativeApart
    <3>3. Len(leases) <= Len(PublicPorts)
      BY <1>1, <2>1 DEF CallInv, Leased
    <3>4. QED
      BY <1>1, <3>1, <3>2, <3>3
  <2>2. /\ PublicPorts' = PublicPorts /\ (Adapts' <=> Adapts)
        /\ \A i, l : LeaseOf(i, l)' <=> LeaseOf(i, l)
        /\ Descriptors' = Descriptors /\ (NoClash' <=> NoClash)
        /\ NativeBuffers(Descriptors)' = NativeBuffers(Descriptors)
    <3>1. PublicPorts' = PublicPorts /\ (Adapts' <=> Adapts) /\ \A i, l : LeaseOf(i, l)' <=> LeaseOf(i, l)
      BY <1>1, SameAbi
    <3>2. QED
      BY <1>1, <3>1, SameNative
  <2>3. /\ leases' \in Seq(LeaseRec) /\ why' \in Ways \ {"native"}
        /\ mode' \in {"none", "typed", "legacy", "python"} /\ (mode' = "python" => why' # "overlap")
    BY <1>1, <2>1 DEF CallInv, Leased, Ways
  <2>4. mode' = "python" => /\ Adapts' /\ Len(leases') <= Len(PublicPorts')
                            /\ (\A i \in DOMAIN leases : LeaseOf(i, leases[i]))'
                            /\ Len(leases') = Len(PublicPorts') /\ NoClash'
                            /\ bufs' = NativeBuffers(Descriptors)'
    BY <1>1, <2>1, <2>2 DEF AllLeased
  <2>5. QED
    BY <1>1, <2>3, <2>4 DEF Leased
<1>7. QED
  BY <1>3, <1>4, <1>5, <1>6 DEF CallInv

\* An object of the caller is described.
LEMMA LeaseKeeps ==
  ASSUME CallInv, NEW o \in Providers, Lease(o)
  PROVE  CallInv'
<1> DEFINE n == Len(leases) + 1
           lease == [descriptor |-> Descriptor(PublicPorts[n], o), memory |-> o.bytes]
<1>1. /\ callPc = "lease" /\ n <= Len(PublicPorts)
      /\ UNCHANGED <<kernel, abi, mode, bufs, values, args>>
      /\ \/ /\ DescribeOK(PublicPorts[n], o, n = Len(PublicPorts))
            /\ leases' = Append(leases, lease) /\ UNCHANGED <<callPc, why>>
         \/ callPc' = "refused" /\ why' = "buffer" /\ leases' = <<>>
  BY DEF Lease
<1>2. Callable /\ callPc' \in {"lease", "refused"}
  BY <1>1 DEF Callable, Built
<1>3. Prepared' /\ kernel \in Kernels /\ Prepares(kernel) /\ abi = AbiOf(kernel) /\ PortsFit(abi)
  BY <1>1, <1>2, PreparedKept DEF CallInv
<1>4. Accepted'
  BY <1>1, <1>2 DEF CallInv, Accepted
<1>5. Admitted'
  BY <1>1, <1>2 DEF CallInv, Admitted
<1>6. /\ mode = "python" /\ Adapts /\ leases \in Seq(LeaseRec) /\ why \in Ways \ {"native"}
      /\ why # "overlap" /\ \A i \in DOMAIN leases : LeaseOf(i, leases[i])
      /\ Len(leases) \in Nat /\ DOMAIN leases = 1 .. Len(leases)
  BY <1>1, LenProperties DEF CallInv, Leased
<1>7. /\ PublicPorts' = PublicPorts /\ (Adapts' <=> Adapts)
      /\ \A i, l : LeaseOf(i, l)' <=> LeaseOf(i, l)
  BY <1>1, SameAbi
<1>8. CASE /\ DescribeOK(PublicPorts[n], o, n = Len(PublicPorts))
           /\ leases' = Append(leases, lease) /\ UNCHANGED <<callPc, why>>
  <2>1. Len(PublicPorts) \in Nat
    BY <1>3, <1>6, PublicFacts
  <2>2. n \in 1 .. Len(PublicPorts)
    BY <1>1, <1>6, <2>1
  <2>3. LeaseOf(n, lease)
    BY <1>8 DEF LeaseOf
  <2>4. lease \in LeaseRec
    <3>1. Descriptor(PublicPorts[n], o) \in BufferRec
      <4> HIDE DEF n
      <4>1. QED
        BY <1>3, <1>6, <1>8, <2>2, LeaseAccepted
    <3>2. o.bytes \in Nat
      BY ProviderMemory
    <3>3. QED
      BY <3>1, <3>2 DEF LeaseRec
  <2> HIDE DEF lease
  <2>5. /\ leases' \in Seq(LeaseRec) /\ Len(leases') = n
        /\ \A i \in 1 .. Len(leases) : leases'[i] = leases[i]
        /\ leases'[n] = lease
    BY <1>6, <1>8, <2>4, AppendProperties
  <2>6. DOMAIN leases' = 1 .. n
    BY <2>5, LenProperties
  <2>7. ASSUME NEW i \in DOMAIN leases' PROVE LeaseOf(i, leases'[i])
    <3>1. CASE i = n
      BY <2>3, <2>5, <3>1
    <3>2. CASE i \in 1 .. Len(leases)
      BY <1>6, <2>5, <3>2
    <3>3. QED
      BY <1>6, <2>6, <3>1, <3>2
  <2>8. (\A i \in DOMAIN leases : LeaseOf(i, leases[i]))'
    BY <1>7, <2>7
  <2>9. Leased'
    BY <1>1, <1>6, <1>7, <1>8, <2>2, <2>5, <2>8 DEF Leased
  <2>10. QED
    BY <1>3, <1>4, <1>5, <2>9 DEF CallInv
<1>9. CASE callPc' = "refused" /\ why' = "buffer" /\ leases' = <<>>
  <2>1. Leased'
    BY <1>1, <1>6, <1>9 DEF Leased, Ways
  <2>2. QED
    BY <1>3, <1>4, <1>5, <2>1 DEF CallInv
<1>10. QED
  BY <1>1, <1>8, <1>9

\* All leases are there, and the call goes on to the native side.
LEMMA MarshalKeeps ==
  ASSUME CallInv, Marshal
  PROVE  CallInv'
<1> DEFINE n == Len(leases)
           native == NativeBuffers(Descriptors)
<1>1. /\ callPc = "lease" /\ Len(Descriptors) = Len(PublicPorts)
      /\ UNCHANGED <<kernel, abi, mode, leases, values, args>>
  BY DEF Marshal, Descriptors
<1>2. Callable /\ callPc' \in {"check", "refused"}
  BY <1>1 DEF Callable, Built, Marshal
<1>3. Prepared' /\ kernel \in Kernels /\ Prepares(kernel) /\ abi = AbiOf(kernel) /\ PortsFit(abi)
  BY <1>1, <1>2, PreparedKept DEF CallInv
<1>4. Admitted'
  BY <1>1, <1>2 DEF CallInv, Admitted
<1>5. /\ mode = "python" /\ Adapts /\ leases \in Seq(LeaseRec) /\ why \in Ways \ {"native"}
      /\ why # "overlap" /\ \A i \in DOMAIN leases : LeaseOf(i, leases[i])
      /\ n \in Nat /\ DOMAIN leases = 1 .. n /\ Len(leases) <= Len(PublicPorts)
  BY <1>1, LenProperties DEF CallInv, Leased
<1>6. Len(Descriptors) = n /\ \A i \in 1 .. n : Descriptors[i] = leases[i].descriptor
  <2>1. \A i \in 1 .. n : leases[i] \in LeaseRec
    BY <1>5, ElementOfSeq
  <2>2. Descriptors \in [1 .. n -> BufferRec]
    BY <1>5, <2>1 DEF Descriptors, LeaseRec
  <2>3. Descriptors \in Seq(BufferRec)
    BY <1>5, <2>2, SeqDef
  <2>4. QED
    BY <1>5, <2>2, <2>3, LenProperties DEF Descriptors
<1>7. AllLeased
  BY <1>1, <1>3, <1>5, <1>6 DEF AllLeased
<1>8. /\ native \in Seq(BufferRec) /\ Len(native) = Len(PortsOf(abi))
      /\ DOMAIN native = 1 .. Len(PortsOf(abi))
      /\ \A i \in 1 .. Len(PortsOf(abi)) : BufferOK(PortsOf(abi)[i], native[i])
  BY <1>7, NativeAccepted
<1>9. \/ callPc' = "refused" /\ why' = "clash" /\ UNCHANGED bufs
      \/ callPc' = "check" /\ bufs' = native /\ UNCHANGED why /\ NoClash
  <2> DEFINE ds == [i \in DOMAIN leases |-> leases[i].descriptor]
             clash == \E i \in 1 .. Len(ds) - 1 : AllocationsOverlap(ds[i], ds[Len(ds)])
             ok == \A i \in DOMAIN NativeBuffers(ds) :
                     BufferOK(PortsOf(abi)[i], NativeBuffers(ds)[i])
  <2>1. ds = Descriptors
    BY DEF Descriptors
  <2>2. ok
    BY <1>8, <2>1
  <2>3. ~clash => NoClash
    <3>1. ASSUME ~clash, NEW i \in 1 .. n - 1
          PROVE  ~AllocationsOverlap(leases[i].descriptor, leases[n].descriptor)
      <4>1. i \in 1 .. n /\ n \in 1 .. n
        BY <1>5
      <4>2. ds[i] = leases[i].descriptor /\ ds[n] = leases[n].descriptor /\ Len(ds) = n
        BY <1>6, <2>1, <4>1
      <4> HIDE DEF ds
      <4>3. QED
        BY <3>1, <4>2
    <3>2. QED
      BY <3>1 DEF NoClash
  <2>4. \/ clash /\ callPc' = "refused" /\ why' = "clash" /\ UNCHANGED bufs
        \/ ~clash /\ ok /\ callPc' = "check" /\ bufs' = NativeBuffers(ds) /\ UNCHANGED why
        \/ ~clash /\ ~ok
    BY DEF Marshal
  <2> HIDE DEF clash, ok, ds
  <2>5. QED
    BY <2>1, <2>2, <2>3, <2>4
<1>10. CASE callPc' = "refused" /\ why' = "clash" /\ UNCHANGED bufs
  <2>1. Accepted'
    BY <1>10 DEF CallInv, Accepted
  <2>2. Leased'
    BY <1>1, <1>5, <1>10 DEF Leased, Ways
  <2>3. QED
    BY <1>3, <1>4, <2>1, <2>2 DEF CallInv
<1>11. CASE callPc' = "check" /\ bufs' = native /\ UNCHANGED why /\ NoClash
  <2>1. /\ PublicPorts' = PublicPorts /\ (Adapts' <=> Adapts)
        /\ \A i, l : LeaseOf(i, l)' <=> LeaseOf(i, l)
        /\ \A p, b : BufferOK(p, b)' <=> BufferOK(p, b)
        /\ PortsOf(abi)' = PortsOf(abi)
    BY <1>1, SameAbi
  <2>2. Accepted'
    <3>1. \A i \in 1 .. Len(PortsOf(abi)) : native[i] \in BufferRec
      BY <1>8, ElementOfSeq
    <3> HIDE DEF native
    <3>2. \A i \in DOMAIN native : Taken(i, native[i])
      BY <1>5, <1>8, <3>1 DEF Taken, native
    <3>3. \A i, c : Taken(i, c)' <=> Taken(i, c)
      BY <1>1, <2>1 DEF Taken
    <3>4. Len(PortsOf(abi)) \in Nat /\ Len(PortsOf(abi)) <= MaxDescriptors
      BY <1>3, LenProperties DEF PortsFit
    <3>5. (\A i \in DOMAIN bufs : Taken(i, bufs[i]))'
      BY <1>11, <3>2, <3>3
    <3>6. QED
      BY <1>1, <1>5, <1>8, <1>11, <2>1, <3>4, <3>5 DEF Accepted
  <2>3. Leased'
    <3>1. Descriptors' = Descriptors /\ (NoClash' <=> NoClash)
      BY <1>1, SameNative
    <3>2. NativeBuffers(Descriptors)' = NativeBuffers(Descriptors)
      BY <1>1, SameNative
    <3>3. (\A i \in DOMAIN leases : LeaseOf(i, leases[i]))'
      BY <1>1, <1>5, <2>1
    <3> HIDE DEF native
    <3>4. bufs' = NativeBuffers(Descriptors)' /\ Len(leases)' = Len(PublicPorts)'
      BY <1>1, <1>6, <1>11, <2>1, <3>2 DEF native
    <3>5. QED
      BY <1>1, <1>5, <1>11, <2>1, <3>1, <3>3, <3>4 DEF Leased
  <2>4. QED
    BY <1>3, <1>4, <2>2, <2>3 DEF CallInv
<1>12. QED
  BY <1>9, <1>10, <1>11

LEMMA CallStutters == CallInv /\ UNCHANGED invocationVars => CallInv'
<1> SUFFICES ASSUME CallInv, UNCHANGED invocationVars PROVE CallInv'
  OBVIOUS
<1>1. UNCHANGED <<kernel, callPc, abi, mode, leases, bufs, why, values, args>>
  BY DEF invocationVars
<1>2. /\ PublicPorts' = PublicPorts /\ (Adapts' <=> Adapts) /\ (SameFunction' <=> SameFunction)
      /\ \A i, l : LeaseOf(i, l)' <=> LeaseOf(i, l)
      /\ \A p, b : BufferOK(p, b)' <=> BufferOK(p, b)
      /\ \A bs : Passed(bs)' = Passed(bs) /\ (Collides(bs)' <=> Collides(bs))
      /\ \A ds : NativeBuffers(ds)' = NativeBuffers(ds)
  BY <1>1, SameAbi
<1>3. Prepared'
  BY <1>1, <1>2 DEF CallInv, Prepared, Callable, Built
<1>4. Accepted'
  <2>1. \A i, b : Taken(i, b)' <=> Taken(i, b)
    BY <1>1, <1>2 DEF Taken, PortsOf
  <2>2. QED
    BY <1>1, <2>1 DEF CallInv, Accepted, PortsOf
<1>5. Admitted'
  <2>1. Passed(bufs)' = Passed(bufs) /\ (Collides(bufs)' <=> Collides(bufs))
    BY <1>1, <1>2 DEF Passed, Collides
  <2>2. PortsOf(abi)' = PortsOf(abi) /\ Extents(bufs)' = Extents(bufs)
    BY <1>1
  <2>3. QED
    BY <1>1, <2>1, <2>2 DEF CallInv, Admitted
<1>6. Leased'
  <2>1. /\ Descriptors' = Descriptors /\ (NoClash' <=> NoClash)
        /\ NativeBuffers(Descriptors)' = NativeBuffers(Descriptors)
    BY <1>1, SameNative
  <2>2. QED
    BY <1>1, <1>2, <2>1 DEF CallInv, Leased
<1>7. QED
  BY <1>3, <1>4, <1>5, <1>6 DEF CallInv
-----------------------------------------------------------------------------
(* The theorems                                                            *)

\* What the checks of every entry leave true between two steps, in particular
\* that each running call holds one accepted descriptor per port
\* (prepareMappedKernelForInvocation, createMappedExecutable, the three entries).
THEOREM CallInvariant == CallSpec => []CallInv
<1>1. CallInv /\ [CallNext]_invocationVars => CallInv'
  <2> SUFFICES ASSUME CallInv, [CallNext]_invocationVars PROVE CallInv'
    OBVIOUS
  <2>1. CASE PrepareKernel \/ Create \/ CreateFails
    BY <2>1, CreationKeeps
  <2>2. CASE CallPython \/ ReturnCall
             \/ \E m \in {"typed", "legacy"}, n \in {0, Len(PortsOf(abi))} : CallNative(m, n)
    BY <2>2, EntryKeeps
  <2>3. ASSUME NEW b \in Buffers, Check(b) PROVE CallInv'
    BY <2>3, CheckKeeps
  <2>4. CASE AdmitCall
    BY <2>4, AdmitKeeps
  <2>5. ASSUME NEW o \in Providers, Lease(o) PROVE CallInv'
    BY <2>5, LeaseKeeps
  <2>6. CASE Marshal
    BY <2>6, MarshalKeeps
  <2>7. CASE UNCHANGED invocationVars
    BY <2>7, CallStutters
  <2>8. QED
    BY <2>1, <2>2, <2>3, <2>4, <2>5, <2>6, <2>7 DEF CallNext, Proceed
<1>2. QED
  BY <1>1, CallInitial, PTL DEF CallSpec

\* The layers agree on a call: what Python prepared the native checks accept, the
\* values bound are admitted ones, and the variant they select is one whose guards
\* the declared domain allows (prepare_invocation, bindShapeValues,
\* DynamicVariantSet::select against classifyPredicate).
THEOREM CallIsSound == CallSpec => []CallSound
<1>1. CallInv => CallSound
  BY TypesHold, SampleHolds, PreparedHolds, DispatchHolds DEF CallSound
<1>2. QED
  BY <1>1, CallInvariant, PTL

\* A call that enters the code touches only memory the caller offered for that
\* argument, writes nothing another argument reads or writes, and finds every
\* argument where the compiled code looks for it (validateMappedInvocation).
THEOREM MemoryIsSound == CallSpec => []MemorySound
<1>1. CallInv => MemorySound
  BY OfferedHolds, WritesHold, AddressedHolds DEF MemorySound
<1>2. QED
  BY <1>1, CallInvariant, PTL
=============================================================================
