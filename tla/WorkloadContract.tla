-------------------------- MODULE WorkloadContract --------------------------
(***************************************************************************)
(* The workload contract: the ordered ports, axes and symbols a kernel     *)
(* promises, how one is validated, its canonical text, and the attribute   *)
(* a kernel keeps it in (Conversion/Workload/WorkloadContract.cpp).        *)
(*                                                                         *)
(* A dimension is <<"constant", n>> or <<"symbol", s>>.  The canonical     *)
(* text frames every field with its length, so it is modelled by the tuple *)
(* of the fields it writes.  An attribute is a function from the keys it   *)
(* has; a key of another type than the reader asks for reads as absent.    *)
(***************************************************************************)
EXTENDS Integers, Sequences, FiniteSets, SequencesExt

CONSTANTS
    MaxInt,         \* the largest int64_t
    VersionModulus  \* the number of uint32_t values: a version is read modulo it

ASSUME WidthsAssumption ==
    /\ MaxInt \in Nat \ {0}
    /\ VersionModulus \in Nat /\ VersionModulus > 2

SupportedVersion == 2
DynamicExtent == -MaxInt - 1   \* ShapedType::kDynamic, the smallest int64_t
KnownDtypes == {"f16", "bf16", "f32", "f64", "i8", "i16", "i32", "i64", "index"}
Directions == {"input", "output"}
Effects == {"none", "read", "write", "read_write"}

IsSymbol(d) == d[1] = "symbol"
SymbolsOf(dims) == {d[2] : d \in {e \in dims : IsSymbol(e)}}
PortDims(c) == UNION {Range(c.ports[i].shape) : i \in DOMAIN c.ports}
AxisDims(c) == {c.axes[a] : a \in DOMAIN c.axes}

\* A multiple of the divisor lies in the range, without leaving int64_t.
HasMultipleInRange(min, max, divisor) ==
    /\ divisor > 0
    /\ \/ min % divisor = 0
       \/ LET delta == divisor - (min % divisor)
          IN  min <= MaxInt - delta /\ \A m \in Range(max) : min + delta <= m

\* What a constant extent of a port must be; version 1 refuses an empty one.
PortExtentValid(c, d) ==
    IF IsSymbol(d) THEN c.version # 1 /\ d[2] # ""
    ELSE d[2] # DynamicExtent /\ d[2] >= (IF c.version = 1 THEN 1 ELSE 0)
\* An axis of version 1 may hold any constant.
AxisExtentValid(c, d) ==
    IF IsSymbol(d) THEN c.version # 1 /\ d[2] # "" ELSE c.version = 1 \/ d[2] >= 0

SymbolValid(c, s) ==
    LET bound == c.symbols[s] IN
    /\ s # "" /\ bound.min >= 0
    /\ \A m \in Range(bound.max) : m >= bound.min
    /\ HasMultipleInRange(bound.min, bound.max, bound.multiple_of)
    /\ s \in SymbolsOf(PortDims(c))

ValidContract(c) ==
    /\ c.version \in 1 .. SupportedVersion
    /\ \A i, j \in DOMAIN c.ports : c.ports[i].name = c.ports[j].name => i = j
    /\ \A i \in DOMAIN c.ports :
          /\ c.ports[i].shape # <<>>
          /\ \A d \in Range(c.ports[i].shape) : PortExtentValid(c, d)
          /\ c.ports[i].element_type \in KnownDtypes
    /\ \A d \in AxisDims(c) : AxisExtentValid(c, d)
    /\ c.version = 1 => DOMAIN c.symbols = {}
    /\ c.version # 1 =>
          /\ SymbolsOf(PortDims(c)) \cup SymbolsOf(AxisDims(c)) \subseteq DOMAIN c.symbols
          /\ SymbolsOf(AxisDims(c)) \subseteq SymbolsOf(PortDims(c))
          /\ \A s \in DOMAIN c.symbols : SymbolValid(c, s)

\* The canonical text keeps the order of the ports; primitives are a set, and
\* only version 2 writes the symbols.
CanonicalContract(c) ==
    <<c.version, c.ports, c.axes, IF c.version = 1 THEN <<>> ELSE <<c.symbols>>,
      c.numerical_contract, Range(c.required_primitives)>>

----------------------------------------------------------------------------
(* The attribute.                                                          *)

\* The keys of version 1; version 2 adds the symbols.
EncodedKeys(c) ==
    {"version", "ports", "axes", "numerical_contract", "required_primitives"}
       \cup (IF c.version = 1 THEN {} ELSE {"symbols"})
EncodedSymbol(bound) ==
    [k \in {"min", "multiple_of"} \cup (IF bound.max = <<>> THEN {} ELSE {"max"}) |->
       IF k = "max" THEN bound.max[1] ELSE bound[k]]
EncodeContract(c) ==
    IF ~ValidContract(c) THEN <<>>
    ELSE <<[k \in EncodedKeys(c) |->
              IF k = "symbols" THEN [s \in DOMAIN c.symbols |-> EncodedSymbol(c.symbols[s])]
              ELSE c[k]]>>

PortKeys == {"name", "direction", "effect", "shape", "element_type"}
DecodesDimension(d) == d[1] \in {"constant", "symbol"}
DecodesPort(port) ==
    /\ PortKeys \subseteq DOMAIN port
    /\ port.direction \in Directions /\ port.effect \in Effects
    /\ \A d \in Range(port.shape) : DecodesDimension(d)
DecodedSymbol(bound) ==
    [min |-> bound.min, multiple_of |-> bound.multiple_of,
     max |-> IF "max" \in DOMAIN bound THEN <<bound.max>> ELSE <<>>]
DecodedSymbols(attr) ==
    IF "symbols" \in DOMAIN attr THEN [s \in DOMAIN attr.symbols |-> DecodedSymbol(attr.symbols[s])]
    ELSE <<>>

WellFormedContract(attr) ==
    /\ {"version", "ports", "axes", "numerical_contract", "required_primitives"} \subseteq DOMAIN attr
    /\ \A i \in DOMAIN attr.ports : DecodesPort(attr.ports[i])
    /\ \A a \in DOMAIN attr.axes : DecodesDimension(attr.axes[a])
    /\ "symbols" \in DOMAIN attr =>
          \A s \in DOMAIN attr.symbols : {"min", "multiple_of"} \subseteq DOMAIN attr.symbols[s]

\* Nothing when the attribute is malformed or the contract it spells invalid.
DecodeContract(attr) ==
    IF ~WellFormedContract(attr) THEN <<>>
    ELSE LET read == [version |-> attr.version % VersionModulus, ports |-> attr.ports, axes |-> attr.axes,
                      symbols |-> DecodedSymbols(attr), numerical_contract |-> attr.numerical_contract,
                      required_primitives |-> attr.required_primitives]
         IN  IF ValidContract(read) THEN <<read>> ELSE <<>>
=============================================================================
