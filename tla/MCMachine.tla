------------------------------ MODULE MCMachine ------------------------------
(* On one machine: its description is loaded, routes are looked for, the     *)
(* events of a kernel are extracted and scheduled, compiled kernels are      *)
(* cached and called.  Each part is walked while the others rest.            *)
EXTENDS Routing, MachineModel, MCMicroDag, MCJitCache, KernelCall, TLC

(* A machine with two staging memories, two parallel links, cycles and links *)
(* no engine can serve, and requests over all of it; and the documents a     *)
(* process may load its machine from before it routes anything.              *)
CONSTANTS dram, sram, buf, reg, core, dma, other, tiled

Mem(a, c, ls) == [alignment |-> a, capacity |-> c, layouts |-> ls]
L(s, d, g, lat, pb, es) ==
  [source |-> s, destination |-> d, granule |-> g, latency |-> lat, perByte |-> pb, engines |-> es]

MCMemory == (dram :> Mem(4, 100, {tiled})) @@ (sram :> Mem(4, 6, {tiled}))
            @@ (buf :> Mem(4, 4, {})) @@ (reg :> Mem(2, 2, {tiled}))

MCLink == (1 :> L(dram, sram, 4, 1, 1, <<other, dma>>)) @@ (2 :> L(dram, sram, 2, 1, 1, <<core>>))
          @@ (3 :> L(sram, buf, 2, 1, 0, <<dma>>)) @@ (4 :> L(buf, reg, 1, 1, 0, <<core>>))
          @@ (5 :> L(sram, reg, 2, 3, 0, <<dma>>)) @@ (6 :> L(dram, buf, 2, 2, 1, <<dma>>))
          @@ (7 :> L(buf, sram, 2, 0, 1, <<core>>)) @@ (8 :> L(reg, dram, 1, 2, 1, <<core>>))
          @@ (9 :> L(dram, reg, 3, 1, 1, <<dma>>)) @@ (10 :> L(sram, reg, 1, 1, 1, <<other>>))
          @@ (11 :> L(buf, dram, 1, 1, 1, <<other>>))

MCAttached == (dma :> dma) @@ (core :> core) @@ (other :> other)
MCVisible == {<<dram, dma>>, <<sram, dma>>, <<dram, core>>, <<buf, core>>, <<reg, core>>}

Occupied == {<<0, <<>>>>, <<3, <<>>>>, <<3, (buf :> 0)>>, <<0, (sram :> 9)>>}

Moves ==
  {[source |-> e[1], destination |-> e[2], bytes |-> n, alignment |-> a, layout |-> y,
    producer |-> core, consumer |-> None, live |-> v[1], liveBy |-> v[2],
    limit |-> k, maxRoutes |-> 8, maxHops |-> h] :
     e \in {<<dram, reg>>, <<dram, sram>>, <<buf, reg>>}, n \in {2, 4}, a \in {1, 2},
     y \in {None, tiled}, v \in Occupied, k \in {1, 3, 9}, h \in {1, 2, 4}}

\* Calls that fail a check of the request, and the one that moves nothing.
Base == CHOOSE r \in Moves : r.source = dram /\ r.limit = 9
Checked ==
  {[Base EXCEPT !.bytes = 0], [Base EXCEPT !.alignment = 0], [Base EXCEPT !.source = None],
   [Base EXCEPT !.destination = None], [Base EXCEPT !.producer = other],
   [Base EXCEPT !.consumer = dma, !.destination = reg], [Base EXCEPT !.limit = 0],
   [Base EXCEPT !.destination = reg, !.alignment = 4], [Base EXCEPT !.destination = dram]}

MCRequests == Moves \cup Checked

-----------------------------------------------------------------------------
(* Documents: a small machine, and what may be wrong with one.             *)

Chip(more) == <<<<"id", "chip">>, <<"kind", "group">>>> \o more
Pe(id, more) == <<<<"kind", "pe">>, <<"id", id>>, <<"parent", "chip">>>> \o more
Refines(cs) == <<<<"refines", cs>>>>
Mesh(twins) == <<Chip(<<>>), Pe("p0", Refines(<<"worker">>) \o twins),
                 Pe("p1", <<<<"equivalent_to", <<"p0">>>>>>)>>
Space(id, scope, more) ==
  <<<<"id", id>>, <<"kind", "local">>, <<"visible_from", scope>>, <<"capacity_bytes", 4>>>> \o more
Unit(more) == <<<<"id", "mxu">>, <<"kind", "mx">>, <<"attached_to", "p0">>>> \o more
Tiles(ss) == <<<<"shapes", ss>>>>
Mover(id, more) == <<<<"id", id>>, <<"kind", "transfer">>, <<"attached_to", "chip">>>> \o more
Path(id, a, b, more) ==
  <<<<"id", id>>, <<"source", a>>, <<"destination", b>>, <<"bandwidth", 2>>>> \o more

Twin == <<<<"equivalent_to", <<"p1">>>>>>
Executors == <<"executors", Mesh(Twin)>>
MemoryList == <<"memories", <<Space("m0", "chip", <<>>), Space("m1", "p0", <<>>)>>>>
Computes == <<"compute", <<Unit(Refines(<<"matrix">>) \o Tiles(<<<<4, 4>>>>))>>>>
Engines == <<"transfer_engines", <<Mover("d0", <<>>), Mover("d1", <<>>)>>>>
Paths == <<"links", <<Path("l0", "m0", "m1", <<<<"transfer_engines", <<"d0", "d1">>>>>>)>>>>
Schema(minor) == <<"schema", <<2, minor>>>>
Target == <<"target", "t">>

Root == <<Schema(0), Target, Executors, MemoryList, Computes, Engines, Paths>>
Backwards(s) == [i \in DOMAIN s |-> s[Len(s) + 1 - i]]
Doc(entries) == [entries |-> entries, tail |-> "none"]
With(i, node) == Doc([Root EXCEPT ![i] = node])
Section(i, nodes) == With(i, <<Root[i][1], nodes>>)

\* The same machine written differently, with or without a newer key.
Spellings ==
  {Doc(Root), Doc(Backwards(Root)),
   Section(3, <<Chip(<<>>), Pe("p1", <<<<"equivalent_to", <<"p0">>>>>>),
                Pe("p0", Twin \o Refines(<<"worker">>))>>),
   Section(7, <<Path("l0", "m0", "m1", <<<<"transfer_engines", <<"d1", "d0">>>>>>)>>),
   Section(6, <<Mover("d1", <<>>), Mover("d0", <<<<"count", 1>>>>)>>)}
  \cup {Doc(<<<<"warp_size", 1>>, Schema(n)>> \o Tail(Root)) : n \in {0, 1}}
  \cup {Doc(Append(Tail(Root), Schema(n)) \o <<<<"warp_size", 1>>>>) : n \in {0, 1}}
  \cup {Doc(<<<<"memories", <<Space("m0", "chip", <<<<"ports", 2>>>>), Space("m1", "p0", <<>>)>>>>,
              Schema(n), Target, Executors, Computes, Engines, Paths>>) : n \in {0, 1}}

\* Other machines.
Machines ==
  {Section(4, <<Space("m0", "chip", <<>>), Space("m1", scope, <<>>)>>) : scope \in {"chip", "p1"}}
  \cup {Section(7, <<Path("l0", "m0", "m1", <<<<"transaction_bytes", 2>>>>)>>),
        Section(7, <<Path("l0", "m1", "m0", <<>>)>>),
        Section(6, <<Mover("d0", <<>>), Mover("d1", Refines(<<"vector">>))>>),
        Section(5, <<>>), Section(3, Mesh(Twin) \o <<Pe("p2", <<>>)>>)}

\* What the walk or the verification refuses.
Refused ==
  {Doc(Root \o <<Target>>), With(1, <<"schema", Bad>>), With(1, <<"schema", <<3, 0>>>>),
   With(2, <<"target", "">>), With(2, <<"target", Bad>>), Doc(Tail(Root)),
   Doc(Root \o <<<<"clock_hz", 0>>>>), Doc(Root \o <<<<"worker_threads", 0>>>>),
   [Doc(Root) EXCEPT !.tail = "second"], With(7, <<"links", Bad>>),
   Section(3, Mesh(<<>>)), Section(3, Mesh(Twin) \o <<Chip(<<>>)>>),
   Section(3, <<Chip(<<<<"parent", "p0">>>>)>> \o Tail(Mesh(Twin))),
   Section(3, <<Chip(<<<<"parent", "chip">>>>)>> \o Tail(Mesh(Twin))),
   Section(3, <<Chip(<<<<"parent", "none">>>>)>> \o Tail(Mesh(Twin))),
   Section(3, <<Chip(<<<<"concurrency", 0>>>>)>> \o Tail(Mesh(Twin))),
   Section(3, Mesh(Twin) \o <<Pe("p2", Refines(<<"group">>))>>),
   Section(3, Mesh(Twin) \o <<Pe("p2", Refines(<<"pe">>))>>),
   Section(3, Mesh(Twin) \o <<Pe("p2", <<<<"equivalent_to", <<"p2">>>>>>)>>),
   Section(3, Mesh(Twin) \o <<Pe("p2", <<<<"scheduling_class", Bad>>>>)>>),
   Section(3, <<<<<<"id", "chip">>>>>>),
   Section(4, <<Space("p0", "chip", <<>>), Space("m1", "p0", <<>>)>>),
   Section(4, <<Space("m0", "m1", <<>>), Space("m1", "p0", <<>>)>>),
   Section(4, <<Space("m0", "chip", <<<<"alignment_bytes", 0>>>>), Space("m1", "p0", <<>>)>>),
   Section(4, <<Space("m0", "chip", <<<<"access_granularity_bytes", 0>>>>)>>),
   Section(5, <<Unit(Tiles(<<<<4>>>>))>>), Section(5, <<Unit(Refines(<<"worker">>) \o Tiles(<<<<4>>>>))>>),
   Section(5, <<Unit(Refines(<<"matrix", "vector">>) \o Tiles(<<<<4>>>>))>>),
   Section(5, <<Unit(Refines(<<"matrix">>) \o Tiles(<<>>))>>),
   Section(5, <<Unit(Refines(<<"matrix">>) \o Tiles(<<<<4, 0>>>>))>>),
   Section(5, <<Unit(Refines(<<"matrix">>) \o Tiles(<<<<4>>>>) \o <<<<"lanes", <<0>>>>>>)>>),
   Section(6, <<Mover("d0", <<<<"max_outstanding", 0>>>>), Mover("d1", <<>>)>>),
   Section(7, <<Path("l0", "m0", "p0", <<>>)>>),
   Section(7, <<Path("l0", "m0", "m1", <<<<"transfer_engines", <<"m0">>>>>>)>>),
   Section(7, <<Path("l0", "m0", "m1", <<<<"concurrency", 0>>>>)>>)}

MCDocuments == Spellings \cup Machines \cup Refused

\* The router works on the constant machine while no document is loaded, and
\* the loader runs before any request exists.
IdleLoad == doc = Doc(<<>>) /\ at = 1 /\ tolerant = FALSE /\ unknown = FALSE /\ model = NoModel
              /\ stage = "idle" /\ known = {}
NotAsked == [Base EXCEPT !.limit = 0]
IdleRouter == req = NotAsked /\ phase = "rejected" /\ work = {} /\ routes = <<>>
                /\ pruned = FALSE /\ truncated = FALSE
-----------------------------------------------------------------------------
(* Lowered functions, descriptors and providers on which every check of     *)
(* KernelCall both passes and fails; words have five bits.                  *)

Type(r, c, e) == [shape |-> <<r, c>>, elem |-> e, identity |-> TRUE]
PortOf(role, d1, d2, e) == [role |-> role, elem |-> e, dims |-> <<d1, d2>>]
Arg(role, port) == [role |-> role, port |-> port]
Domain(lo, hi, m) == [min |-> lo, max |-> hi, multipleOf |-> m]

\* A function without bindings: version 1.
Static(sig, results) ==
  [sig |-> sig, results |-> results, bindings |-> <<>>, contract |-> <<>>,
   symbols |-> <<>>, resultPorts |-> <<>>, traced |-> TRUE,
   inputMap |-> <<>>, destination |-> 0]

\* A function with argument bindings, with or without a contract.
Symbolic(sig, results, bindings, contract, symbols, resultPorts) ==
  [Static(sig, results) EXCEPT !.bindings = bindings, !.contract = contract,
     !.symbols = symbols, !.resultPorts = resultPorts]

D == kDynamic

Copy     == Static(<<Type(2, 1, "i8")>>, <<Type(1, 1, "f16")>>)
Contract == << PortOf("output", SymbolDim(1), Constant(1), "i8"),
               PortOf("input", SymbolDim(1), SymbolDim(2), "i8") >>
Dynamic  == Symbolic(<<Type(D, D, "i8"), Type(D, 1, "i8")>>, <<Type(D, 1, "i8")>>,
                  <<Arg("input", 2), Arg("output", 1)>>, Contract,
                  [s \in {1, 2} |-> IF s = 1 THEN Domain(0, NoMax, 1)
                                             ELSE Domain(1, 4, 2)], <<1>>)
Loose    == Symbolic(<<Type(D, 1, "f16"), Type(1, D, "i8")>>, <<>>,
                  <<Arg("output", 1), Arg("input", 2)>>, <<>>, <<>>, <<>>)
Three    == Symbolic(<<Type(D, 1, "f32"), Type(1, 1, "f32"), Type(1, D, "f32")>>,
                  <<>>,
                  <<Arg("output", 2), Arg("input", 3), Arg("input", 1)>>,
                  << PortOf("input", Constant(1), SymbolDim(1), "f32"),
                     PortOf("output", SymbolDim(1), Constant(1), "f32"),
                     PortOf("input", Constant(1), Constant(1), "f32") >>,
                  [s \in {1} |-> Domain(2, 2, 1)], <<>>)
\* Through the frontend: two public inputs, swapped, and a private destination.
Frontend == [Static(<<Type(1, 1, "f32"), Type(1, 1, "f32"), Type(1, 2, "i8")>>,
                    <<Type(1, 1, "f32")>>)
               EXCEPT !.inputMap = <<3, 1>>, !.destination = 2]

\* Functions that preparation or creation must refuse.
RefusedKernels ==
  { [Dynamic EXCEPT !.bindings = <<Arg("input", 2), Arg("output", 2)>>],
    [Dynamic EXCEPT !.bindings = <<Arg("input", 2), Arg("input", 1)>>],
    [Dynamic EXCEPT !.bindings = <<Arg("input", 2), Arg("output", 3)>>],
    [Dynamic EXCEPT !.bindings = <<Arg("input", 2)>>],
    [Dynamic EXCEPT !.traced = FALSE],
    [Dynamic EXCEPT !.resultPorts = <<2>>],
    [Dynamic EXCEPT !.sig[1].shape = <<2, D>>],
    [Dynamic EXCEPT !.sig[2].identity = FALSE],
    [Dynamic EXCEPT !.symbols = [s \in {1} |-> Domain(0, 2, 1)]],
    [Dynamic EXCEPT !.symbols[1] = Domain(3, 2, 1)],
    [Dynamic EXCEPT !.symbols[1] = Domain(3, 3, 2)],
    [Dynamic EXCEPT !.symbols[1] = Domain(15, NoMax, 2)],
    [Loose EXCEPT !.bindings = <<Arg("output", 2), Arg("input", 1)>>],
    [Copy EXCEPT !.sig[1].shape = <<D, 1>>],
    [Copy EXCEPT !.sig[1].shape = <<2>>],
    [Copy EXCEPT !.sig[1].elem = "f64"],
    Static([i \in 1 .. 4 |-> Type(1, 1, "i8")], <<Type(1, 1, "i8")>>) }

MCKernels == {Copy, Dynamic, Loose, Three, Frontend} \cup RefusedKernels

Sizes == ({0, 1, 2} \X {1, 2}) \cup {<<-1, 1>>, <<1, 0>>, <<8, 4>>, <<8, 8>>}

Buffer(a, p, s, e, n) ==
  [allocated |-> a, aligned |-> p, offset |-> 0, size |-> s,
   stride |-> <<s[2], 1>>, elem |-> e, bytes |-> n]

MCBuffers ==
  LET plain == { Buffer(a, p, s, e, n) :
                   a \in {0, 2, 30}, p \in {0, 1, 2, 4, 30}, s \in Sizes,
                   e \in {"i8", "f16"}, n \in {0, 2, 4} }
      odd == { b \in plain : b.allocated = 2 /\ b.aligned = 2 /\ b.bytes = 4 }
      wide == { Buffer(a, a, s, "f32", 8) :
                  a \in {4, 8, 16}, s \in {<<1, 1>>, <<1, 2>>, <<2, 1>>} }
                \cup { Buffer(8, 8, s, "i8", 8) : s \in {<<8, 1>>, <<8, 4>>} }
  IN  plain \cup wide
            \cup { [b EXCEPT !.offset = 1] : b \in odd }
            \cup { [b EXCEPT !.offset = -1] : b \in odd }
            \cup { [b EXCEPT !.stride = <<3, 1>>] : b \in odd }

Provider(k, a, s, e, n) ==
  [kind |-> k, address |-> a, shape |-> s, elem |-> e, bytes |-> n,
   compact |-> TRUE, readonly |-> FALSE, view |-> FALSE, exported |-> TRUE]

\* A provider that exports nothing is believed to own what its shape says.
MCProviders ==
  LET plain == { Provider(k, a, s, e, n) :
                   k \in {"array", "buffer", "bytes"}, a \in {0, 2, 4, 8, 12},
                   s \in {<<1, 1>>, <<1, 2>>, <<2, 1>>},
                   e \in {"i8", "f32"}, n \in {2, 4, 8} }
  IN  { o \in plain : o.kind = "buffer" =>
                        o.bytes = ElementCount(o.shape) * ElementBytes[o.elem] }
        \cup { [o EXCEPT !.compact = FALSE] : o \in { q \in plain : q.bytes = 4 } }
        \cup { [o EXCEPT !.readonly = TRUE] : o \in { q \in plain : q.bytes = 4 } }
        \cup { [o EXCEPT !.view = TRUE] :
                 o \in { q \in plain : q.kind = "array" /\ q.bytes = 4 } }
        \cup { [o EXCEPT !.exported = FALSE] :
                 o \in { q \in plain : q.kind = "array" /\
                           q.bytes = ElementCount(q.shape) * ElementBytes[q.elem] } }

Guard(k, s, v) == [kind |-> k, sym |-> s, value |-> v]
Guards == { Guard(k, s, v) : k \in {"divisible_by", "equal_to", "at_least"},
                             s \in 1 .. 3, v \in 0 .. 3 }
Fallback == [guards |-> {}, baseline |-> TRUE]
MCVariantSets ==
  {<<>>, <<Fallback, Fallback>>, <<[guards |-> {}, baseline |-> FALSE], Fallback>>}
    \cup { << [guards |-> {g}, baseline |-> FALSE], Fallback >> : g \in Guards }
    \cup { << [guards |-> {g, Guard("at_least", 2, 1)}, baseline |-> FALSE],
              [guards |-> {Guard("at_least", 1, 0)}, baseline |-> FALSE],
              Fallback >> : g \in Guards }
-----------------------------------------------------------------------------
IdleDag ==
  /\ micro = Audit(<<>>) /\ progress = "failed" /\ frames = <<>> /\ events = <<>> /\ producers = <<>>
  /\ planned = <<>> /\ claimed = {} /\ routeOf = <<>> /\ occurrences = <<>> /\ shared = <<>>
  /\ sited = {} /\ live = <<>> /\ missing = {} /\ origin = <<>> /\ complete = FALSE /\ EmptySchedule
IdleCall ==
  /\ kernel = Copy /\ callPc = "failed" /\ abi = NoAbi /\ mode = "none" /\ leases = <<>>
  /\ bufs = <<>> /\ why = "none" /\ values = <<>> /\ args = <<>>

IdleCache == max = 2 /\ clock = MaxOps /\ EmptyCache

MachineInit ==
  \/ MInit /\ IdleRouter /\ IdleDag /\ IdleCache /\ IdleCall
  \/ IdleLoad /\ Init /\ IdleDag /\ IdleCache /\ IdleCall
  \/ IdleLoad /\ IdleRouter /\ DagInit /\ IdleCache /\ IdleCall
  \/ IdleLoad /\ IdleRouter /\ IdleDag /\ JitInit /\ IdleCall
  \/ IdleLoad /\ IdleRouter /\ IdleDag /\ IdleCache /\ CallInit

MachineNext ==
  \/ MNext /\ UNCHANGED <<vars, dagVars, jitVars, invocationVars>>
  \/ Next /\ UNCHANGED <<mvars, dagVars, jitVars, invocationVars>>
  \/ DagNext /\ UNCHANGED <<mvars, vars, jitVars, invocationVars>>
  \/ JitNext /\ UNCHANGED <<mvars, vars, dagVars, invocationVars>>
  \/ Proceed /\ UNCHANGED <<mvars, vars, dagVars, jitVars>>
  \/ \E b \in Buffers : Check(b) /\ UNCHANGED <<mvars, vars, dagVars, jitVars>>
  \/ \E o \in Providers : Lease(o) /\ UNCHANGED <<mvars, vars, dagVars, jitVars>>

MachineSpec == MachineInit /\ [][MachineNext]_<<mvars, vars, dagVars, jitVars, invocationVars>>
=============================================================================
