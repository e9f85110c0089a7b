--------------------------- MODULE MCStoragePlan ---------------------------
(* Plans for StoragePlan: four nodes on two engines, the first reading a      *)
(* boundary value; fan-out from the first node or a chain, and a cycle; values *)
(* read where they are, converted in place, or copied over one or two hops     *)
(* with one or two engines; the executor of the nodes runs one or two at once. *)
(* Streams of four events, and lists of four allocations, for the other two    *)
(* callers.                                                                    *)
EXTENDS StoragePlan
CONSTANTS sram, l2, dram, vec, mat, dma, dma2, sync, ghost, unit

MCMemories == {sram, l2, dram}
MCResources == {vec, mat, dma, dma2, sync, ghost, unit}
MCWidth == [r \in {vec, mat, dma, dma2, unit} |-> IF r = unit THEN 2 ELSE 1]
MCCapacity == [m \in MCMemories |-> IF m = sram THEN 4 ELSE 3]

Input == 9

\* Who reads what: node 1 reads node 0, node 2 reads one or both of them, node 3
\* the last; and a graph with a cycle.
Graphs4 == { << <<Input>>, <<0>>, r2, r3 >> : r2 \in {<<0>>, <<1>>, <<0, 1>>}, r3 \in {<<2>>, <<2, 1>>} }
           \cup { << <<Input>>, <<2>>, <<1>>, <<0>> >> }

To(g, v) == {n \in 0 .. 3 : \E i \in DOMAIN g[n + 1] : g[n + 1][i] = v}

Conn(g, v, way) == [value |-> v, kind |-> way[1], route |-> way[2], engines |-> way[3], to |-> To(g, v)]

\* The last way takes two transfer engines, so it needs barriers.
Direct == <<"direct", <<sram>>, <<>> >>
Copied(engines) == <<"both", <<sram, l2, dram>>, engines>>
Ways == { Direct, <<"transform", <<sram>>, <<>> >>, <<"transfer", <<sram, dram>>, <<dma>> >>, Copied(<<dma, dma2>>) }

\* The connections of values 0, 1 and 2: one of the first two is moved.
Ways3 == {<<a, Direct, Direct>> : a \in Ways \cup {Copied(<<dma, dma>>)}}
         \cup {<<Direct, b, Direct>> : b \in Ways}

\* Where a node reads an operand: at the end of its route, or, for a value read
\* directly, in the producer's memory or as its own port is bound.
ReadAt(g, w, n, i, own) ==
  LET v == g[n + 1][i] IN
  IF v \in 0 .. 2 /\ w[v + 1][1] # "direct" THEN Last(w[v + 1][2])
  ELSE IF n = own THEN l2 ELSE sram

Plan(g, w, es, cs, bs, o, own, last, strict, odd) ==
  [n |-> 4, placements |-> IF odd = "unplaced" THEN {0, 1, 2} ELSE 0 .. 3,
   reads |-> [n \in 0 .. 3 |-> g[n + 1]],
   at |-> [n \in 0 .. 3 |-> [i \in DOMAIN g[n + 1] |-> ReadAt(g, w, n, i, own)]],
   mem |-> [n \in 0 .. 3 |-> IF n = 3 THEN last ELSE sram],
   bytes |-> [v \in {0, 1, 2, 3, Input} |-> IF v \in {0, 3} THEN bs ELSE 1],
   occ |-> [n \in 0 .. 3 |-> IF n \in {0, 3} THEN o ELSE 1],
   engine |-> [n \in 0 .. 3 |-> IF odd = "engine" /\ n = 2 THEN ghost ELSE es[n + 1]],
   executor |-> [n \in 0 .. 3 |-> IF es = <<vec, mat, mat, vec>> THEN vec ELSE unit],
   cycles |-> [n \in 0 .. 3 |-> cs[n + 1]],
   conns |-> SelectSeq([k \in 1 .. 3 |-> Conn(g, k - 1, w[k])], LAMBDA c : c.to # {}),
   external |-> <<Input>>,
   strict |-> strict, unresolved |-> IF odd = "memory" THEN {1} ELSE {}]

Engines4 == {<<vec, vec, vec, vec>>, <<vec, mat, vec, vec>>, <<vec, mat, mat, vec>>}
Cycles4 == {<<1, 1, 1, 1>>, <<1, 4, 1, 2>>}

MCPlans ==
  {Plan(g, w, es, cs, size[1], size[2], place[1], place[2], TRUE, "no") :
     g \in Graphs4, w \in Ways3, es \in Engines4, cs \in Cycles4, size \in {<<1, 1>>, <<2, 1>>, <<2, 2>>},
     place \in {<<3, sram>>, <<4, sram>>, <<4, dram>>}}
  \cup
  {Plan(g, w, es, <<1, 4, 1, 2>>, 2, 1, 4, sram, strict, odd) :
     g \in Graphs4, w \in Ways3, es \in Engines4, strict \in BOOLEAN,
     odd \in {"unplaced", "engine", "memory"}}
-----------------------------------------------------------------------------
(* Streams.  Classes of events: a compute event on a unit with two slots,      *)
(* with and without an owner, a transfer on an engine with one, an event on a  *)
(* resource the machine does not model.                                        *)

E(kind, r, o, c, ds) == [kind |-> kind, resource |-> r, owner |-> o, cycles |-> c, deps |-> ds]

Regular(cs, dss) == {E("compute", unit, NoOwner, c, ds) : c \in cs, ds \in dss}
                  \cup {E("compute", unit, vec, c, ds) : c \in cs, ds \in dss}
                  \cup {E("transfer", dma, NoOwner, c, ds) : c \in cs, ds \in dss}
Unmodelled(dss)       == {E("compute", ghost, NoOwner, 1, ds) : ds \in dss}

\* Four events with forward, backward, cyclic and missing dependencies.
First  == Regular({2}, {{}, {1}, {2}, {0}})
Second == Regular({3}, {{}, {0}, {2}, {0, 2}})
Third  == Regular({2}, {{}, {0}, {1}, {7}}) \cup Unmodelled({{}, {1}})
Fourth == {E("compute", unit, vec, 1, {}), E("compute", unit, NoOwner, 1, {0}),
           E("transfer", dma, vec, 1, {1, 2}), E("sync", ghost, NoOwner, 1, {2})}

MCStreams ==
  {[id \in 0 .. 3 |-> <<a, b, c, d>>[id + 1]] :
     a \in First, b \in Second, c \in Third, d \in Fourth}
-----------------------------------------------------------------------------
(* Allocation lists: four allocations over six steps in any list order, of two *)
(* sizes, one of them resident once or twice, one of them borrowed or not, in  *)
(* two memories.  A writer reads either nothing or every value that is live at *)
(* its step and was written before.                                            *)

Spans == {<<0, 1>>, <<1, 1>>, <<1, 3>>, <<2, 4>>, <<3, 5>>}

Alloc(s, b, o, w, m) ==
  [memory |-> m, bytes |-> b, occ |-> o, begin |-> s[1], end |-> s[2], borrowed |-> w]

Plain == {Alloc(s, b, 2, FALSE, sram) : s \in Spans, b \in {1, 2}}
Large == {Alloc(s, 2, 2, FALSE, sram) : s \in Spans}
Odd   == {Alloc(s, 2, 2, TRUE, sram) : s \in Spans} \cup {Alloc(s, 1, 1, FALSE, sram) : s \in Spans}
         \cup {Alloc(<<1, 3>>, 1, 2, FALSE, dram)}

ReadsOf(l, i) == {j \in DOMAIN l : l[j].begin < l[i].begin /\ l[i].begin <= l[j].end}

WithReads(l, inPlace) ==
  [i \in DOMAIN l |->
     [memory |-> l[i].memory, bytes |-> l[i].bytes, occ |-> l[i].occ, begin |-> l[i].begin,
      end |-> l[i].end, borrowed |-> l[i].borrowed,
      reads |-> IF inPlace THEN ReadsOf(l, i) ELSE {}]]

MCLists == {WithReads(<<a, b, c, d>>, p) :
              a \in Large, b \in Odd, c \in Plain, d \in Plain \cup Odd, p \in BOOLEAN}
=============================================================================
