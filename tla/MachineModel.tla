---------------------------- MODULE MachineModel ----------------------------
(***************************************************************************)
(* Loading a machine description: the walk over a YAML document            *)
(* (lib/Machine/MachineModelLoader.cpp), the semantic checks               *)
(* verifyMachineModel makes on the result, the content hash, and the       *)
(* queries the router and the placement ask of a loaded model              *)
(* (lib/Machine/MachineModel.cpp).                                         *)
(*                                                                         *)
(* A mapping is the sequence of its <<key, value>> entries, as the single  *)
(* pass of the parser delivers them: keys may repeat, be unknown and come  *)
(* in any order.  Bad is a value its reader refuses (a list for a scalar,  *)
(* text for a number, an unknown enumerator).  A process loads several     *)
(* documents and keys what it remembers of each by its content hash.       *)
(***************************************************************************)
EXTENDS Integers, Sequences, FiniteSets, Functions

CONSTANTS
  Documents,      \* [entries: the root mapping, tail: what follows it]
  MaxLoads,       \* documents one process loads
  Missing,        \* std::nullopt
  Bad             \* a value its reader refuses

VARIABLES
  doc,            \* the document being read
  at,             \* the entry of the root mapping the walk is at
  tolerant,       \* tolerantMinor_
  unknown,        \* firstUnknownNode_ is set
  model,          \* the model read so far
  stage,          \* "idle", "walk", "parsed", "loaded" or "refused"
  known           \* the models loaded by this process

Sections == {"executors", "memories", "compute", "transfer_engines", "links"}

\* A document is a list of entries, a section a list of mappings, and the
\* numbers of the schema are not negative; which keys there are, and what
\* stands under them, is free.
IsList(s) == Len(s) \in Nat /\ DOMAIN s = 1 .. Len(s)
ASSUME DocumentAssumption ==
  \A d \in Documents :
    /\ IsList(d.entries)
    /\ \A i \in DOMAIN d.entries : d.entries[i][2] # Bad =>
         /\ d.entries[i][1] = "schema" => d.entries[i][2][2] \in Nat
         /\ d.entries[i][1] \in Sections => IsList(d.entries[i][2])

mvars == <<doc, at, tolerant, unknown, model, stage, known>>

-----------------------------------------------------------------------------
(* The vocabulary of the sections.                                         *)

Header == {"schema", "target", "clock_hz", "worker_threads"}

\* The keys of each section: the required ones, and the optional ones with the
\* values they have when left out.
ExecutorKeys ==
  [required |-> {"id", "kind"},
   optional |-> [parent |-> Missing, concurrency |-> 1, refines |-> <<>>, equivalent_to |-> <<>>,
                 scheduling_class |-> "in_order"]]
MemoryKeys ==
  [required |-> {"id", "kind", "visible_from", "capacity_bytes"},
   optional |-> [alignment_bytes |-> 1, supported_layouts |-> <<>>,
                 access_granularity_bytes |-> Missing]]
ComputeKeys ==
  [required |-> {"id", "kind", "attached_to", "shapes"},
   optional |-> [refines |-> <<>>, lanes |-> <<>>, concurrency |-> 1,
                 occupancy_limit |-> Missing]]
TransferEngineKeys ==
  [required |-> {"id", "kind", "attached_to"},
   optional |-> [refines |-> <<>>, count |-> 1, max_outstanding |-> 1]]
LinkKeys ==
  [required |-> {"id", "source", "destination", "bandwidth"},
   optional |-> [transaction_bytes |-> 1, transfer_engines |-> <<>>, concurrency |-> 1,
                 directionality |-> "unidirectional"]]

Vocabulary ==
  [executors |-> ExecutorKeys, memories |-> MemoryKeys, compute |-> ComputeKeys,
   transfer_engines |-> TransferEngineKeys, links |-> LinkKeys]
Required(section) == Vocabulary[section].required
Optional(section) == Vocabulary[section].optional
Keys(section) == Required(section) \cup DOMAIN Optional(section)

-----------------------------------------------------------------------------
(* Reading one mapping.                                                    *)

KeysOf(mapping) == {mapping[i][1] : i \in DOMAIN mapping}
Repeats(mapping) == \E i, j \in DOMAIN mapping : i < j /\ mapping[i][1] = mapping[j][1]
ValueOf(mapping, key) ==
  LET i == CHOOSE j \in DOMAIN mapping : mapping[j][1] = key IN mapping[i][2]

\* forEachEntry with the handler of a section, then requireKey: what is
\* refused on the spot.  An unknown key is not (deferUnknownKey).
Readable(section, mapping) ==
  /\ ~Repeats(mapping)
  /\ \A i \in DOMAIN mapping : mapping[i][1] \in Keys(section) => mapping[i][2] # Bad
  /\ Required(section) \subseteq KeysOf(mapping)

HasUnknown(section, mapping) == ~(KeysOf(mapping) \subseteq Keys(section))

\* parseExecutor and its siblings: the node a readable mapping describes.
Parsed(section, mapping) ==
  [key \in Keys(section) |->
     IF key \in KeysOf(mapping) THEN ValueOf(mapping, key) ELSE Optional(section)[key]]

NoModel ==
  [major |-> 2, minor |-> 0, target |-> "", clock_hz |-> Missing, worker_threads |-> 1,
   executors |-> <<>>, memories |-> <<>>, compute |-> <<>>, transfer_engines |-> <<>>,
   links |-> <<>>]

-----------------------------------------------------------------------------
(* Queries.                                                                *)

Exists(m, section, id) == \E i \in DOMAIN m[section] : m[section][i].id = id

\* findById: the first node of a section with that id, or Missing.
Find(m, section, id) ==
  LET first == CHOOSE i \in DOMAIN m[section] :
                 /\ m[section][i].id = id
                 /\ \A j \in 1 .. i - 1 : m[section][j].id # id
  IN  IF Exists(m, section, id) THEN m[section][first] ELSE Missing

\* The executors on the way from e upwards: what every set of executors has that
\* has e and, with an executor, the parent of it.
ExecutorIds(m) == {n.id : n \in Range(m.executors)}
HasParents(m, S) ==
  \A n \in Range(m.executors) : n.id \in S /\ n.parent \in ExecutorIds(m) => n.parent \in S
Upwards(m, e) ==
  {f \in ExecutorIds(m) : \A S \in SUBSET ExecutorIds(m) : e \in S /\ HasParents(m, S) => f \in S}

IsWithin(m, e, ancestor) == Exists(m, "executors", e) /\ ancestor \in Upwards(m, e)

IsVisible(m, memory, executor) ==
  /\ Exists(m, "memories", memory)
  /\ IsWithin(m, executor, Find(m, "memories", memory).visible_from)

Owners == {"group", "worker", "vector", "matrix", "transfer"}
MemorySpaces == {"dram", "shared", "local"}

OwnerMatches(m, class, executor) ==
  LET node == Find(m, "executors", executor)
  IN  Exists(m, "executors", executor) /\ (node.kind = class \/ class \in Range(node.refines))

\* The classes the nodes of one kind declare through refines.
Declared(m, kind) ==
  UNION {{node.refines[i] : i \in DOMAIN node.refines} \cap Owners :
           node \in {n \in UNION {Range(m[s]) : s \in {"executors", "compute", "transfer_engines"}} :
                       n.kind = kind}}

OwnerClass(m, kind) ==
  IF kind \in Owners THEN kind
  ELSE IF Cardinality(Declared(m, kind)) = 1 THEN CHOOSE c \in Declared(m, kind) : TRUE
  ELSE Missing

-----------------------------------------------------------------------------
(* verifyMachineModel, part by part.                                       *)

HeaderSound(m) ==
  /\ m.major = 2 /\ m.target # ""
  /\ m.clock_hz # 0 /\ m.worker_threads # 0

\* Ids share one namespace across the sections.
IdsUnique(m) ==
  \A s, z \in Sections : \A i \in DOMAIN m[s], j \in DOMAIN m[z] :
    /\ m[s][i].id # ""
    /\ m[s][i].id = m[z][j].id => s = z /\ i = j

RefinesOwners(node) == Range(node.refines) \subseteq Owners

ExecutorSound(m, node) ==
  /\ OwnerClass(m, node.kind) # Missing
  /\ RefinesOwners(node)
  /\ node.concurrency # 0
  /\ node.parent # Missing => Exists(m, "executors", node.parent)
  /\ \A i \in DOMAIN node.equivalent_to :
       LET twin == Find(m, "executors", node.equivalent_to[i])
       IN  /\ node.equivalent_to[i] # node.id
           /\ Exists(m, "executors", node.equivalent_to[i])
           /\ twin.kind = node.kind
           /\ node.id \in Range(twin.equivalent_to)

\* No parent chain comes back to an executor.
Acyclic(m) == \A n \in Range(m.executors) : ~IsWithin(m, n.parent, n.id)

MemoryNodeSound(m, node) ==
  /\ node.kind \in MemorySpaces
  /\ Exists(m, "executors", node.visible_from)
  /\ node.capacity_bytes # 0 /\ node.alignment_bytes # 0
  /\ node.access_granularity_bytes # 0

ComputeSound(m, node) ==
  /\ OwnerClass(m, node.kind) \in {"matrix", "vector"}
  /\ RefinesOwners(node)
  /\ Exists(m, "executors", node.attached_to)
  /\ node.concurrency # 0 /\ node.occupancy_limit # 0
  /\ node.shapes # <<>>
  /\ \A i \in DOMAIN node.shapes : /\ node.shapes[i] # <<>>
                                   /\ \A j \in DOMAIN node.shapes[i] : node.shapes[i][j] > 0
  /\ \A i \in DOMAIN node.lanes : node.lanes[i] > 0

EngineSound(m, node) ==
  /\ OwnerClass(m, node.kind) = "transfer"
  /\ RefinesOwners(node)
  /\ Exists(m, "executors", node.attached_to)
  /\ node.count # 0 /\ node.max_outstanding # 0

LinkSound(m, node) ==
  /\ Exists(m, "memories", node.source) /\ Exists(m, "memories", node.destination)
  /\ node.bandwidth > 0 /\ node.transaction_bytes # 0 /\ node.concurrency # 0
  /\ \A i \in DOMAIN node.transfer_engines :
       Exists(m, "transfer_engines", node.transfer_engines[i])

VerifyMachineModel(m) ==
  /\ HeaderSound(m)
  /\ IdsUnique(m)
  /\ \A i \in DOMAIN m.executors : ExecutorSound(m, m.executors[i])
  /\ Acyclic(m)
  /\ \A i \in DOMAIN m.memories : MemoryNodeSound(m, m.memories[i])
  /\ \A i \in DOMAIN m.compute : ComputeSound(m, m.compute[i])
  /\ \A i \in DOMAIN m.transfer_engines : EngineSound(m, m.transfer_engines[i])
  /\ \A i \in DOMAIN m.links : LinkSound(m, m.links[i])

-----------------------------------------------------------------------------
(* The content hash is a digest of the canonical string: every section in  *)
(* id order, the name lists of a node sorted, the schema minor left out.   *)

SortedNames(node, lists) ==
  [key \in DOMAIN node |->
     IF key \in lists THEN [n \in Range(node[key]) |-> Cardinality({i \in DOMAIN node[key] :
                                                                   node[key][i] = n})]
     ELSE node[key]]

NameLists == {"refines", "equivalent_to", "supported_layouts", "transfer_engines"}

ContentHash(m) ==
  [key \in DOMAIN m \ {"minor"} |->
     IF key \in Sections THEN {SortedNames(m[key][i], NameLists) : i \in DOMAIN m[key]}
     ELSE m[key]]

-----------------------------------------------------------------------------
(* The loader.                                                             *)

MInit ==
  /\ doc \in Documents
  /\ at = 1
  /\ tolerant = FALSE
  /\ unknown = FALSE
  /\ model = NoModel
  /\ stage = "walk"
  /\ known = {}

Key == doc.entries[at][1]
Value == doc.entries[at][2]
Walking == stage = "walk" /\ at <= Len(doc.entries)
Repeated == \E i \in 1..(at - 1) : doc.entries[i][1] = Key

Refuse ==
  /\ stage' = "refused"
  /\ UNCHANGED <<doc, at, tolerant, unknown, model, known>>

Advance == at' = at + 1 /\ UNCHANGED <<doc, stage, known>>

\* What the walk refuses on the spot.
RefuseEntry ==
  /\ Walking
  /\ \/ Repeated
     \/ Key \in Header /\ Value = Bad
     \/ Key \in Sections /\ ~(Value # Bad /\ \A i \in DOMAIN Value : Readable(Key, Value[i]))
  /\ Refuse

\* From here on a newer minor is tolerated.
ReadSchema ==
  /\ Walking /\ ~Repeated /\ Key = "schema" /\ Value # Bad
  /\ model' = [model EXCEPT !.major = Value[1], !.minor = Value[2]]
  /\ tolerant' = (Value[2] > 0)
  /\ UNCHANGED unknown
  /\ Advance

ReadHeader ==
  /\ Walking /\ ~Repeated /\ Key \in Header \ {"schema"} /\ Value # Bad
  /\ model' = [model EXCEPT ![Key] = Value]
  /\ UNCHANGED <<tolerant, unknown>>
  /\ Advance

ReadSection ==
  /\ Walking /\ ~Repeated /\ Key \in Sections
  /\ Value # Bad /\ \A i \in DOMAIN Value : Readable(Key, Value[i])
  /\ model' = [model EXCEPT ![Key] = [i \in DOMAIN Value |-> Parsed(Key, Value[i])]]
  /\ unknown' = (unknown \/ (~tolerant /\ \E i \in DOMAIN Value : HasUnknown(Key, Value[i])))
  /\ UNCHANGED tolerant
  /\ Advance

\* MUTANT of DeferUnknownKey: the verdict is taken on the spot.
RefuseUnknownKey ==
  /\ Walking /\ ~Repeated /\ Key \notin Header \cup Sections
  /\ IF tolerant THEN Advance /\ UNCHANGED <<tolerant, unknown, model>> ELSE Refuse

DeferUnknownKey ==
  /\ Walking /\ ~Repeated /\ Key \notin Header \cup Sections
  /\ unknown' = (unknown \/ ~tolerant)
  /\ UNCHANGED <<tolerant, model>>
  /\ Advance

\* resolveUnknownKeys, the required root keys, and the rest of the stream.
EndsWell ==
  /\ tolerant \/ ~unknown
  /\ {"schema", "target"} \subseteq KeysOf(doc.entries)
  /\ doc.tail = "none"

EndWalk ==
  /\ stage = "walk" /\ at > Len(doc.entries)
  /\ IF EndsWell
     THEN stage' = "parsed" /\ UNCHANGED <<doc, at, tolerant, unknown, model, known>>
     ELSE Refuse

Verify ==
  /\ stage = "parsed"
  /\ IF VerifyMachineModel(model)
     THEN /\ stage' = "loaded" /\ known' = known \cup {model}
          /\ UNCHANGED <<doc, at, tolerant, unknown, model>>
     ELSE Refuse

\* The process loads another machine.
LoadAnother ==
  /\ stage = "loaded" /\ Cardinality(known) < MaxLoads
  /\ doc' \in Documents \ {doc}
  /\ at' = 1 /\ tolerant' = FALSE /\ unknown' = FALSE /\ model' = NoModel /\ stage' = "walk"
  /\ UNCHANGED known

MNext ==
  \/ RefuseEntry \/ ReadSchema \/ ReadHeader \/ ReadSection \/ DeferUnknownKey
  \/ EndWalk \/ Verify \/ LoadAnother

MSpec == MInit /\ [][MNext]_mvars

-----------------------------------------------------------------------------
(* What a loaded machine promises.                                         *)

\* The verdict on a document does not depend on the order of its keys: the
\* header's and the sections' values are readable and unknown keys occur only
\* under a newer minor, wherever the document declares it.
Acceptable(d) ==
  LET sections == {i \in DOMAIN d.entries : d.entries[i][1] \in Sections}
      minor == ValueOf(d.entries, "schema")[2]
  IN  /\ ~Repeats(d.entries) /\ {"schema", "target"} \subseteq KeysOf(d.entries)
      /\ d.tail = "none"
      /\ \A i \in DOMAIN d.entries : d.entries[i][1] \in Header \cup Sections
                                       => d.entries[i][2] # Bad
      /\ \A i \in sections : \A j \in DOMAIN d.entries[i][2] :
            Readable(d.entries[i][1], d.entries[i][2][j])
      /\ minor = 0 =>
           /\ KeysOf(d.entries) \subseteq Header \cup Sections
           /\ \A i \in sections : \A j \in DOMAIN d.entries[i][2] :
                ~HasUnknown(d.entries[i][1], d.entries[i][2][j])

\* The model an acceptable document describes.
Described(d) ==
  [key \in DOMAIN NoModel |->
     IF key = "major" THEN ValueOf(d.entries, "schema")[1]
     ELSE IF key = "minor" THEN ValueOf(d.entries, "schema")[2]
     ELSE IF key \notin KeysOf(d.entries) THEN NoModel[key]
     ELSE IF key \notin Sections THEN ValueOf(d.entries, key)
     ELSE [i \in DOMAIN ValueOf(d.entries, key) |-> Parsed(key, ValueOf(d.entries, key)[i])]]

OrderFree == /\ stage \in {"parsed", "loaded"} => Acceptable(doc) /\ model = Described(doc)
             /\ stage = "refused" => ~(Acceptable(doc) /\ VerifyMachineModel(Described(doc)))

\* Containment is a forest and visibility is inherited downwards.
Contained(m) ==
  \A i, j \in DOMAIN m.executors :
    LET e == m.executors[i].id
        f == m.executors[j].id
    IN  /\ IsWithin(m, e, f) /\ IsWithin(m, f, e) => e = f
        /\ \A k \in DOMAIN m.memories :
             IsVisible(m, m.memories[k].id, e) /\ IsWithin(m, f, e)
               => IsVisible(m, m.memories[k].id, f)

\* What the router takes for granted: a link joins two memories, and every
\* engine it names is attached to an executor; and the class of a node does
\* not depend on which node of its kind declares it.
Routable(m) ==
  /\ \A i \in DOMAIN m.links : LET l == m.links[i] IN
       /\ Exists(m, "memories", l.source) /\ Exists(m, "memories", l.destination)
       /\ \A j \in DOMAIN l.transfer_engines :
            Exists(m, "executors",
                   Find(m, "transfer_engines", l.transfer_engines[j]).attached_to)
  /\ \A i \in DOMAIN m.executors : \A j \in DOMAIN m.compute :
       m.executors[i].kind = m.compute[j].kind /\ m.compute[j].kind \notin Owners
         => Range(m.executors[i].refines) \cup Range(m.compute[j].refines) \subseteq {"matrix", "vector"}

\* What routing reads of a machine, but for the order of a link's engines.
RoutingView(m) ==
  [memories |-> {<<n.id, n.capacity_bytes, n.alignment_bytes, Range(n.supported_layouts)>> :
                   n \in Range(m.memories)},
   links    |-> {<<n.id, n.source, n.destination, n.bandwidth, n.transaction_bytes,
                   Range(n.transfer_engines)>> : n \in Range(m.links)},
   attached |-> {<<n.id, n.attached_to>> : n \in Range(m.transfer_engines)},
   visible  |-> {p \in {n.id : n \in Range(m.memories)} \X {n.id : n \in Range(m.executors)} :
                   IsVisible(m, p[1], p[2])}]

\* A loaded machine is what the passes behind the loader take it for: the
\* verdict is independent of the order of keys (deferUnknownKey), containment
\* is a forest along which visibility is inherited, links and engines resolve,
\* labels have one class, and two machines of one content hash route alike.
LoadSound ==
  /\ OrderFree
  /\ \A m \in known : Contained(m) /\ Routable(m)
  /\ \A m, n \in known : ContentHash(m) = ContentHash(n) => RoutingView(m) = RoutingView(n)
=============================================================================
