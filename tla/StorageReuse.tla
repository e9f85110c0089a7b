---------------------------- MODULE StorageReuse ----------------------------
(***************************************************************************)
(* The storage reuse pass of finalizeStoragePlan (lib/Mapping/             *)
(* StoragePlan.cpp) and the ordering edges requiredReuseEdgesFor (lib/     *)
(* Mapping/StorageLiveness.cpp) reports for it.  The pass takes the        *)
(* allocations in id order; each may take over the buffer of another whose *)
(* last use, by step number, is behind its own first step.                 *)
(*                                                                         *)
(* Allocation ids are 1 .. n in list order (nextAllocationId), so an id is *)
(* its own index.  An allocation is a record                               *)
(*   [memory, bytes, occ, begin, end, borrowed, reads]                     *)
(* where occ is simultaneousOccurrences and reads is the set of            *)
(* allocations the pass believes its writer reads (readable).              *)
(***************************************************************************)
EXTENDS Integers, FiniteSets

CONSTANTS Memories, Lists  \* the allocation lists considered

IsAllocation(a) ==
  /\ a.memory \in Memories
  /\ a.bytes \in Nat /\ a.occ \in Nat
  /\ a.begin \in Nat /\ a.end \in Nat /\ a.begin <= a.end
  /\ a.borrowed \in BOOLEAN

ASSUME ListsAssumption ==
  \A l \in Lists : /\ IsFiniteSet(DOMAIN l) /\ DOMAIN l = 1 .. Cardinality(DOMAIN l)
                    /\ \A i \in DOMAIN l : IsAllocation(l[i])

VARIABLES
  alloc,   \* the allocations
  alias,   \* aliasOf, 0 where it is unset
  root,    \* what rootIndex() answers
  later,   \* the allocation whose turn it is
  edges    \* requiredReuseEdgesFor

reuseVars == <<alloc, alias, root, later, edges>>

Ids == DOMAIN alloc
NoAlias == 0

ReuseInit ==
  /\ alloc \in Lists
  /\ alias = [i \in Ids |-> NoAlias]
  /\ root = [i \in Ids |-> i]
  /\ later = 1
  /\ edges = {}

Members(r) == {i \in Ids : root[i] = r}

\* MUTANT of Occupants: only the root.
OccupantsRoot(r, b) == {r}

\* The allocations whose ends rootLastUse is the largest of.
Occupants(r, b) == Members(r) \ {b}

\* The buffer of r can hold the value of b.
Holds(r, b) ==
  /\ ~alloc[r].borrowed
  /\ alloc[r].memory = alloc[b].memory /\ alloc[r].bytes >= alloc[b].bytes
  /\ alloc[r].occ >= alloc[b].occ

\* In place, or disjoint: rootLastUse <= begin, or rootLastUse < begin.
Dead(r, b) ==
  \/ r \in alloc[b].reads /\ \A i \in Occupants(r, b) : alloc[i].end <= alloc[b].begin
  \/ \A i \in Occupants(r, b) : alloc[i].end < alloc[b].begin

Reusable(r, b) == r \in Ids /\ r # b /\ root[r] = r /\ Holds(r, b) /\ Dead(r, b)

\* The buffer the pass takes: the one with the lowest id.
Best(b) == CHOOSE r \in Ids : Reusable(r, b) /\ \A s \in Ids : Reusable(s, b) => r <= s

Reuse ==
  /\ later \in Ids
  /\ ~alloc[later].borrowed /\ \E r \in Ids : Reusable(r, later)
  /\ alias' = [alias EXCEPT ![later] = Best(later)]
  /\ root' = [i \in Ids |-> IF root[i] = later THEN Best(later) ELSE root[i]]
  /\ later' = later + 1
  /\ UNCHANGED <<alloc, edges>>

Own(b) == alloc[b].borrowed \/ ~ \E r \in Ids : Reusable(r, b)

Keep ==
  /\ later \in Ids /\ Own(later)
  /\ later' = later + 1
  /\ UNCHANGED <<alloc, alias, root, edges>>

Before(i, j) == \/ alloc[i].begin < alloc[j].begin
                \/ alloc[i].begin = alloc[j].begin /\ i < j

\* MUTANT of Neighbours: order each occupant after the root only.
NeighboursOfRoot(i, j) == i = root[j] /\ i # j

\* j is the next occupant of the buffer after i.
Neighbours(i, j) ==
  /\ root[i] = root[j] /\ Before(i, j)
  /\ \A k \in Members(root[i]) : ~(Before(i, k) /\ Before(k, j))

Order ==
  /\ later = Cardinality(Ids) + 1 /\ edges = {}
  /\ edges' = {<<alloc[e[1]].end, alloc[e[2]].begin>> :
                 e \in {e \in Ids \X Ids : Neighbours(e[1], e[2])}}
  /\ later' = later + 1
  /\ UNCHANGED <<alloc, alias, root>>

Ordered == later = Cardinality(Ids) + 2

ReuseTerminated == Ordered /\ UNCHANGED reuseVars

ReuseNext == Reuse \/ Keep \/ Order \/ ReuseTerminated

ReuseSpec == ReuseInit /\ [][ReuseNext]_reuseVars
-----------------------------------------------------------------------------
(* Properties                                                              *)

\* Type invariant.
ReuseTypeOK ==
  /\ IsFiniteSet(Ids) /\ Ids = 1 .. Cardinality(Ids) /\ later \in 1 .. Cardinality(Ids) + 2
  /\ \A i \in Ids : IsAllocation(alloc[i])
  /\ alias \in [Ids -> Ids \cup {NoAlias}]
  /\ root \in [Ids -> Ids]
  /\ edges \subseteq Nat \X Nat

\* The walk of rootIndex(): n times one step up the alias chain.
Walk(i) ==
  LET up[k \in 0 .. Cardinality(Ids)] ==
        IF k = 0 THEN i
        ELSE IF alias[up[k - 1]] = NoAlias THEN up[k - 1] ELSE alias[up[k - 1]]
  IN  up[Cardinality(Ids)]

\* No chain of aliases is broken or cyclic: the walk ends at an allocation
\* that owns its buffer, and that is where the pass believes it ends.
RootIsWalk == \A i \in Ids : Walk(i) = root[i] /\ alias[root[i]] = NoAlias

\* j is written by an operation that reads an occupant of its buffer.
InPlace(j) == \E r \in Members(root[j]) : r \in alloc[j].reads

Precedes(i, j) == \/ alloc[i].end < alloc[j].begin
                  \/ alloc[i].end = alloc[j].begin /\ InPlace(j)

\* Two allocations in one buffer never hold a value over the same step: one is
\* last used before the other is written, or by the operation that writes the
\* other, whatever order the list has and however many occupants joined in
\* between.
OccupantsDisjoint ==
  \A i, j \in Ids : i # j /\ root[i] = root[j] => Precedes(i, j) \/ Precedes(j, i)

\* The buffer is large enough, often enough resident and in the memory of
\* every occupant, also at the end of a chain, and no borrowed storage is
\* shared.
BufferFits ==
  \A i \in Ids : root[i] # i =>
    /\ ~alloc[i].borrowed /\ ~alloc[root[i]].borrowed
    /\ alloc[root[i]].memory = alloc[i].memory
    /\ alloc[root[i]].bytes >= alloc[i].bytes
    /\ alloc[root[i]].occ >= alloc[i].occ

\* The steps of an edge, from an occupant to one that is written later.
Linked(i, j) == root[i] = root[j] /\ <<alloc[i].end, alloc[j].begin>> \in edges

\* The edges the caller merges into the step order lead from every occupant of
\* a buffer to every later one, not only from the root: whatever contains the
\* first and follows the edges contains the other.
EdgesChain ==
  Ordered =>
    \A i, j \in Ids : root[i] = root[j] /\ Before(i, j) =>
      \A S \in SUBSET Ids :
        i \in S /\ (\A a \in S, b \in Ids : Linked(a, b) => b \in S) => j \in S

\* The result of the reuse pass is usable: an alias is the end of its walk, its
\* buffer has the size and the memory of every occupant, no two occupants hold
\* a value at once, and the edges handed to the step order keep them apart.
ReuseSound == RootIsWalk /\ BufferFits /\ OccupantsDisjoint /\ EdgesChain
=============================================================================
