------------------------------ MODULE LruLevel ------------------------------
(***************************************************************************)
(* One level of the JIT cache: JitCache::CacheLevel of runtime/JitCache.cpp*)
(* and the lookup wrappers of the four levels.  A level is a linked list   *)
(* of entries, most recently used first, and an index from keys to list    *)
(* nodes.  Every operation runs under the level's mutex, except that       *)
(* lookup returns a pointer to the entry's value, which its caller reads   *)
(* after the mutex is released.                                            *)
(*                                                                         *)
(* A node is a heap address: splicing keeps it, erasing frees it, and a    *)
(* later insertion gets the lowest free one.                               *)
(***************************************************************************)
EXTENDS Naturals, FiniteSets, SequencesExt

CONSTANTS CacheKeys, Values,
          Threads,      \* the threads that use the level
          MaxSizes,     \* the values setMaxEntries is called with
          MaxOps        \* bound: operations in a behaviour

ASSUME LevelAssumption ==
  /\ IsFiniteSet(CacheKeys) /\ MaxOps \in Nat
  /\ MaxSizes \subseteq Nat /\ MaxSizes # {}

Nodes == 1 .. Cardinality(CacheKeys) + 1
Null  == 0

VARIABLES
  list,       \* lru_list: nodes, most recently used first
  entry,      \* what each allocated node holds: [key, value]
  index,      \* index: key -> node
  max,        \* max_entries
  evictions,  \* eviction_count
  hits,       \* hit_count
  misses,     \* miss_count
  ptr,        \* per thread: the pointer lookup returned and nobody read yet
  clock,      \* history: operations so far
  touched,    \* history: when each key was last inserted or hit
  latest,     \* history: the value last inserted for each key
  pushed,     \* history: entries added to the list
  dropped     \* history: entries that remove or clear took out

stats     == <<evictions, hits, misses>>
hist      == <<clock, touched, latest, pushed, dropped>>
levelVars == <<list, entry, index, max, stats, ptr, hist>>

EmptyLevel ==
  /\ list = <<>> /\ entry = <<>> /\ index = <<>>
  /\ evictions = 0 /\ hits = 0 /\ misses = 0
  /\ ptr = [t \in Threads |-> Null]
  /\ touched = [k \in CacheKeys |-> 0]
  /\ latest = <<>> /\ pushed = 0 /\ dropped = 0

\* A map with one slot assigned.
Update(f, x, y) == [z \in DOMAIN f \cup {x} |-> IF z = x THEN y ELSE f[z]]

\* An operation starts: its thread is not in the middle of another.
Enter(t) == ptr[t] = Null /\ clock < MaxOps /\ clock' = clock + 1

Touch(k) == touched' = [touched EXCEPT ![k] = clock']

\* lru_list.splice(begin, ...): the node moves, its address does not change.
ToFront(n) == <<n>> \o RemoveFirst(list, n)

\* index.erase
Forget(ks) == [k \in DOMAIN index \ ks |-> index[k]]

\* Free the nodes that are no longer in the list.
Free(ns) == [n \in DOMAIN entry \ ns |-> entry[n]]

\* it->second->value = std::move(value)
Rewrite(n, v) == [entry EXCEPT ![n].value = v]

\* eviction_count++ for every entry popped.
Counted(ns) == Cardinality(ns)

\* CacheLevel::lookup
Lookup(t, k) ==
  /\ Enter(t)
  /\ \/ /\ k \notin DOMAIN index
        /\ misses' = misses + 1
        /\ UNCHANGED <<list, hits, ptr, touched>>
     \/ /\ k \in DOMAIN index
        /\ hits' = hits + 1
        /\ list' = ToFront(index[k])
        /\ ptr' = [ptr EXCEPT ![t] = index[k]]
        /\ Touch(k)
        /\ UNCHANGED misses
  /\ UNCHANGED <<entry, index, max, evictions, latest, pushed, dropped>>

\* The wrapper copies *val without the mutex: by then another thread may have
\* freed the entry, and what the copy holds is undefined.
Deref(t) ==
  /\ ptr[t] # Null
  /\ ptr' = [ptr EXCEPT ![t] = Null]
  /\ UNCHANGED <<list, entry, index, max, stats, hist>>

\* MUTANT of Survivors: evict from the most recently used end.
SurvivorsNewestOut(room) ==
  SubSeq(list, Len(list) - (IF room < Len(list) THEN room ELSE Len(list)) + 1, Len(list))

\* The part of the list that stays when entries are popped from the back
\* until at most room are left.
Survivors(room) == SubSeq(list, 1, IF room < Len(list) THEN room ELSE Len(list))

\* The entries popped, and their keys.
Popped(room) == ToSet(list) \ ToSet(Survivors(room))
KeysIn(ns)   == {entry[n].key : n \in ns}

\* insert pops while size >= max_entries, and stops at the empty list.
RoomBefore == IF max = 0 THEN 0 ELSE max - 1

\* CacheLevel::insert
Insert(t, k, v) ==
  /\ Enter(t)
  /\ latest' = Update(latest, k, v)
  /\ Touch(k)
  /\ \/ /\ k \in DOMAIN index
        /\ entry' = Rewrite(index[k], v)
        /\ list' = ToFront(index[k])
        /\ UNCHANGED <<index, evictions, pushed>>
     \/ /\ k \notin DOMAIN index
        /\ LET out   == Popped(RoomBefore)
               kept  == Free(out)
               known == Forget(KeysIn(out))
               n     == Min(Nodes \ DOMAIN kept)
           IN /\ entry' = Update(kept, n, [key |-> k, value |-> v])
              /\ index' = Update(known, k, n)
              /\ list' = <<n>> \o Survivors(RoomBefore)
              /\ evictions' = evictions + Counted(out)
        /\ pushed' = pushed + 1
  /\ UNCHANGED <<max, hits, misses, ptr, dropped>>

\* CacheLevel::remove
RemoveKey(t, k) ==
  /\ Enter(t)
  /\ \/ k \notin DOMAIN index /\ UNCHANGED <<list, entry, index, dropped>>
     \/ /\ k \in DOMAIN index
        /\ list' = RemoveFirst(list, index[k])
        /\ entry' = Free({index[k]})
        /\ index' = Forget({k})
        /\ dropped' = dropped + 1
  /\ UNCHANGED <<max, stats, ptr, touched, latest, pushed>>

\* CacheLevel::clear, which JitCache::clear calls.
ClearLevel ==
  /\ list' = <<>> /\ entry' = <<>> /\ index' = <<>>
  /\ dropped' = dropped + Len(list)
  /\ UNCHANGED <<max, stats, ptr, clock, touched, latest, pushed>>

\* JitCache::evictLRU, which setMaxEntries calls.
EvictLRU(t, m) ==
  /\ Enter(t)
  /\ list' = Survivors(m)
  /\ entry' = Free(Popped(m))
  /\ index' = Forget(KeysIn(Popped(m)))
  /\ evictions' = evictions + Counted(Popped(m))
  /\ max' = m
  /\ UNCHANGED <<hits, misses, ptr, touched, latest, pushed, dropped>>

\* What a thread does with a level; clear is called through JitCache::clear.
LevelStep(t) ==
  \/ Deref(t)
  \/ \E k \in CacheKeys : Lookup(t, k) \/ RemoveKey(t, k)
  \/ \E k \in CacheKeys, v \in Values : Insert(t, k, v)
  \/ \E m \in MaxSizes : EvictLRU(t, m)
-----------------------------------------------------------------------------
(* Properties                                                              *)

\* Type invariant: an address is in the list at most once.
LevelTypeOK ==
  /\ ToSet(list) \subseteq Nodes /\ IsInjective(list)
  /\ DOMAIN entry = ToSet(list)
  /\ \A n \in DOMAIN entry : entry[n] \in [key : CacheKeys, value : Values]
  /\ DOMAIN index \subseteq CacheKeys /\ max \in Nat
  /\ ptr \in [Threads -> Nodes \cup {Null}]
  /\ {evictions, hits, misses, clock, pushed, dropped} \subseteq Nat

\* The index and the list describe the same cache: every key finds the node
\* that holds it, every listed node is found under its key.
IndexMatchesList ==
  /\ DOMAIN index = KeysIn(DOMAIN entry)
  /\ \A k \in DOMAIN index : index[k] \in ToSet(list) /\ entry[index[k]].key = k

\* The list is ordered by last use, whatever sequence of lookups, updates,
\* evictions and removals produced it, so its back is the least recently used.
RecencyOrder ==
  \A i, j \in DOMAIN list :
    i < j => touched[entry[list[i]].key] > touched[entry[list[j]].key]

\* A hit yields the value last inserted for its key: an update never leaves a
\* stale copy behind, and an evicted key's slot is never found again.
HoldsLatest == \A k \in DOMAIN index : entry[index[k]].value = latest[k]

\* The entry count never exceeds the limit by more than the entry insert adds
\* after it has emptied a level of limit 0.
SizeBounded == Len(list) <= max \/ Len(list) = 1

\* eviction_count counts exactly the entries lost to the limit.
EvictionsCounted == Len(list) + evictions + dropped = pushed

\* What stays in the cache when a step loses entries to the limit was used
\* more recently than everything that was lost.
EvictsOldest ==
  [][evictions' > evictions =>
       \A lost \in DOMAIN index \ DOMAIN index', kept \in DOMAIN index \cap DOMAIN index' :
         touched[lost] < touched[kept]]_levelVars
=============================================================================
